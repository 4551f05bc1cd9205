---------------------------- MODULE RingBuffer ----------------------------
(***************************************************************************)
(* The lock-free ring buffer (ringbuffer.hpp) between the threads of the   *)
(* exchange: tasks to the worker of an instrument, orders and trades to    *)
(* the repository threads.  One action per access to shared memory; the    *)
(* release stores and acquire loads of the two positions make the          *)
(* interleaving of these actions what one producer and one consumer see.   *)
(*                                                                         *)
(* Pushed values are numbered by the order in which the pushes begin.      *)
(* A slot that was never written, or whose value was moved out, is Null.   *)
(***************************************************************************)
EXTENDS Integers, Sequences

CONSTANTS
    Capacity,   \* slots of the ring
    Producer,   \* threads that push
    MaxPush     \* bound on pushes

ASSUME RingAssumption ==
    /\ Capacity \in Nat \ {0}
    /\ Producer # {}
    /\ MaxPush \in Nat

VARIABLES
    read_pos,       \* _read_pos
    read_cache,     \* _read_pos_cache, the producer's copy
    write_pos,      \* _write_pos
    write_cache,    \* _write_pos_cache, the consumer's copy
    data,           \* _data
    ppc,            \* where each producer is in push
    pos,            \* push: local write_pos
    next,           \* push: local next_write_pos
    value,          \* push: the value pushed
    cpc,            \* where the consumer is in pop
    begun,          \* number of pushes begun
    sent,           \* number of pushes completed
    got,            \* the values popped
    strained        \* have two pushes overlapped, or met a ring without a free slot?

sharedVars == <<read_pos, read_cache, write_pos, write_cache, data>>
pushVars   == <<ppc, pos, next, value>>
vars == <<sharedVars, pushVars, cpc, begun, sent, got, strained>>

Null == 0
Slot == 0 .. Capacity - 1

(* The position after the last slot is slot 0. *)
Wrap(i) == IF i = Capacity THEN 0 ELSE i

Init ==
    /\ read_pos = 0
    /\ read_cache = 0
    /\ write_pos = 0
    /\ write_cache = 0
    /\ data = [i \in Slot |-> Null]
    /\ ppc = [p \in Producer |-> "idle"]
    /\ pos = [p \in Producer |-> 0]
    /\ next = [p \in Producer |-> 0]
    /\ value = [p \in Producer |-> Null]
    /\ cpc = "idle"
    /\ begun = 0
    /\ sent = 0
    /\ got = << >>
    /\ strained = FALSE

-----------------------------------------------------------------------------
(* push *)

(* A caller begins to push.  The history variable strained says whether one *)
(* has done so while another was pushing, or while all slots but one were   *)
(* taken: nothing in push keeps it from either.                             *)
PushBegin(p) ==
    /\ ppc[p] = "idle"
    /\ begun < MaxPush
    /\ begun' = begun + 1
    /\ strained' = (strained \/ (\E q \in Producer : ppc[q] # "idle")
                             \/ begun - Len(got) >= Capacity - 1)
    /\ value' = [value EXCEPT ![p] = begun']
    /\ ppc' = [ppc EXCEPT ![p] = "load"]
    /\ UNCHANGED <<sharedVars, pos, next, cpc, sent, got>>

(* The next_write_pos that is compared with the cache: not wrapped. *)
Following(i) == i + 1

PushLoad(p) ==
    /\ ppc[p] = "load"
    /\ pos' = [pos EXCEPT ![p] = write_pos]
    /\ next' = [next EXCEPT ![p] = Following(write_pos)]
    /\ ppc' = [ppc EXCEPT ![p] = "check"]
    /\ UNCHANGED <<sharedVars, value, cpc, begun, sent, got, strained>>

(* The full test: refresh the cache when the next position is the cached    *)
(* read position, and try again when it is still the read position.         *)
PushCheck(p) ==
    /\ ppc[p] = "check"
    /\ read_cache' = IF next[p] = read_cache THEN read_pos ELSE read_cache
    /\ ppc' = [ppc EXCEPT ![p] = IF next[p] = read_cache' THEN "load" ELSE "write"]
    /\ UNCHANGED <<read_pos, write_pos, write_cache, data, pos, next, value, cpc, begun, sent, got, strained>>

(* Mutant of PushWrite: the slot after the write position is filled. *)
PushWriteNext(p) ==
    /\ ppc[p] = "write"
    /\ data' = [data EXCEPT ![Wrap(next[p])] = value[p]]
    /\ ppc' = [ppc EXCEPT ![p] = "publish"]
    /\ UNCHANGED <<read_pos, read_cache, write_pos, write_cache, pos, next, value, cpc, begun,
                   sent, got, strained>>

PushWrite(p) ==
    /\ ppc[p] = "write"
    /\ data' = [data EXCEPT ![pos[p]] = value[p]]
    /\ ppc' = [ppc EXCEPT ![p] = "publish"]
    /\ UNCHANGED <<read_pos, read_cache, write_pos, write_cache, pos, next, value, cpc, begun,
                   sent, got, strained>>

PushPublish(p) ==
    /\ ppc[p] = "publish"
    /\ write_pos' = Wrap(next[p])
    /\ ppc' = [ppc EXCEPT ![p] = "idle"]
    /\ sent' = sent + 1
    /\ UNCHANGED <<read_pos, read_cache, write_cache, data, pos, next, value, cpc, begun, got, strained>>

-----------------------------------------------------------------------------
(* pop *)

(* Mutant of PopCheck: the cached write position is believed when it is     *)
(* equal to the read position too.                                          *)
PopWithoutReload ==
    /\ cpc = "idle"
    /\ read_pos # write_cache
    /\ cpc' = "take"
    /\ UNCHANGED <<sharedVars, pushVars, begun, sent, got, strained>>

(* The empty test: refresh the cache when it is the read position, and      *)
(* return false when it still is.                                           *)
PopCheck ==
    /\ cpc = "idle"
    /\ write_cache' = IF read_pos = write_cache THEN write_pos ELSE write_cache
    /\ cpc' = IF read_pos = write_cache' THEN "idle" ELSE "take"
    /\ UNCHANGED <<read_pos, read_cache, write_pos, data, pushVars, begun, sent, got, strained>>

(* The value is moved out of its slot. *)
PopTake ==
    /\ cpc = "take"
    /\ got' = Append(got, data[read_pos])
    /\ data' = [data EXCEPT ![read_pos] = Null]
    /\ cpc' = "advance"
    /\ UNCHANGED <<read_pos, read_cache, write_pos, write_cache, pushVars, begun, sent, strained>>

(* Mutant of PopAdvance: the read position stays where it is. *)
PopStay ==
    /\ cpc = "advance"
    /\ cpc' = "idle"
    /\ UNCHANGED <<sharedVars, pushVars, begun, sent, got, strained>>

PopAdvance ==
    /\ cpc = "advance"
    /\ read_pos' = Wrap(read_pos + 1)
    /\ cpc' = "idle"
    /\ UNCHANGED <<read_cache, write_pos, write_cache, data, pushVars, begun, sent, got, strained>>

-----------------------------------------------------------------------------
Push(p) == PushBegin(p) \/ PushLoad(p) \/ PushCheck(p) \/ PushWrite(p) \/ PushPublish(p)

Pop == PopCheck \/ PopTake \/ PopAdvance

Next == (\E p \in Producer : Push(p)) \/ Pop

Spec == Init /\ [][Next]_vars

-----------------------------------------------------------------------------
(* Correctness *)

(* Positions are slots, local copies of them may be one past the last. *)
TypeOK ==
    /\ read_pos \in Slot
    /\ read_cache \in Slot
    /\ write_pos \in Slot
    /\ write_cache \in Slot
    /\ data \in [Slot -> 0 .. MaxPush]
    /\ ppc \in [Producer -> {"idle", "load", "check", "write", "publish"}]
    /\ pos \in [Producer -> Slot]
    /\ next \in [Producer -> 0 .. Capacity]
    /\ value \in [Producer -> 0 .. MaxPush]
    /\ cpc \in {"idle", "take", "advance"}
    /\ begun \in 0 .. MaxPush
    /\ sent \in Nat
    /\ got \in Seq(0 .. MaxPush)
    /\ strained \in BOOLEAN

(* As long as pushes have not overlapped and have found a slot to spare,    *)
(* from whatever threads they come, the consumer receives the values in the *)
(* order of the pushes, none twice, none lost in between, no empty slot.    *)
InOrder == ~strained => \A i \in DOMAIN got : got[i] = i

Channel == INSTANCE Fifo

(* Push and pop are the send and the receive of a first-in-first-out        *)
(* channel until pushes overlap or the ring is full.                        *)
ImplementsFifo == Channel!Spec

(* test_ringbuffer.cpp:18-48 (InsertPopMultiSaftey) has several threads     *)
(* push at once and expects to pop all they pushed, EXPECT_EQ(sum,          *)
(* test_sum): when every push has returned and the ring is found empty,     *)
(* every value has come out.                                                *)
NoneLost ==
    /\ \A p \in Producer : ppc[p] = "idle"
    /\ cpc = "idle"
    /\ read_pos = write_pos
    /\ write_cache = write_pos
    => \A v \in 1 .. begun : \E i \in DOMAIN got : got[i] = v
=============================================================================
