--------------------------- MODULE TradeRepository ---------------------------
(***************************************************************************)
(* The trade repository (trade_repository.cpp): its thread is the consumer *)
(* of a RingBuffer of trades and writes each one into a ScyllaDB table     *)
(* before it takes the next.  The table is keyed by buyer, seller and time *)
(* of day, and an INSERT under a key that has a row replaces the row.      *)
(*                                                                         *)
(* The values of the ring are the trades, numbered as they are made.  All  *)
(* of them are between the same two users: the key is then the time alone. *)
(***************************************************************************)
EXTENDS RingBuffer

CONSTANTS
    PerSecond,  \* trades made in a second
    Day         \* seconds of a day

ASSUME TradeAssumption == PerSecond \in Nat \ {0} /\ Day \in Nat \ {0}

VARIABLES
    saving,     \* the trade process_messages has handed to save, or NoTrade
    table,      \* orderbook.trades: time of day -> trade, Null where there is no row
    failed,     \* the trades whose INSERT was not applied
    phase,      \* "up", then the steps of the destructor
    thread      \* "running", "ended", or "undefined" once it has used freed memory

repoVars == <<saving, table, failed, phase, thread>>
allVars  == <<vars, repoVars>>

Trade == 1 .. MaxPush

(* The thread is not in save.  (Null is a trade that was moved out of its   *)
(* slot before: its users are empty strings, its row is none of the table.) *)
NoTrade == -1

(* cass_time_from_epoch: what is left of a time_t is the time since midnight. *)
TimeOfDay(t) == t % Day

(* The key handle_trade's timestamp gives trade n in save. *)
KeyOf(n) == TimeOfDay(n \div PerSecond)

RepoInit ==
    /\ Init
    /\ saving = NoTrade
    /\ table = [k \in 0 .. Day - 1 |-> Null]
    /\ failed = {}
    /\ phase = "up"
    /\ thread = "running"

-----------------------------------------------------------------------------
(* enqueue: the books are gone when the destructor runs. *)
Enqueue(p) ==
    /\ phase = "up"
    /\ Push(p)
    /\ UNCHANGED repoVars

(* process_messages: the head of the loop. *)
AtHead == thread = "running" /\ saving = NoTrade /\ cpc = "idle"

(* Mutant of PollRing: what pop returns is not looked at. *)
PollUnchecked ==
    /\ AtHead
    /\ phase # "stopping"
    /\ PopCheck
    /\ saving' = IF cpc' = "idle" /\ got # << >> THEN got[Len(got)] ELSE NoTrade
    /\ UNCHANGED <<table, failed, phase, thread>>

PollRing ==
    /\ AtHead
    /\ phase # "stopping"
    /\ PopCheck
    /\ UNCHANGED repoVars

ThreadEnds ==
    /\ AtHead
    /\ phase = "stopping"
    /\ thread' = "ended"
    /\ UNCHANGED <<vars, saving, table, failed, phase>>

MoveTrade == PopTake /\ UNCHANGED repoVars

(* pop has returned true: save is called with the trade. *)
PopReturns ==
    /\ PopAdvance
    /\ saving' = got[Len(got)]
    /\ UNCHANGED <<table, failed, phase, thread>>

(* Mutant of SaveTrade: a row that is there is kept. *)
SaveIfAbsent ==
    /\ thread = "running"
    /\ saving # NoTrade
    /\ phase = "up"
    /\ \/ /\ table' = [k \in DOMAIN table |->
                IF k = KeyOf(saving) /\ table[k] = Null THEN saving ELSE table[k]]
          /\ UNCHANGED failed
       \/ failed' = failed \cup ({saving} \ {Null}) /\ UNCHANGED table
    /\ saving' = NoTrade
    /\ UNCHANGED <<vars, phase, thread>>

(* save waits for the INSERT; whether it was applied nobody asks. *)
SaveTrade ==
    /\ thread = "running"
    /\ saving # NoTrade
    /\ phase = "up"
    /\ \/ /\ table' = [k \in DOMAIN table |->
                IF k = KeyOf(saving) /\ saving # Null THEN saving ELSE table[k]]
          /\ UNCHANGED failed
       \/ failed' = failed \cup ({saving} \ {Null}) /\ UNCHANGED table
    /\ saving' = NoTrade
    /\ UNCHANGED <<vars, phase, thread>>

(* save with a statement and a session that the destructor has freed. *)
SaveFreed ==
    /\ thread = "running"
    /\ saving # NoTrade
    /\ phase # "up"
    /\ thread' = "undefined"
    /\ UNCHANGED <<vars, saving, table, failed, phase>>

-----------------------------------------------------------------------------
(* The destructor: the session goes first, then the thread is stopped. *)
FreeSession ==
    /\ phase = "up"
    /\ \A p \in Producer : ppc[p] = "idle"
    /\ phase' = "freed"
    /\ UNCHANGED <<vars, saving, table, failed, thread>>

RequestStop ==
    /\ phase = "freed"
    /\ phase' = "stopping"
    /\ UNCHANGED <<vars, saving, table, failed, thread>>

Join ==
    /\ phase = "stopping"
    /\ thread = "ended"
    /\ phase' = "joined"
    /\ UNCHANGED <<vars, saving, table, failed, thread>>

-----------------------------------------------------------------------------
ProcessMessages ==
    PollRing \/ ThreadEnds \/ MoveTrade \/ PopReturns \/ SaveTrade \/ SaveFreed

RepoNext ==
    \/ \E p \in Producer : Enqueue(p)
    \/ ProcessMessages
    \/ FreeSession \/ RequestStop \/ Join

(* The thread polls and saves, and a destructor that has begun goes on. *)
RepoSpec ==
    RepoInit /\ [][RepoNext]_allVars /\ WF_allVars(ProcessMessages) /\ WF_allVars(RequestStop \/ Join)

(* get_all_trades *)
GetAllTrades == {table[k] : k \in DOMAIN table} \ {Null}

(* convert_to_trade: the timestamp that comes back is the time of day. *)
ConvertToTrade(n) == [trade |-> n, timestamp |-> KeyOf(n)]

(* get_trade_by_primary_key: the row, if there is one; the code reads a row *)
(* from the iterator without asking whether there is.                       *)
GetTradeByPrimaryKey(t) == table[TimeOfDay(t)]

-----------------------------------------------------------------------------
(* Correctness *)

(* The repository's variables and the ring's keep their types: no key lies  *)
(* outside a day and the thread saves nothing but trades.                   *)
RepoTypeOK ==
    /\ TypeOK
    /\ saving \in Trade \cup {Null, NoTrade}
    /\ table \in [0 .. Day - 1 -> Trade \cup {Null}]
    /\ failed \subseteq Trade
    /\ phase \in {"up", "freed", "stopping", "joined"}
    /\ thread \in {"running", "ended", "undefined"}

(* The trade has left the ring and save has returned from it. *)
Settled(n) == n \in 1 .. Len(got) /\ n # saving /\ ~(cpc = "advance" /\ n = Len(got))

(* A trade that has been saved is read back under its time, unless its      *)
(* INSERT failed or a later trade of the same two users has the same time   *)
(* of day, or the ring was strained; a row is always found under the key of *)
(* its own trade.                                                           *)
RowIsLatest ==
    /\ ~strained => \A n \in Trade : Settled(n) /\ n \notin failed =>
        LET row == GetTradeByPrimaryKey(n \div PerSecond) IN row >= n /\ row \notin failed
    /\ \A k \in DOMAIN table : table[k] # Null => KeyOf(table[k]) = k

(* Every trade enqueued while the repository is up is settled in the end,   *)
(* as long as the ring is not strained (nothing in the code keeps the       *)
(* workers from it): one failed INSERT does not stop the thread.            *)
SettledInTheEnd == \A n \in Trade : sent >= n ~> Settled(n) \/ phase # "up" \/ strained

(* The thread has found the ring empty and has nothing in its hands. *)
Drained == read_pos = write_pos /\ write_cache = write_pos /\ saving = NoTrade /\ cpc = "idle"

(* The thread does not touch the session it finds freed after the drain. *)
DrainedIsSafe == [](phase = "freed" /\ Drained => [](thread # "undefined"))

(* The destructor frees the session under the running thread.  That is      *)
(* harmless when the ring has been drained before: the thread touches the   *)
(* session no more, and the destructor returns.                             *)
DrainedShutdown == DrainedIsSafe /\ (phase = "freed" /\ Drained ~> phase = "joined")
=============================================================================
