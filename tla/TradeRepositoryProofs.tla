------------------------ MODULE TradeRepositoryProofs ------------------------
(***************************************************************************)
(* Proofs about RingBuffer, for every capacity and number of producers and *)
(* pushes, and about TradeRepository, which uses it, for every number of   *)
(* trades, length of the day and rate of trading.                          *)
(***************************************************************************)
EXTENDS TradeRepository, TLAPS

-----------------------------------------------------------------------------
(* The types of the ring *)

(* Every step keeps the types, however many threads push. *)
LEMMA TypeStep ==
    ASSUME TypeOK, [Next]_vars
    PROVE  TypeOK'
<1> USE RingAssumption DEF TypeOK, Slot, Null
<1>1. ASSUME NEW p \in Producer, PushBegin(p)
      PROVE  TypeOK'
  <2>1. begun' \in 0 .. MaxPush
    BY <1>1 DEF PushBegin
  <2>2. value' \in [Producer -> 0 .. MaxPush] /\ strained' \in BOOLEAN
    BY <1>1, <2>1 DEF PushBegin
  <2> QED
    BY <1>1, <2>1, <2>2 DEF PushBegin, sharedVars
<1>2. ASSUME NEW p \in Producer, PushLoad(p)
      PROVE  TypeOK'
  <2>1. write_pos \in Slot /\ Following(write_pos) \in 0 .. Capacity
    BY DEF Following
  <2>2. pos' \in [Producer -> Slot] /\ next' \in [Producer -> 0 .. Capacity]
    BY <1>2, <2>1 DEF PushLoad
  <2>3. ppc' \in [Producer -> {"idle", "load", "check", "write", "publish"}]
    BY <1>2 DEF PushLoad
  <2>4. UNCHANGED <<read_pos, read_cache, write_pos, write_cache, data, value, cpc, begun, sent, got, strained>>
    BY <1>2 DEF PushLoad, sharedVars
  <2> QED
    BY <2>2, <2>3, <2>4
<1>3. ASSUME NEW p \in Producer, PushCheck(p)
      PROVE  TypeOK'
  BY <1>3 DEF PushCheck
<1>4. ASSUME NEW p \in Producer, PushWrite(p)
      PROVE  TypeOK'
  BY <1>4 DEF PushWrite
<1>5. ASSUME NEW p \in Producer, PushPublish(p)
      PROVE  TypeOK'
  <2>1. Wrap(next[p]) \in Slot
    BY DEF Wrap
  <2>2. write_pos' \in Slot /\ sent' \in Nat
    BY <1>5, <2>1 DEF PushPublish
  <2>3. ppc' \in [Producer -> {"idle", "load", "check", "write", "publish"}]
    BY <1>5 DEF PushPublish
  <2>4. UNCHANGED <<read_pos, read_cache, write_cache, data, pos, next, value, cpc, begun, got, strained>>
    BY <1>5 DEF PushPublish
  <2> QED
    BY <2>2, <2>3, <2>4
<1>6. CASE PopCheck
  BY <1>6 DEF PopCheck, pushVars
<1>7. CASE PopTake
  <2>1. data[read_pos] \in 0 .. MaxPush
    OBVIOUS
  <2>2. got' \in Seq(0 .. MaxPush)
    BY <1>7, <2>1 DEF PopTake
  <2>3. data' \in [Slot -> 0 .. MaxPush]
    BY <1>7 DEF PopTake
  <2> QED
    BY <1>7, <2>2, <2>3 DEF PopTake, pushVars
<1>8. CASE PopAdvance
  BY <1>8 DEF PopAdvance, pushVars, Wrap
<1>9. CASE UNCHANGED vars
  BY <1>9 DEF vars, sharedVars, pushVars
<1> QED
  BY <1>1, <1>2, <1>3, <1>4, <1>5, <1>6, <1>7, <1>8, <1>9 DEF Next, Push, Pop

-----------------------------------------------------------------------------
(* The ring as long as it is not strained: one thread pushes at a time, and *)
(* a slot stays free                                                        *)

(* The slot i places on, for i less than two rounds of the ring. *)
Fold(i) == IF i >= Capacity THEN i - Capacity ELSE i

(* Slots from position a on to position b. *)
Distance(a, b) == IF b >= a THEN b - a ELSE b - a + Capacity

(* 1 between the move out of the slot and the store of the read position. *)
Taken == IF cpc = "advance" THEN 1 ELSE 0

(* Pushes completed and not yet popped. *)
Held == sent - Len(got)

(* The slot that holds value v. *)
SlotOf(v) == Fold(read_pos + (Taken + v - Len(got) - 1))

(* The values in the ring: the completed pushes, and the one that has been  *)
(* written and is about to be published.                                    *)
Stored(p) == {v \in Nat : Len(got) < v /\ v <= (IF ppc[p] = "publish" THEN begun ELSE sent)}

(* No thread but p pushes. *)
Sole(p) == \A q \in Producer \ {p} : ppc[q] = "idle"

ProducerInv(p) ==
    /\ begun = IF ppc[p] = "idle" THEN sent ELSE sent + 1
    /\ ppc[p] # "idle" => value[p] = begun
    /\ ppc[p] \in {"check", "write", "publish"} => pos[p] = write_pos /\ next[p] = write_pos + 1

PositionInv ==
    /\ Len(got) <= sent
    /\ begun - Len(got) <= Capacity - 1
    /\ \/ write_pos = read_pos + Held + Taken
       \/ write_pos = read_pos + Held + Taken - Capacity
    /\ Distance(read_pos, write_cache) <= Held + Taken
    /\ cpc # "idle" => Distance(read_pos, write_cache) >= 1

DataInv(p) == \A v \in Stored(p) : data[SlotOf(v)] = v

GotInOrder == \A i \in DOMAIN got : got[i] = i

RingInv(p) == TypeOK /\ Sole(p) /\ ProducerInv(p) /\ PositionInv /\ DataInv(p) /\ GotInOrder

(* The types hold in any case, the rest until the ring is strained. *)
CalmInv == TypeOK /\ (~strained => \E p \in Producer : RingInv(p))

(* Folding stays in the ring. *)
LEMMA FoldInRing ==
    ASSUME NEW r \in Slot, NEW d \in Int, 0 <= d, d <= Capacity
    PROVE  Fold(r + d) \in Slot
BY RingAssumption DEF Fold, Slot

(* Folding is one-to-one on one round of the ring. *)
LEMMA FoldDistinct ==
    ASSUME NEW r \in Slot, NEW d \in Int, NEW e \in Int,
           0 <= d, d < e, e < d + Capacity, e <= Capacity
    PROVE  Fold(r + e) # Fold(r + d)
BY RingAssumption DEF Fold, Slot

(* A position that is d slots on is where folding leads. *)
LEMMA FoldReaches ==
    ASSUME NEW r \in Slot, NEW w \in Slot, NEW d \in Int, 0 <= d, d <= Capacity,
           w = r + d \/ w = r + d - Capacity
    PROVE  Fold(r + d) = w
BY RingAssumption DEF Fold, Slot

(* Folding commutes with the advance of the read position. *)
LEMMA FoldAdvance ==
    ASSUME NEW r \in Slot, NEW d \in Int, 0 < d, d <= Capacity
    PROVE  Fold(Wrap(r + 1) + (d - 1)) = Fold(r + d)
BY RingAssumption DEF Fold, Slot, Wrap

(* Initially the ring is empty. *)
LEMMA RingInit ==
    ASSUME NEW p \in Producer, Init
    PROVE  RingInv(p)
<1>1. TypeOK
  BY RingAssumption DEF Init, TypeOK, Slot, Null
<1> QED
  BY <1>1, RingAssumption DEF Init, RingInv, Sole, ProducerInv, PositionInv, DataInv, GotInOrder,
     Stored, Held, Taken, Distance, Slot, Null

(* While nobody pushes it does not matter who pushes next. *)
LEMMA RingHandedOver ==
    ASSUME NEW p \in Producer, NEW q \in Producer, RingInv(p), ppc[p] = "idle"
    PROVE  RingInv(q)
<1>1. \A r \in Producer : ppc[r] = "idle"
  BY DEF RingInv, Sole
<1>2. Sole(q) /\ ProducerInv(q)
  BY <1>1 DEF RingInv, Sole, ProducerInv
<1>3. Stored(q) = Stored(p)
  BY <1>1 DEF Stored
<1> QED
  BY <1>2, <1>3 DEF RingInv, DataInv

(* Every step of push and pop that does not strain the ring keeps it        *)
(* consistent.                                                              *)
LEMMA RingStep ==
    ASSUME NEW p \in Producer, RingInv(p), ~strained', Push(p) \/ Pop \/ UNCHANGED vars
    PROVE  RingInv(p)'
<1>y. TypeOK'
  <2>1. [Next]_vars
    BY DEF Next
  <2> QED
    BY <2>1, TypeStep DEF RingInv
<1>z. Sole(p)'
  <2>1. CASE Push(p)
    BY <2>1 DEF RingInv, TypeOK, Sole, Push, PushBegin, PushLoad, PushCheck, PushWrite, PushPublish
  <2>2. CASE Pop \/ UNCHANGED vars
    BY <2>2 DEF RingInv, Sole, Pop, PopCheck, PopTake, PopAdvance, pushVars, vars
  <2> QED
    BY <2>1, <2>2
<1> USE RingAssumption DEF RingInv, Slot, Null
<1> DEFINE ring == /\ read_pos \in Int /\ 0 <= read_pos /\ read_pos < Capacity
                   /\ write_pos \in Int /\ 0 <= write_pos /\ write_pos < Capacity
                   /\ write_cache \in Int /\ 0 <= write_cache /\ write_cache < Capacity
                   /\ Len(got) \in Nat /\ sent \in Nat /\ begun \in Nat
<1>r. ring
  BY DEF TypeOK
<1>s. read_pos \in Slot /\ write_pos \in Slot
  BY DEF TypeOK
<1>t. /\ Taken \in Int /\ 0 <= Taken /\ Taken <= 1
      /\ cpc = "advance" => Taken = 1
      /\ cpc # "advance" => Taken = 0
  BY DEF Taken
<1>b. sent <= begun /\ begun <= sent + 1 /\ begun - Len(got) <= Capacity - 1
  BY <1>r DEF ProducerInv, PositionInv
<1>h. /\ Held \in Int /\ 0 <= Held /\ Held <= Capacity - 1
      /\ \/ write_pos = read_pos + Held + Taken
         \/ write_pos = read_pos + Held + Taken - Capacity
  <2>1. PositionInv
    BY Zenon DEF RingInv
  <2>2. Held = sent - Len(got)
    BY Zenon DEF Held
  <2>3. Len(got) <= sent
    BY <2>1 DEF PositionInv
  <2>4. \/ write_pos = read_pos + Held + Taken
        \/ write_pos = read_pos + Held + Taken - Capacity
    BY <2>1, Zenon DEF PositionInv
  <2> HIDE DEF RingInv
  <2> QED
    BY <1>r, <1>b, <2>2, <2>3, <2>4
<1>1. CASE PushBegin(p)
  <2> USE <1>1 DEF PushBegin, sharedVars
  <2>1. TypeOK'
    BY <1>y
  <2>2. ProducerInv(p)'
    BY DEF TypeOK, ProducerInv
  <2>3. PositionInv'
    <3>1. begun - Len(got) < Capacity - 1 /\ begun' = begun + 1
      <4>1. ~(begun - Len(got) >= Capacity - 1) /\ begun' = begun + 1
        BY <1>1, Zenon DEF PushBegin
      <4> HIDE <1>1 DEF PushBegin, RingInv
      <4> QED
        BY <1>r, <4>1
    <3>2. UNCHANGED <<read_pos, write_pos, write_cache, cpc, sent, got>>
      OBVIOUS
    <3> HIDE DEF PushBegin
    <3> QED
      BY <1>r, <3>1, <3>2 DEF PositionInv, Held, Taken, Distance
  <2>4. DataInv(p)'
    BY DEF DataInv, Stored, SlotOf, Fold, Taken, TypeOK
  <2> QED
    BY <1>z, <2>1, <2>2, <2>3, <2>4 DEF GotInOrder
<1>2. CASE PushLoad(p)
  <2> USE <1>2 DEF PushLoad, sharedVars
  <2>1. TypeOK'
    BY <1>y
  <2>2. ProducerInv(p)'
    BY DEF TypeOK, ProducerInv, Following
  <2>3. PositionInv'
    BY DEF PositionInv, Held, Taken, Distance
  <2>4. DataInv(p)'
    BY DEF DataInv, Stored, SlotOf, Fold, Taken, TypeOK
  <2> QED
    BY <1>z, <2>1, <2>2, <2>3, <2>4 DEF GotInOrder
<1>3. CASE PushCheck(p)
  <2> USE <1>3 DEF PushCheck
  <2>1. TypeOK'
    BY <1>y
  <2>2. ProducerInv(p)'
    BY DEF TypeOK, ProducerInv
  <2>3. PositionInv'
    BY DEF PositionInv, Held, Taken, Distance
  <2>4. DataInv(p)'
    BY DEF DataInv, Stored, SlotOf, Fold, Taken, TypeOK
  <2> QED
    BY <1>z, <2>1, <2>2, <2>3, <2>4 DEF GotInOrder
<1>4. CASE PushWrite(p)
  <2> USE <1>4 DEF PushWrite
  <2>1. TypeOK'
    BY <1>y
  <2>2. ProducerInv(p)'
    BY DEF TypeOK, ProducerInv
  <2>3. PositionInv'
    BY DEF PositionInv, Held, Taken, Distance
  <2>4. DataInv(p)'
    <3> SUFFICES ASSUME NEW v \in Stored(p)'
                 PROVE  data'[SlotOf(v)] = v
      BY DEF DataInv, SlotOf, Fold, Taken
    <3>1. begun = sent + 1 /\ value[p] = begun /\ pos[p] = write_pos
      BY DEF ProducerInv
    <3>2. v \in Nat /\ Len(got) < v /\ v <= sent + 1
      BY <3>1 DEF Stored, TypeOK
    <3>3. CASE v = sent + 1
      <4>1. SlotOf(v) = Fold(read_pos + (Held + Taken))
        BY <1>r, <1>t, <3>3 DEF SlotOf, Held
      <4> DEFINE e == Held + Taken
      <4>a. /\ e \in Int /\ 0 <= e /\ e <= Capacity
            /\ write_pos = read_pos + e \/ write_pos = read_pos + e - Capacity
        <5> HIDE DEF RingInv, PushWrite
        <5> QED
          BY <1>r, <1>t, <1>h
      <4>b. Fold(read_pos + e) = write_pos
        <5> HIDE DEF e, Slot, RingInv
        <5> QED
          BY <1>s, <4>a, FoldReaches
      <4>2. SlotOf(v) = write_pos
        BY <4>1, <4>b
      <4> QED
        BY <4>2, <3>1, <3>3 DEF TypeOK
    <3>4. CASE v <= sent
      <4>1. v \in Stored(p)
        BY <3>2, <3>4 DEF Stored, TypeOK
      <4> DEFINE d == Taken + v - Len(got) - 1
                 e == Held + Taken
      <4>2. /\ d \in Int /\ e \in Int /\ 0 <= d /\ d < e /\ e <= Capacity
            /\ e < d + Capacity
        <5>1. Held = sent - Len(got)
          BY Zenon DEF Held
        <5> HIDE DEF RingInv, PushWrite
        <5> QED
          BY <1>r, <1>t, <1>h, <3>2, <3>4, <5>1
      <4>a. write_pos = read_pos + e \/ write_pos = read_pos + e - Capacity
        <5> HIDE DEF RingInv, PushWrite
        <5> QED
          BY <1>r, <1>t, <1>h
      <4>3. Fold(read_pos + e) = write_pos
        <5> HIDE DEF d, e, Slot, RingInv
        <5> QED
          BY <1>s, <4>2, <4>a, FoldReaches
      <4>4. Fold(read_pos + d) \in Slot /\ Fold(read_pos + e) # Fold(read_pos + d)
        <5> HIDE DEF d, e, Slot, RingInv
        <5> QED
          BY <1>s, <4>2, FoldInRing, FoldDistinct
      <4>5. SlotOf(v) # write_pos /\ SlotOf(v) \in Slot
        BY <4>3, <4>4 DEF SlotOf
      <4> QED
        BY <4>1, <4>5, <3>1 DEF DataInv, TypeOK
    <3> QED
      BY <1>r, <3>2, <3>3, <3>4
  <2> QED
    BY <1>z, <2>1, <2>2, <2>3, <2>4 DEF GotInOrder
<1>5. CASE PushPublish(p)
  <2> USE <1>5 DEF PushPublish
  <2>1. TypeOK'
    BY <1>y
  <2>2. ProducerInv(p)'
    BY DEF TypeOK, ProducerInv
  <2>3. PositionInv'
    <3>1. Taken' = Taken /\ Held' = Held + 1
      BY <1>r DEF Taken, Held
    <3>2. next[p] = write_pos + 1 /\ begun = sent + 1 /\ Held \in Int
      BY <1>r DEF ProducerInv, Held
    <3>3. /\ Len(got') <= sent'
          /\ begun' - Len(got') <= Capacity - 1
          /\ Distance(read_pos, write_cache)' <= Held' + Taken'
          /\ cpc' # "idle" => Distance(read_pos, write_cache)' >= 1
      BY <1>r, <1>t, <3>1, <3>2 DEF PositionInv, Distance
    <3>4. \/ write_pos' = read_pos' + Held' + Taken'
          \/ write_pos' = read_pos' + Held' + Taken' - Capacity
      <4>1. Held + Taken < Capacity
        BY <1>r, <1>t, <1>b, <3>2 DEF Held
      <4>2. CASE next[p] = Capacity
        BY <1>r, <1>t, <3>1, <3>2, <4>1, <4>2 DEF PositionInv, Wrap
      <4>3. CASE next[p] # Capacity
        BY <1>r, <1>t, <3>1, <3>2, <4>1, <4>3 DEF PositionInv, Wrap
      <4> QED
        BY <4>2, <4>3
    <3> QED
      BY <3>3, <3>4 DEF PositionInv
  <2>4. DataInv(p)'
    BY DEF ProducerInv, DataInv, Stored, SlotOf, Fold, Taken, TypeOK
  <2> QED
    BY <1>z, <2>1, <2>2, <2>3, <2>4 DEF GotInOrder
<1>6. CASE PopCheck
  <2> USE <1>6 DEF PopCheck, pushVars
  <2>1. TypeOK'
    BY <1>y
  <2>2. ProducerInv(p)'
    BY DEF ProducerInv
  <2>3. PositionInv'
    <3>1. Taken' = 0 /\ Taken = 0 /\ Held' = Held /\ Held \in Int
      BY <1>r, <1>t DEF Taken, Held, TypeOK
    <3>2. Distance(read_pos, write_pos) = Held
      BY <1>r, <1>b, <3>1 DEF PositionInv, Distance, Held
    <3>3. /\ Distance(read_pos, write_cache)' <= Held
          /\ cpc' # "idle" => Distance(read_pos, write_cache)' >= 1
      <4>1. CASE read_pos = write_cache
        BY <1>r, <3>1, <3>2, <4>1 DEF PositionInv, Distance
      <4>2. CASE read_pos # write_cache
        BY <1>r, <3>1, <4>2 DEF PositionInv, Distance
      <4> QED
        BY <4>1, <4>2
    <3> QED
      BY <1>r, <3>1, <3>3 DEF PositionInv
  <2>4. DataInv(p)'
    BY DEF DataInv, Stored, SlotOf, Fold, Taken
  <2> QED
    BY <1>z, <2>1, <2>2, <2>3, <2>4 DEF GotInOrder
<1>7. CASE PopTake
  <2> USE <1>7 DEF PopTake, pushVars
  <2>0. Held >= 1 /\ Distance(read_pos, write_cache) >= 1
    BY <1>r DEF PositionInv, Taken, Held, Distance
  <2>1. data[read_pos] = Len(got) + 1
    <3> DEFINE v == Len(got) + 1
    <3>1. v \in Stored(p)
      <4>1. v \in Nat /\ v <= sent /\ v <= begun /\ Len(got) < v
        BY <1>r, <1>b, <2>0 DEF Held
      <4> HIDE DEF v
      <4> QED
        BY <4>1 DEF Stored
    <3>2. SlotOf(v) = read_pos
      BY <1>r DEF SlotOf, Fold, Taken
    <3> QED
      BY <3>1, <3>2 DEF DataInv
  <2>2. /\ got' = Append(got, Len(got) + 1)
        /\ Len(got') = Len(got) + 1
        /\ got \in Seq(Nat)
    BY <2>1, <1>r DEF TypeOK
  <2>3. TypeOK'
    BY <1>y
  <2>4. ProducerInv(p)'
    BY DEF ProducerInv
  <2>5. PositionInv'
    <3>1. Taken' = 1 /\ Taken = 0 /\ Held' = Held - 1 /\ Held \in Int
      BY <1>r, <1>t, <2>2 DEF Taken, Held
    <3>2. Distance(read_pos, write_cache)' = Distance(read_pos, write_cache)
      BY DEF Distance
    <3>3. Distance(read_pos, write_cache) \in Int
      BY <1>r DEF Distance
    <3>4. Len(got') <= sent' /\ begun' - Len(got') <= Capacity - 1
      BY <1>r, <1>b, <2>0, <2>2 DEF Held
    <3>5. \/ write_pos' = read_pos' + Held' + Taken'
          \/ write_pos' = read_pos' + Held' + Taken' - Capacity
      BY <1>r, <3>1 DEF PositionInv
    <3>6. /\ Distance(read_pos, write_cache)' <= Held' + Taken'
          /\ Distance(read_pos, write_cache)' >= 1
      BY <1>r, <2>0, <3>1, <3>2, <3>3 DEF PositionInv
    <3> QED
      BY <3>4, <3>5, <3>6 DEF PositionInv
  <2>6. DataInv(p)'
    <3> SUFFICES ASSUME NEW v \in Stored(p)'
                 PROVE  data'[SlotOf(v)'] = v
      BY DEF DataInv
    <3>1. v \in Nat /\ v > Len(got) + 1 /\ v <= begun
      BY <1>r, <1>b, <2>2 DEF Stored
    <3>2. v \in Stored(p)
      BY <1>r, <2>2, <3>1 DEF Stored
    <3> DEFINE d == v - Len(got) - 1
    <3>3. d \in Int /\ 0 < d /\ d < Capacity
      BY <1>r, <1>b, <3>1
    <3>4. SlotOf(v) = Fold(read_pos + d) /\ SlotOf(v)' = Fold(read_pos + d)
      BY <1>r, <1>t, <2>2, <3>1 DEF SlotOf, Taken, Fold
    <3>5. Fold(read_pos + d) # read_pos /\ Fold(read_pos + d) \in Slot
      <4> HIDE DEF d
      <4> QED
        BY <1>r, <3>3 DEF Fold
    <3> QED
      BY <3>2, <3>4, <3>5 DEF DataInv, TypeOK
  <2>7. GotInOrder'
    BY <1>r, <2>2 DEF GotInOrder
  <2> QED
    BY <1>z, <2>3, <2>4, <2>5, <2>6, <2>7
<1>8. CASE PopAdvance
  <2> USE <1>8 DEF PopAdvance, pushVars
  <2>1. TypeOK'
    BY <1>y
  <2>2. ProducerInv(p)'
    BY DEF ProducerInv
  <2>3. PositionInv'
    <3>1. Taken' = 0 /\ Taken = 1 /\ Held' = Held /\ Held \in Int
      BY <1>r, <1>t DEF Taken, Held
    <3>2. Distance(read_pos, write_cache)' = Distance(read_pos, write_cache) - 1
      BY <1>r DEF PositionInv, Distance, Wrap
    <3>3. Distance(read_pos, write_cache) \in Int
      BY <1>r DEF Distance
    <3>4. \/ write_pos' = read_pos' + Held'
          \/ write_pos' = read_pos' + Held' - Capacity
      BY <1>r, <1>b, <3>1 DEF PositionInv, Wrap, Held
    <3>5. Distance(read_pos, write_cache)' <= Held' + Taken'
      BY <1>r, <3>1, <3>2, <3>3 DEF PositionInv
    <3>6. read_pos' \in Int
      BY <1>r DEF Wrap
    <3> QED
      BY <1>r, <3>1, <3>4, <3>5, <3>6 DEF PositionInv
  <2>4. DataInv(p)'
    <3> SUFFICES ASSUME NEW v \in Stored(p)'
                 PROVE  data'[SlotOf(v)'] = v
      BY DEF DataInv
    <3>1. v \in Nat /\ v > Len(got) /\ v <= begun
      BY <1>r, <1>b DEF Stored
    <3>2. v \in Stored(p)
      BY <3>1 DEF Stored
    <3> DEFINE d == v - Len(got)
    <3>3. d \in Int /\ 0 < d /\ d < Capacity
      BY <1>r, <1>b, <3>1
    <3>4. SlotOf(v) = Fold(read_pos + d) /\ SlotOf(v)' = Fold(Wrap(read_pos + 1) + (d - 1))
      BY <1>r, <1>t, <3>1 DEF SlotOf, Taken, Fold, Wrap
    <3>5. Fold(Wrap(read_pos + 1) + (d - 1)) = Fold(read_pos + d)
      <4> HIDE DEF d
      <4> QED
        BY <1>r, <3>3, FoldAdvance
    <3> QED
      BY <3>2, <3>4, <3>5 DEF DataInv
  <2> QED
    BY <1>z, <2>1, <2>2, <2>3, <2>4 DEF GotInOrder
<1>9. CASE UNCHANGED vars
  BY <1>y, <1>z, <1>9 DEF vars, sharedVars, pushVars, ProducerInv, PositionInv, DataInv, GotInOrder,
     Stored, SlotOf, Fold, Held, Taken, Distance
<1> QED
  BY <1>1, <1>2, <1>3, <1>4, <1>5, <1>6, <1>7, <1>8, <1>9 DEF Push, Pop

(* A ring once strained stays so. *)
LEMMA StrainLasts ==
    ASSUME [Next]_vars, strained
    PROVE  strained'
BY DEF Next, Push, Pop, PushBegin, PushLoad, PushCheck, PushWrite, PushPublish, PopCheck, PopTake,
   PopAdvance, vars

LEMMA CalmInit ==
    ASSUME Init
    PROVE  CalmInv
<1>1. PICK p : p \in Producer
  BY RingAssumption
<1>2. RingInv(p)
  BY <1>1, RingInit
<1> QED
  BY <1>1, <1>2 DEF CalmInv, RingInv

(* Whoever makes the step, a ring that is not strained stays consistent. *)
LEMMA CalmStep ==
    ASSUME CalmInv, [Next]_vars
    PROVE  CalmInv'
<1>1. TypeOK'
  BY TypeStep DEF CalmInv
<1> SUFFICES ASSUME ~strained'
             PROVE  \E p \in Producer : RingInv(p)'
  BY <1>1 DEF CalmInv
<1>2. ~strained
  BY StrainLasts
<1>3. PICK p \in Producer : RingInv(p)
  BY <1>2 DEF CalmInv
<1>4. CASE Push(p) \/ Pop \/ UNCHANGED vars
  BY <1>3, <1>4, RingStep
<1>5. ASSUME NEW q \in Producer, q # p, Push(q)
      PROVE  RingInv(q)'
  <2>1. ppc[q] = "idle"
    BY <1>3, <1>5 DEF RingInv, Sole
  <2>2. PushBegin(q)
    BY <1>5, <2>1 DEF Push, PushLoad, PushCheck, PushWrite, PushPublish
  <2>3. ppc[p] = "idle"
    BY <2>2 DEF PushBegin
  <2>4. RingInv(q)
    BY <1>3, <2>3, RingHandedOver
  <2> QED
    BY <1>5, <2>4, RingStep
<1> QED
  BY <1>3, <1>4, <1>5 DEF Next

(* Until two pushes overlap, or meet a ring without a slot to spare, the    *)
(* consumer receives the pushed values in order, for every capacity and     *)
(* however many threads take turns in pushing.                              *)
THEOREM RingInOrder == Spec => [](TypeOK /\ InOrder)
<1>1. Init => CalmInv
  BY CalmInit
<1>2. CalmInv /\ [Next]_vars => CalmInv'
  BY CalmStep
<1>3. CalmInv => TypeOK /\ InOrder
  BY DEF CalmInv, RingInv, GotInOrder, InOrder
<1> QED
  BY <1>1, <1>2, <1>3, PTL DEF Spec

(* Until then completed pushes and pops are the sends and receives of a     *)
(* FIFO channel.                                                            *)
THEOREM RingImplementsFifo == Spec => ImplementsFifo
<1>1. Init => CalmInv /\ Channel!Init
  BY CalmInit DEF Init, Channel!Init
<1>2. CalmInv /\ [Next]_vars => CalmInv'
  BY CalmStep
<1>3. CalmInv /\ [Next]_vars => [Channel!Next]_Channel!vars
  <2> SUFFICES ASSUME CalmInv, [Next]_vars, ~strained'
               PROVE  [Channel!Next]_Channel!vars
    BY DEF Channel!Next, Channel!Strain
  <2>s. ~strained
    BY StrainLasts
  <2> USE DEF Channel!Next, Channel!vars, Channel!Send, Channel!Receive
  <2>1. ASSUME NEW q \in Producer, Push(q)
        PROVE  [Channel!Next]_Channel!vars
    <3>1. CASE PushBegin(q)
      <4>1. strained' = strained
        BY <1>2, <2>s DEF CalmInv, TypeOK
      <4> QED
        BY <3>1, <4>1 DEF PushBegin
    <3>2. CASE PushLoad(q) \/ PushCheck(q) \/ PushWrite(q) \/ PushPublish(q)
      BY <3>2 DEF PushLoad, PushCheck, PushWrite, PushPublish
    <3> QED
      BY <2>1, <3>1, <3>2 DEF Push
  <2>2. CASE PopTake
    <3>1. PICK p \in Producer : RingInv(p)'
      BY <1>2 DEF CalmInv
    <3>2. /\ got \in Seq(0 .. MaxPush) /\ got' \in Seq(0 .. MaxPush)
          /\ sent' = sent /\ strained' = strained /\ sent \in Nat
          /\ data[read_pos] \in 0 .. MaxPush
      BY <2>2, <3>1 DEF CalmInv, RingInv, TypeOK, PopTake
    <3>3. Len(got') <= sent' /\ GotInOrder'
      BY <3>1 DEF RingInv, PositionInv
    <3>4. Len(got') = Len(got) + 1 /\ got' = Append(got, data[read_pos])
      BY <2>2, <3>2 DEF PopTake
    <3>5. got'[Len(got) + 1] = data[read_pos]
      BY <3>2, <3>4
    <3>6. got'[Len(got) + 1] = Len(got) + 1
      BY <3>2, <3>3, <3>4 DEF GotInOrder
    <3> QED
      BY <3>2, <3>3, <3>4, <3>5, <3>6
  <2>3. CASE PopCheck \/ PopAdvance \/ UNCHANGED vars
    BY <2>3 DEF PopCheck, PopAdvance, vars
  <2> QED
    BY <2>1, <2>2, <2>3 DEF Next, Pop
<1> QED
  BY <1>1, <1>2, <1>3, PTL DEF Spec, ImplementsFifo, Channel!Spec


-----------------------------------------------------------------------------
(* The ring inside the repository *)

(* Whatever the thread and the destructor do, the ring makes a step of its  *)
(* own or none.                                                             *)
LEMMA RingInside ==
    ASSUME [RepoNext]_allVars
    PROVE  [Next]_vars
BY DEF RepoNext, ProcessMessages, Enqueue, PollRing, ThreadEnds, MoveTrade, PopReturns, SaveTrade,
   SaveFreed, FreeSession, RequestStop, Join, allVars, Next, Pop

(* The repository uses its ring as RingBuffer specifies it: what is proved  *)
(* of the ring holds of the ring of trades.                                 *)
THEOREM RepoImplementsRing == RepoSpec => Spec
<1>1. RepoInit => Init
  BY DEF RepoInit
<1>2. [RepoNext]_allVars => [Next]_vars
  BY RingInside
<1> QED
  BY <1>1, <1>2, PTL DEF RepoSpec, Spec

-----------------------------------------------------------------------------
(* What the thread has done with the trades *)

(* The thread saves what it has popped, between two pops, and meets freed   *)
(* memory in save only.                                                     *)
HandInv ==
    /\ saving # NoTrade => cpc = "idle" /\ Len(got) > 0
    /\ cpc = "advance" => Len(got) > 0
    /\ thread = "undefined" => saving # NoTrade

(* It saves the last trade it has popped. *)
SavingInv == saving # NoTrade => saving = Len(got)

(* A trade whose INSERT failed is settled, and so is the trade of a row,    *)
(* which did not fail.                                                      *)
SettledInv ==
    /\ \A n \in failed : Settled(n)
    /\ \A k \in 0 .. Day - 1 : table[k] # Null => Settled(table[k]) /\ table[k] \notin failed

(* Every settled trade whose INSERT was applied is in the row of its key,   *)
(* or a later one is.                                                       *)
RowInv ==
    \A n \in Trade : Settled(n) /\ n \notin failed => table[KeyOf(n)] >= n

(* A row is under the key of its trade. *)
KeyInv == \A k \in 0 .. Day - 1 : table[k] # Null => KeyOf(table[k]) = k

(* The first line holds in any case, the second until the ring is strained. *)
RepoInv ==
    /\ CalmInv /\ RepoTypeOK /\ HandInv /\ KeyInv
    /\ ~strained => SavingInv /\ SettledInv /\ RowInv

(* A key is a second of the day. *)
LEMMA KeyType ==
    ASSUME NEW n \in Nat
    PROVE  KeyOf(n) \in 0 .. Day - 1
<1>1. n \div PerSecond \in Nat
  BY TradeAssumption
<1> DEFINE t == n \div PerSecond
<1>2. ASSUME NEW u \in Nat PROVE u % Day \in 0 .. Day - 1
  BY TradeAssumption
<1>3. t % Day \in 0 .. Day - 1
  BY <1>1, <1>2
<1> QED
  BY <1>3 DEF KeyOf, TimeOfDay

(* What has been popped is a trade or an empty slot; until the ring is      *)
(* strained it is the trade whose turn it is.                               *)
LEMMA PoppedAreTrades ==
    ASSUME CalmInv
    PROVE  /\ Len(got) \in Nat
           /\ Len(got) > 0 => got[Len(got)] \in Trade \cup {Null}
           /\ ~strained => Len(got) <= MaxPush
           /\ ~strained /\ Len(got) > 0 => got[Len(got)] = Len(got)
<1>1. got \in Seq(0 .. MaxPush) /\ Len(got) \in Nat /\ begun \in 0 .. MaxPush /\ sent \in Nat
  BY DEF CalmInv, TypeOK
<1>2. Len(got) > 0 => got[Len(got)] \in 0 .. MaxPush
  <2>1. ASSUME NEW S, NEW s \in Seq(S), Len(s) > 0 PROVE s[Len(s)] \in S
    BY <2>1
  <2> QED
    BY <1>1, <2>1
<1>3. ASSUME ~strained
      PROVE  Len(got) <= MaxPush /\ (Len(got) > 0 => got[Len(got)] = Len(got))
  <2>1. PICK p \in Producer : RingInv(p)
    BY <1>3 DEF CalmInv
  <2>2. Len(got) <= sent /\ sent <= begun
    BY <1>1, <2>1 DEF RingInv, PositionInv, ProducerInv
  <2>3. \A i \in DOMAIN got : got[i] = i
    BY <2>1 DEF RingInv, GotInOrder
  <2> QED
    BY <1>1, <2>2, <2>3, RingAssumption
<1> QED
  BY <1>1, <1>2, <1>3, RingAssumption DEF Trade, Null

(* Initially nothing has been traded. *)
LEMMA RepoInitInv ==
    ASSUME RepoInit
    PROVE  RepoInv
<1>1. CalmInv /\ TypeOK
  BY CalmInit DEF RepoInit, CalmInv
<1>2. Len(got) = 0
  BY DEF RepoInit, Init
<1> QED
  BY <1>1, <1>2, RingAssumption, TradeAssumption DEF RepoInv, RepoInit, Init, RepoTypeOK, HandInv,
     SavingInv, SettledInv, RowInv, KeyInv, Settled, Trade, Null, NoTrade

(* Steps that pop nothing and save nothing leave the trades as they are. *)
LEMMA NothingSettled ==
    ASSUME RepoInv, CalmInv', strained => strained',
           UNCHANGED <<saving, table, failed, got>>,
           cpc' = cpc \/ (AtHead /\ cpc' = "take"),
           phase' \in {"up", "freed", "stopping", "joined"},
           thread' \in {"running", "ended", "undefined"},
           thread' = "undefined" => thread = "undefined" \/ saving # NoTrade
    PROVE  RepoInv'
<1> USE DEF RepoInv
<1>1. TypeOK'
  BY DEF CalmInv
<1>2. RepoTypeOK'
  BY <1>1 DEF RepoTypeOK
<1>3. HandInv' /\ (SavingInv => SavingInv')
  BY DEF HandInv, SavingInv, AtHead
<1>4. \A n : Settled(n)' <=> Settled(n)
  BY DEF Settled, AtHead
<1>5. KeyInv' /\ (SettledInv => SettledInv') /\ (RowInv => RowInv')
  BY <1>4 DEF SettledInv, RowInv, KeyInv
<1> QED
  BY <1>2, <1>3, <1>5

(* Every step of a producer, of the thread and of the destructor keeps the  *)
(* table right.                                                             *)
LEMMA RepoStep ==
    ASSUME RepoInv, [RepoNext]_allVars
    PROVE  RepoInv'
<1>r. CalmInv' /\ (strained => strained')
  BY RingInside, CalmStep, StrainLasts DEF RepoInv
<1>t. RepoTypeOK /\ TypeOK /\ TypeOK'
  BY <1>r DEF RepoInv, CalmInv
<1>g. /\ Len(got) \in Nat
      /\ Len(got) > 0 => got[Len(got)] \in Trade \cup {Null}
      /\ ~strained => Len(got) <= MaxPush
      /\ ~strained /\ Len(got) > 0 => got[Len(got)] = Len(got)
  BY PoppedAreTrades DEF RepoInv
<1>1. ASSUME NEW q \in Producer, Enqueue(q)
      PROVE  RepoInv'
  <2>1. UNCHANGED <<saving, table, failed, phase, thread>> /\ Push(q)
    BY <1>1 DEF Enqueue, repoVars
  <2>2. UNCHANGED <<got, cpc>>
    BY <2>1 DEF Push, PushBegin, PushLoad, PushCheck, PushWrite, PushPublish
  <2> QED
    BY <1>r, <1>t, <2>1, <2>2, NothingSettled DEF RepoTypeOK
<1>2. CASE PollRing
  <2>1. UNCHANGED <<saving, table, failed, phase, thread, got>> /\ AtHead
    BY <1>2 DEF PollRing, PopCheck, repoVars
  <2>2. cpc' = cpc \/ cpc' = "take"
    BY <1>2 DEF PollRing, PopCheck
  <2> QED
    BY <1>r, <1>t, <2>1, <2>2, NothingSettled DEF RepoTypeOK
<1>3. CASE ThreadEnds \/ SaveFreed \/ FreeSession \/ RequestStop \/ Join \/ UNCHANGED allVars
  <2>1. /\ UNCHANGED <<saving, table, failed, got, cpc>>
        /\ phase' \in {"up", "freed", "stopping", "joined"}
        /\ thread' \in {"running", "ended", "undefined"}
        /\ thread' = "undefined" => thread = "undefined" \/ saving # NoTrade
    BY <1>3, <1>t DEF ThreadEnds, SaveFreed, FreeSession, RequestStop, Join, allVars, repoVars, vars,
       RepoTypeOK
  <2> QED
    BY <1>r, <2>1, NothingSettled
<1>4. CASE MoveTrade
  <2>1. /\ cpc = "take" /\ cpc' = "advance" /\ UNCHANGED <<saving, table, failed, phase, thread>>
        /\ got' = Append(got, data[read_pos])
    BY <1>4 DEF MoveTrade, PopTake, repoVars
  <2>2. Len(got') = Len(got) + 1
    BY <2>1, <1>t DEF TypeOK
  <2>3. saving = NoTrade
    BY <2>1 DEF RepoInv, HandInv
  <2>4. \A n : Settled(n)' <=> Settled(n)
    BY <1>g, <2>1, <2>2, <2>3 DEF Settled, NoTrade
  <2>5. RepoTypeOK' /\ HandInv' /\ KeyInv' /\ SavingInv'
    BY <1>t, <1>g, <2>1, <2>2, <2>3 DEF RepoInv, RepoTypeOK, HandInv, KeyInv, SavingInv
  <2>6. (SettledInv => SettledInv') /\ (RowInv => RowInv')
    BY <2>1, <2>4 DEF SettledInv, RowInv
  <2> QED
    BY <1>r, <2>5, <2>6 DEF RepoInv
<1>5. CASE PopReturns
  <2>1. /\ cpc = "advance" /\ cpc' = "idle" /\ UNCHANGED <<table, failed, phase, thread, got>>
        /\ saving' = got[Len(got)]
    BY <1>5 DEF PopReturns, PopAdvance
  <2>2. saving = NoTrade /\ Len(got) > 0
    BY <2>1 DEF RepoInv, HandInv
  <2>3. saving' \in Trade \cup {Null} /\ saving' # NoTrade
    BY <1>g, <2>1, <2>2, RingAssumption DEF Trade, Null, NoTrade
  <2>4. ~strained => \A n : Settled(n)' <=> Settled(n)
    BY <1>g, <2>1, <2>2 DEF Settled, NoTrade
  <2>5. RepoTypeOK' /\ HandInv' /\ KeyInv'
    BY <1>t, <2>1, <2>2, <2>3 DEF RepoInv, RepoTypeOK, HandInv, KeyInv
  <2>6. ~strained => SavingInv' /\ (SettledInv => SettledInv') /\ (RowInv => RowInv')
    BY <1>g, <2>1, <2>2, <2>4 DEF SavingInv, SettledInv, RowInv
  <2> QED
    BY <1>r, <2>5, <2>6 DEF RepoInv
<1>6. CASE SaveTrade
  <2>1. /\ saving # NoTrade /\ saving' = NoTrade /\ UNCHANGED <<phase, thread, got, cpc, strained>>
        /\ cpc = "idle" /\ saving \in Trade \cup {Null} /\ thread = "running" /\ Len(got) > 0
    BY <1>6, <1>t DEF SaveTrade, vars, RepoInv, HandInv, RepoTypeOK
  <2>2. \A n \in Trade : KeyOf(n) \in 0 .. Day - 1
    BY KeyType DEF Trade
  <2>3. /\ DOMAIN table = 0 .. Day - 1
        /\ \/ /\ table' = [k \in 0 .. Day - 1 |->
                    IF k = KeyOf(saving) /\ saving # Null THEN saving ELSE table[k]]
              /\ UNCHANGED failed
           \/ failed' = failed \cup ({saving} \ {Null}) /\ UNCHANGED table
    BY <1>6, <1>t DEF SaveTrade, RepoTypeOK
  <2>4. RepoTypeOK' /\ HandInv'
    BY <1>t, <2>1, <2>3 DEF RepoTypeOK, HandInv
  <2>5. KeyInv'
    BY <2>1, <2>3 DEF RepoInv, KeyInv
  <2>6. ASSUME ~strained
        PROVE  SavingInv' /\ SettledInv' /\ RowInv'
    <3>1. saving = Len(got) /\ saving \in Trade /\ saving # Null
      BY <1>g, <2>1, <2>6 DEF RepoInv, SavingInv, Null
    <3>2. ASSUME NEW n PROVE Settled(n)' <=> Settled(n) \/ n = saving
      BY <1>g, <2>1, <3>1 DEF Settled, NoTrade, Trade
    <3>3. ~Settled(saving)
      BY DEF Settled
    <3>4. SettledInv /\ RowInv
      BY <2>6 DEF RepoInv
    <3>5. SavingInv'
      BY <2>1 DEF SavingInv
    <3>6. CASE table' = [k \in 0 .. Day - 1 |->
                    IF k = KeyOf(saving) /\ saving # Null THEN saving ELSE table[k]] /\ UNCHANGED failed
      <4>1. SettledInv'
        BY <1>t, <2>2, <3>1, <3>2, <3>3, <3>4, <3>6 DEF SettledInv, RepoTypeOK
      <4>2. RowInv'
        BY <1>t, <1>g, <2>1, <2>2, <3>1, <3>2, <3>4, <3>6 DEF RowInv, RepoTypeOK, Settled, Trade
      <4> QED
        BY <3>5, <4>1, <4>2
    <3>7. CASE failed' = failed \cup ({saving} \ {Null}) /\ UNCHANGED table
      BY <1>t, <3>1, <3>2, <3>3, <3>4, <3>5, <3>7 DEF SettledInv, RowInv, RepoTypeOK
    <3> QED
      BY <2>3, <3>6, <3>7
  <2> QED
    BY <1>r, <2>4, <2>5, <2>6 DEF RepoInv
<1> QED
  BY <1>1, <1>2, <1>3, <1>4, <1>5, <1>6 DEF RepoNext, ProcessMessages

-----------------------------------------------------------------------------
(* The theorems *)

(* However many workers trade: a saved trade is found under its time,       *)
(* unless its INSERT failed, a later trade of the same two users replaced   *)
(* it, or pushes have overlapped or met a full ring.  How many trades there *)
(* are, how fast they are made and how long the day is does not matter.     *)
THEOREM RepoRowIsLatest == RepoSpec => [](RepoTypeOK /\ RowIsLatest)
<1>1. RepoInit => RepoInv
  BY RepoInitInv
<1>2. RepoInv /\ [RepoNext]_allVars => RepoInv'
  BY RepoStep
<1>3. RepoInv => RepoTypeOK /\ RowIsLatest
  <2> SUFFICES ASSUME RepoInv
               PROVE  RepoTypeOK /\ RowIsLatest
    OBVIOUS
  <2>1. RepoTypeOK /\ DOMAIN table = 0 .. Day - 1
    BY DEF RepoInv, RepoTypeOK
  <2>2. ASSUME ~strained, NEW n \in Trade, Settled(n), n \notin failed
        PROVE  table[KeyOf(n)] >= n /\ table[KeyOf(n)] \notin failed
    <3>1. table[KeyOf(n)] >= n /\ KeyOf(n) \in 0 .. Day - 1
      BY <2>2, KeyType DEF RepoInv, RowInv, Trade
    <3>2. table[KeyOf(n)] # Null
      BY <3>1 DEF Null, Trade
    <3> QED
      BY <2>2, <3>1, <3>2 DEF RepoInv, SettledInv
  <2> QED
    BY <2>1, <2>2, Zenon DEF RepoInv, KeyInv, RowIsLatest, GetTradeByPrimaryKey, KeyOf
<1> QED
  BY <1>1, <1>2, <1>3, PTL DEF RepoSpec

(* Nothing is left to save and nothing can come. *)
DrainedInv == phase # "up" /\ Drained /\ thread # "undefined"

(* A ring that was drained before the session went stays empty, and the     *)
(* thread polls it until it is told to stop.                                *)
LEMMA DrainedStep ==
    ASSUME DrainedInv, [RepoNext]_allVars
    PROVE  DrainedInv'
<1> USE DEF DrainedInv, Drained
<1>1. CASE PollRing
  BY <1>1 DEF PollRing, PopCheck, repoVars
<1>2. CASE ThreadEnds \/ FreeSession \/ RequestStop \/ Join \/ UNCHANGED allVars
  BY <1>2 DEF ThreadEnds, FreeSession, RequestStop, Join, allVars, repoVars, vars, sharedVars
<1>3. ~ \E q \in Producer : Enqueue(q)
  BY DEF Enqueue
<1>4. ~ (MoveTrade \/ PopReturns \/ SaveTrade \/ SaveFreed)
  BY DEF MoveTrade, PopTake, PopReturns, PopAdvance, SaveTrade, SaveFreed
<1> QED
  BY <1>1, <1>2, <1>3, <1>4 DEF RepoNext, ProcessMessages

(* The session is freed under the running thread, but when the thread has   *)
(* found the ring empty by then it never uses what was freed, however many  *)
(* workers have pushed, and whatever has happened in the ring before.       *)
THEOREM RepoDrainedIsSafe == RepoSpec => DrainedIsSafe
<1>1. RepoInit => RepoInv
  BY RepoInitInv
<1>2. RepoInv /\ [RepoNext]_allVars => RepoInv'
  BY RepoStep
<1>3. RepoInv /\ phase = "freed" /\ Drained => DrainedInv
  BY DEF RepoInv, HandInv, DrainedInv, Drained
<1>4. DrainedInv /\ [RepoNext]_allVars => DrainedInv'
  BY DrainedStep
<1>5. DrainedInv => thread # "undefined"
  BY DEF DrainedInv
<1> QED
  BY <1>1, <1>2, <1>3, <1>4, <1>5, PTL DEF RepoSpec, DrainedIsSafe

(* Trades pass from the books to the thread in order, as through a FIFO     *)
(* channel, whatever the destructor does meanwhile, until two workers push  *)
(* at once or the ring is full; nothing in the code keeps them from either. *)
THEOREM RepoChannel == RepoSpec => ImplementsFifo /\ []InOrder
<1>1. RepoSpec => Spec
  BY RepoImplementsRing
<1>2. Spec => ImplementsFifo
  BY RingImplementsFifo
<1>3. Spec => [](TypeOK /\ InOrder)
  BY RingInOrder
<1> QED
  BY <1>1, <1>2, <1>3, PTL
=============================================================================
