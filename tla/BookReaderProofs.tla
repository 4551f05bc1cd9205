-------------------------- MODULE BookReaderProofs --------------------------
(***************************************************************************)
(* Proofs about BookReader: what a server thread reads of a book that its  *)
(* worker goes on changing, for every set of prices and requests and any   *)
(* number of orders, changes of side and negative quantities included.     *)
(***************************************************************************)
EXTENDS BookReader, OrderBookProofs

-----------------------------------------------------------------------------
(* Sets of levels *)

Bounded(S) == \E b \in Nat : \A p \in S : -b <= p /\ p <= b

(* A bounded set of integers that is not empty has a least and a greatest   *)
(* element: shifted by the bound it is a set of natural numbers.            *)
LEMMA ExtremeElements ==
    ASSUME NEW S, S \subseteq Int, S # {}, Bounded(S)
    PROVE  /\ \E x \in S : \A y \in S : x <= y
           /\ \E x \in S : \A y \in S : y <= x
<1>1. PICK b \in Nat : \A p \in S : -b <= p /\ p <= b
  BY DEF Bounded
<1> DEFINE Up   == {p + b : p \in S}
           Down == {b - p : p \in S}
<1>2. Up \subseteq Nat /\ Up # {} /\ Down \subseteq Nat /\ Down # {}
  <2>1. ASSUME NEW p \in S
        PROVE  p + b \in Nat /\ b - p \in Nat
    <3>1. p \in Int /\ -b <= p /\ p <= b
      BY <1>1
    <3> QED
      BY <3>1
  <2>2. PICK q \in S : TRUE
    OBVIOUS
  <2>3. q + b \in Up /\ b - q \in Down
    BY <2>2
  <2> QED
    BY <2>1, <2>3
<1>3. PICK u \in Up : \A v \in Up : u <= v
  <2> HIDE DEF Up
  <2> QED
    BY <1>2, LeastElement
<1>4. PICK d \in Down : \A v \in Down : d <= v
  <2> HIDE DEF Down
  <2> QED
    BY <1>2, LeastElement
<1>5. PICK x \in S : u = x + b
  BY <1>3
<1>6. PICK z \in S : d = b - z
  BY <1>4
<1>7. ASSUME NEW y \in S
      PROVE  x <= y /\ y <= z
  <2>1. y + b \in Up /\ b - y \in Down
    OBVIOUS
  <2>2. x + b <= y + b /\ b - z <= b - y
    BY <1>3, <1>4, <1>5, <1>6, <2>1
  <2>3. x \in Int /\ y \in Int /\ z \in Int
    OBVIOUS
  <2> QED
    BY <2>2, <2>3
<1> QED
  BY <1>7

(* The level an iterator stands on first is there, and every other one is   *)
(* behind it.                                                               *)
LEMMA LeadingFirst ==
    ASSUME NEW s \in Side, NEW S, S \subseteq Price, S # {}, Bounded(S)
    PROVE  First(s, S, Leading(s, S)) /\ Leading(s, S) \in S
<1>1. S \subseteq Int
  BY BookAssumption
<1>2. \E p \in S : First(s, S, p)
  <2>1. CASE s = "BUY"
    <3>1. PICK x \in S : \A y \in S : y <= x
      BY <1>1, ExtremeElements
    <3> QED
      BY <1>1, <2>1, <3>1 DEF First, Before
  <2>2. CASE s = "SELL"
    <3>1. PICK x \in S : \A y \in S : x <= y
      BY <1>1, ExtremeElements
    <3> QED
      BY <1>1, <2>2, <3>1 DEF First, Before
  <2> QED
    BY <2>1, <2>2 DEF Side
<1> QED
  BY <1>2 DEF Leading, First

(* The best ask and, of the bid tree, the last bid. *)
LEMMA MinLevel ==
    ASSUME NEW S, S \subseteq Price, S # {}, Bounded(S)
    PROVE  Min(S) \in S /\ \A p \in S : Min(S) <= p
<1>1. \E x \in S : \A y \in S : x <= y
  BY BookAssumption, ExtremeElements
<1> QED
  BY <1>1 DEF Min

(* LimitComparator is a strict order. *)
LEMMA BeforeOrder ==
    ASSUME NEW s \in Side, NEW p \in Price, NEW q \in Price, NEW r \in Price
    PROVE  /\ ~Before(s, p, p)
           /\ Before(s, p, q) /\ Before(s, q, r) => Before(s, p, r)
<1>1. p \in Int /\ q \in Int /\ r \in Int
  BY BookAssumption
<1> QED
  BY <1>1 DEF Before

(* No step of the worker takes a level out of a tree, and one step adds one *)
(* level at most.                                                           *)
LEMMA LevelsGrow ==
    ASSUME ShapeInv, [Next]_vars, NEW s \in Side
    PROVE  /\ Levels(s) \subseteq Levels(s)'
           /\ Levels(s)' = Levels(s) \/ \E p \in Price : Levels(s)' = Levels(s) \cup {p}
<1> USE DEF ShapeInv
<1>1. Levels(s) \subseteq Levels(s)'
  BY LevelsStay
<1>2. ASSUME NEW n, NEW t \in Side, NEW q, NEW l \in Limit, NEW qu, NEW vo, AddLimitOrder(n, t, q, l, qu, vo)
      PROVE  Levels(s)' = Levels(s) \/ \E p \in Price : Levels(s)' = Levels(s) \cup {p}
  <2>1. PICK p \in Price : p = l[2]
    BY DEF Limit
  <2>2. PICK h \in Limit : h = Home(t, l)
    BY <2>1 DEF Home, TypeOK
  <2>3. tree' = [tree EXCEPT ![t][p] = h]
    BY <1>2, <2>1, <2>2 DEF AddLimitOrder
  <2>4. tree \in [Side -> [Price -> Limit \cup {NoLimit}]] /\ NoLimit # h
    BY BookAssumption DEF TypeOK
  <2>5. \A x \in Price : tree'[s][x] = IF s = t /\ x = p THEN h ELSE tree[s][x]
    BY <2>3, <2>4
  <2>6. CASE s = t
    <3>1. Levels(s)' = Levels(s) \cup {p}
      BY <2>4, <2>5, <2>6 DEF Levels
    <3> QED
      BY <3>1
  <2>7. CASE s # t
    <3>1. Levels(s)' = Levels(s)
      BY <2>5, <2>7 DEF Levels
    <3> QED
      BY <3>1
  <2> QED
    BY <2>6, <2>7
<1>3. CASE RestOrder
  <2>1. taker \in Created
    BY <1>3, TodoHeld DEF RestOrder, NoMatch
  <2>2. TakerSide \in Side /\ <<TakerSide, order[taker].price>> \in Limit
    BY <2>1, CreatedFacts DEF TakerSide, Limit
  <2> QED
    BY <1>1, <1>2, <1>3, <2>2 DEF RestOrder
<1>4. ASSUME NEW id \in Ref, NEW req \in Request, ModifyOrder(id, req)
      PROVE  Levels(s)' = Levels(s) \/ \E p \in Price : Levels(s)' = Levels(s) \cup {p}
  <2>1. parent[index[id]] \in Limit /\ req.side \in Side
    BY <1>4, HeldFacts, BookAssumption DEF ModifyOrder, OrderRequest
  <2>2. CASE UNCHANGED tree
    BY <2>2 DEF Levels
  <2> QED
    BY <1>2, <1>4, <2>1, <2>2 DEF ModifyOrder, bookVars
<1>5. CASE ~RestOrder /\ ~ \E id \in Ref, req \in Request : ModifyOrder(id, req)
  <2>1. tree' = tree
    BY <1>5 DEF Next, Submit, Match, Expire, Tick, AddStopOrder, AddOrder, CancelOrder,
       ModifyNotFound, CheckDateOrders, MatchSkip, MatchEnter, KillOrder, ResolveOrders, LeaveLevel,
       ExpireOrder, ExpireDone, vars, bookVars
  <2> QED
    BY <2>1 DEF Levels
<1> QED
  BY <1>1, <1>3, <1>4, <1>5

-----------------------------------------------------------------------------
(* The invariant of a walk *)

(* The iterator stands on a level of the tree. *)
AliveInv ==
    /\ rpc \in {"read", "step"} /\ at # NoLimit => at \in Levels(side)
    /\ rpc = "step" => at # NoLimit

(* The sides are walked one after the other. *)
TurnInv ==
    /\ rpc = "idle" => side = "SELL" /\ limits["SELL"] = << >>
    /\ rpc = "done" => side = "BUY"
    /\ side = "SELL" => limits["BUY"] = << >>

(* What was read, and what was there, is there. *)
ListedInv ==
    \A s \in Side :
        /\ Bounded(Levels(s))
        /\ start[s] \subseteq Levels(s)
        /\ \A i \in DOMAIN limits[s] : limits[s][i].price \in Levels(s)

Sorted(s) ==
    \A i, j \in DOMAIN limits[s] : i < j => Before(s, limits[s][i].price, limits[s][j].price)

(* The iterator is ahead of what has been listed. *)
AheadInv ==
    \A i \in DOMAIN limits[side] :
        /\ rpc = "read" /\ at # NoLimit => Before(side, limits[side][i].price, at)
        /\ rpc = "step" => limits[side][i].price = at \/ Before(side, limits[side][i].price, at)

(* What was there and has not been listed is still to come. *)
ToCome(p) ==
    /\ at # NoLimit
    /\ (rpc = "read" /\ p = at) \/ Before(side, at, p)

CoverInv ==
    /\ rpc \in {"read", "step"} => \A p \in start[side] : p \in Prices(side) \/ ToCome(p)
    /\ rpc \in {"read", "step"} /\ side = "BUY" => start["SELL"] \subseteq Prices("SELL")
    /\ rpc = "done" => \A s \in Side : start[s] \subseteq Prices(s)

FaithInv == ~torn => (\A s \in Side : Sorted(s)) /\ AheadInv /\ CoverInv

ReaderInv ==
    /\ ShapeInv /\ ReaderTypeOK
    /\ AliveInv /\ TurnInv /\ ListedInv /\ FaithInv /\ BestAskAgrees

(* The worker cannot disturb what the reader knows. *)
LEMMA WorkerStepKeeps ==
    ASSUME ReaderInv, [Next]_vars,
           UNCHANGED <<rpc, side, at, torn, limits, start, spread>>, raced' \in BOOLEAN
    PROVE  ReaderInv'
<1> USE DEF ReaderInv
<1>1. ShapeInv'
  BY ShapeStep
<1>2. ReaderTypeOK'
  BY <1>1 DEF ShapeInv, ReaderTypeOK
<1>3. ASSUME NEW s \in Side
      PROVE  Levels(s) \subseteq Levels(s)' /\ Bounded(Levels(s))'
  <2>1. Levels(s) \subseteq Levels(s)' /\ Bounded(Levels(s))
    BY LevelsGrow DEF ListedInv
  <2>2. CASE Levels(s)' = Levels(s)
    BY <2>1, <2>2 DEF Bounded
  <2>3. CASE \E p \in Price : Levels(s)' = Levels(s) \cup {p}
    <3>1. PICK p \in Price : Levels(s)' = Levels(s) \cup {p}
      BY <2>3
    <3>2. p \in Int /\ Levels(s) \subseteq Int
      BY BookAssumption DEF Levels
    <3>3. PICK b \in Nat : \A q \in Levels(s) : -b <= q /\ q <= b
      BY <2>1 DEF Bounded
    <3>4. PICK c \in Nat : b <= c /\ -c <= p /\ p <= c
      <4>1. CASE p >= 0
        <5>1. b + p \in Nat /\ b <= b + p /\ -(b + p) <= p /\ p <= b + p
          BY <3>2, <4>1
        <5> QED
          BY <5>1
      <4>2. CASE p < 0
        <5>1. b - p \in Nat /\ b <= b - p /\ -(b - p) <= p /\ p <= b - p
          BY <3>2, <4>2
        <5> QED
          BY <5>1
      <4> QED
        BY <3>2, <4>1, <4>2
    <3>5. \A q \in Levels(s)' : -c <= q /\ q <= c
      BY <3>1, <3>2, <3>3, <3>4
    <3> QED
      BY <2>1, <3>5 DEF Bounded
  <2> QED
    BY <2>1, <2>2, <2>3, LevelsGrow
<1>4. AliveInv'
  BY <1>3 DEF AliveInv, ReaderTypeOK
<1>5. TurnInv'
  BY DEF TurnInv
<1>6. ListedInv'
  BY <1>3 DEF ListedInv
<1>7. FaithInv'
  BY DEF FaithInv, Sorted, AheadInv, CoverInv, ToCome, Prices
<1>8. BestAskAgrees'
  BY <1>3 DEF BestAskAgrees, SnapshotJson, Side
<1> QED
  BY <1>1, <1>2, <1>4, <1>5, <1>6, <1>7, <1>8

(* A step of the reader leaves the book and the levels as they are. *)
LEMMA BookStays ==
    ASSUME ShapeInv, UNCHANGED vars
    PROVE  ShapeInv' /\ \A s \in Side : Levels(s)' = Levels(s)
<1>1. ShapeInv'
  BY ShapeStep
<1>2. tree' = tree
  BY DEF vars, bookVars
<1> QED
  BY <1>1, <1>2 DEF Levels

(* begin(): the iterator stands in front of all that is there. *)
LEMMA BeginStep ==
    ASSUME ReaderInv, NEW s \in Side, Begin(s),
           UNCHANGED <<vars, raced, torn, limits, spread>>, side = "SELL", limits[s] = << >>,
           \/ s = "SELL"
           \/ s = "BUY" /\ (~torn => start["SELL"] \subseteq Prices("SELL"))
    PROVE  ReaderInv'
<1> USE DEF ReaderInv
<1>1. ShapeInv' /\ \A t \in Side : Levels(t)' = Levels(t)
  BY BookStays
<1>2. /\ rpc' = "read" /\ side' = s /\ limits' = limits /\ torn' = torn
      /\ start' = [start EXCEPT ![s] = Levels(s)] /\ at' = Leading(s, Levels(s))
  BY DEF Begin
<1>3. Levels(s) \subseteq Price /\ Bounded(Levels(s))
  BY DEF Levels, ListedInv
<1>4. \/ at' = NoLimit /\ Levels(s) = {}
      \/ First(s, Levels(s), at') /\ at' \in Levels(s)
  BY <1>2, <1>3, LeadingFirst DEF Leading
<1>5. /\ start' \in [Side -> SUBSET Price] /\ start'[s] = Levels(s)
      /\ \A t \in Side : t # s => start'[t] = start[t]
  BY <1>2, <1>3 DEF ReaderTypeOK
<1>6. ReaderTypeOK'
  BY <1>1, <1>2, <1>3, <1>4, <1>5 DEF ReaderTypeOK, ShapeInv
<1>7. AliveInv'
  BY <1>1, <1>2, <1>4 DEF AliveInv
<1>8. TurnInv'
  BY <1>2 DEF TurnInv, Side
<1>9. ListedInv'
  BY <1>1, <1>2, <1>5 DEF ListedInv
<1>10. FaithInv'
  <2> SUFFICES ASSUME ~torn
               PROVE  (\A t \in Side : Sorted(t)') /\ AheadInv' /\ CoverInv'
    BY <1>2 DEF FaithInv
  <2>1. \A t \in Side : Sorted(t)'
    BY <1>2 DEF FaithInv, Sorted
  <2>2. AheadInv'
    BY <1>2 DEF AheadInv
  <2>3. \A p \in start'[s] : ToCome(p)'
    BY <1>2, <1>3, <1>4, <1>5, ReaderAssumption DEF ToCome, First
  <2>4. s = "BUY" => start'["SELL"] \subseteq Prices("SELL")'
    BY <1>2, <1>5 DEF Prices, Side
  <2> QED
    BY <1>2, <2>1, <2>2, <2>3, <2>4 DEF CoverInv
<1>11. BestAskAgrees'
  BY <1>2 DEF BestAskAgrees
<1> QED
  BY <1>1, <1>6, <1>7, <1>8, <1>9, <1>10, <1>11

(* A level is listed: it is behind those that were listed before. *)
LEMMA ReadLevelStep ==
    ASSUME ReaderInv, ReadLevel
    PROVE  ReaderInv'
<1> USE DEF ReaderInv
<1>1. ShapeInv' /\ \A t \in Side : Levels(t)' = Levels(t)
  BY BookStays DEF ReadLevel
<1>2. /\ rpc = "read" /\ rpc' = "step" /\ at # NoLimit
      /\ UNCHANGED <<side, at, raced, torn, start, spread>>
  BY DEF ReadLevel
<1>3. PICK s \in Side : s = side
  BY DEF ReaderTypeOK
<1>4. at \in Levels(s) /\ at \in Price
  BY <1>2, <1>3 DEF AliveInv, Levels
<1>5. PICK e \in [price: Price, qty: Int] :
          limits' = [limits EXCEPT ![s] = Append(limits[s], e)] /\ e.price = at
  <2>1. tree[s][at] \in Limit
    BY <1>4 DEF ShapeInv, TypeOK, Levels
  <2>2. volume[tree[s][at]] \in Int
    BY <2>1 DEF ShapeInv, TypeOK
  <2> DEFINE e == [price |-> at, qty |-> volume[tree[s][at]]]
  <2>3. e \in [price: Price, qty: Int] /\ e.price = at
    BY <1>4, <2>2
  <2>4. limits' = [limits EXCEPT ![s] = Append(limits[s], e)]
    BY <1>3 DEF ReadLevel
  <2> HIDE DEF e
  <2> QED
    BY <2>3, <2>4
<1>6. limits \in [Side -> Seq([price: Price, qty: Int])]
  BY DEF ReaderTypeOK
<1>7. PICK k \in Nat : k = Len(limits[s])
  BY <1>6
<1>8. /\ limits' \in [Side -> Seq([price: Price, qty: Int])]
      /\ \A t \in Side : t # s => limits'[t] = limits[t]
      /\ limits'[s] = Append(limits[s], e)
  <2> DEFINE E == [price: Price, qty: Int]
  <2>1. limits \in [Side -> Seq(E)] /\ e \in E
    BY <1>5, <1>6
  <2> HIDE DEF E
  <2>2. Append(limits[s], e) \in Seq(E)
    BY <2>1
  <2>3. limits' \in [Side -> Seq(E)]
    BY <1>5, <2>1, <2>2
  <2>4. /\ \A t \in Side : t # s => limits'[t] = limits[t]
        /\ limits'[s] = Append(limits[s], e)
    BY <1>5, <2>1
  <2> QED
    BY <2>3, <2>4 DEF E
<1>9. /\ DOMAIN limits[s] = 1 .. k /\ DOMAIN limits'[s] = 1 .. k + 1
      /\ limits'[s][k + 1] = e
      /\ \A i \in 1 .. k : limits'[s][i] = limits[s][i]
  BY <1>6, <1>7, <1>8
<1>10. ReaderTypeOK'
  BY <1>1, <1>2, <1>8 DEF ReaderTypeOK, ShapeInv
<1>11. AliveInv'
  BY <1>1, <1>2, <1>3, <1>4 DEF AliveInv
<1>12. TurnInv'
  BY <1>2, <1>3, <1>8 DEF TurnInv, Side
<1>13. ListedInv'
  <2> SUFFICES ASSUME NEW t \in Side
               PROVE  \A i \in DOMAIN limits'[t] : limits'[t][i].price \in Levels(t)
    BY <1>1, <1>2 DEF ListedInv
  <2>1. CASE t = s
    BY <1>4, <1>5, <1>7, <1>9, <2>1 DEF ListedInv
  <2>2. CASE t # s
    BY <1>8, <2>2 DEF ListedInv
  <2> QED
    BY <2>1, <2>2
<1>14. FaithInv'
  <2> SUFFICES ASSUME ~torn
               PROVE  (\A t \in Side : Sorted(t)') /\ AheadInv' /\ CoverInv'
    BY <1>2 DEF FaithInv
  <2>1. \A i \in 1 .. k : Before(s, limits[s][i].price, at)
    BY <1>2, <1>3, <1>9 DEF FaithInv, AheadInv
  <2>2. Sorted(s)'
    <3> SUFFICES ASSUME NEW i \in 1 .. k + 1, NEW j \in 1 .. k + 1, i < j
                 PROVE  Before(s, limits'[s][i].price, limits'[s][j].price)
      BY <1>9 DEF Sorted
    <3>1. i \in 1 .. k
      BY <1>7
    <3>2. CASE j = k + 1
      BY <1>5, <1>9, <2>1, <3>1, <3>2
    <3>3. CASE j # k + 1
      <4>1. j \in 1 .. k
        BY <1>7, <3>3
      <4> QED
        BY <1>9, <3>1, <4>1 DEF FaithInv, Sorted
    <3> QED
      BY <3>2, <3>3
  <2>3. \A t \in Side : Sorted(t)'
    BY <1>8, <2>2 DEF FaithInv, Sorted
  <2>4. AheadInv'
    <3> SUFFICES ASSUME NEW i \in 1 .. k + 1
                 PROVE  limits'[s][i].price = at \/ Before(s, limits'[s][i].price, at)
      BY <1>2, <1>3, <1>9 DEF AheadInv
    <3> QED
      BY <1>5, <1>7, <1>9, <2>1
  <2>5. \A p \in start[s] : p \in Prices(s)' \/ ToCome(p)'
    <3> SUFFICES ASSUME NEW p \in start[s], ~ToCome(p)'
                 PROVE  p \in Prices(s)'
      OBVIOUS
    <3>1. CASE p \in Prices(s)
      <4>1. PICK i \in 1 .. k : p = limits[s][i].price
        BY <1>9, <3>1 DEF Prices
      <4>2. i \in 1 .. k + 1 /\ p = limits'[s][i].price
        BY <1>7, <1>9, <4>1
      <4> QED
        BY <1>9, <4>2 DEF Prices
    <3>2. CASE p = at
      <4>1. k + 1 \in 1 .. k + 1 /\ limits'[s][k + 1].price = p
        BY <1>5, <1>7, <1>9, <3>2
      <4> QED
        BY <1>9, <4>1 DEF Prices
    <3>3. p \in Prices(s) \/ p = at
      BY <1>2, <1>3 DEF FaithInv, CoverInv, ToCome
    <3> QED
      BY <3>1, <3>2, <3>3
  <2>6. s = "BUY" => start["SELL"] \subseteq Prices("SELL")'
    BY <1>2, <1>3, <1>8 DEF FaithInv, CoverInv, Prices, Side
  <2> QED
    BY <1>2, <1>3, <2>3, <2>4, <2>5, <2>6 DEF CoverInv
<1>15. BestAskAgrees'
  BY <1>2 DEF BestAskAgrees
<1> QED
  BY <1>1, <1>10, <1>11, <1>12, <1>13, <1>14, <1>15

(* operator++ leads to the nearest level behind, unless it was raced. *)
LEMMA StepIteratorStep ==
    ASSUME ReaderInv, StepIterator
    PROVE  ReaderInv'
<1> USE DEF ReaderInv
<1>1. ShapeInv' /\ \A t \in Side : Levels(t)' = Levels(t)
  BY BookStays DEF StepIterator
<1>2. /\ rpc = "step" /\ rpc' = "read" /\ torn' = (torn \/ raced) /\ raced' = FALSE
      /\ UNCHANGED <<side, limits, start, spread>>
  BY DEF StepIterator
<1>3. PICK s \in Side : s = side
  BY DEF ReaderTypeOK
<1>4. Levels(s) \subseteq Price /\ Bounded(Levels(s)) /\ at \in Levels(s)
  BY <1>2, <1>3 DEF Levels, ListedInv, AliveInv
<1> DEFINE S == {q \in Levels(s) : Before(s, at, q)}
<1>5. S \subseteq Price /\ Bounded(S) /\ S \subseteq Levels(s)
  BY <1>4 DEF Bounded
<1>6. ~raced => \/ at' = NoLimit /\ S = {}
                \/ First(s, S, at') /\ at' \in S
  <2>1. ~raced => at' = Leading(s, S)
    BY <1>3 DEF StepIterator, Successor
  <2> HIDE DEF S
  <2> QED
    BY <1>5, <2>1, LeadingFirst DEF Leading
<1>7. at' = NoLimit \/ at' \in Levels(s)
  <2>1. raced => at' \in Levels(s) \cup {NoLimit}
    BY <1>3 DEF StepIterator
  <2> QED
    BY <1>5, <1>6, <2>1
<1>8. ReaderTypeOK'
  BY <1>1, <1>2, <1>3, <1>4, <1>7 DEF ReaderTypeOK, ShapeInv
<1>9. AliveInv' /\ TurnInv' /\ ListedInv' /\ BestAskAgrees'
  BY <1>1, <1>2, <1>3, <1>7 DEF AliveInv, TurnInv, ListedInv, BestAskAgrees
<1>10. FaithInv'
  <2> SUFFICES ASSUME ~torn, ~raced
               PROVE  (\A t \in Side : Sorted(t)') /\ AheadInv' /\ CoverInv'
    BY <1>2 DEF FaithInv, ReaderTypeOK
  <2>1. \A t \in Side : Sorted(t)'
    BY <1>2 DEF FaithInv, Sorted
  <2>2. AheadInv'
    <3> SUFFICES ASSUME NEW i \in DOMAIN limits[s], at' # NoLimit
                 PROVE  Before(s, limits[s][i].price, at')
      BY <1>2, <1>3 DEF AheadInv
    <3>1. Before(s, at, at') /\ at' \in Price /\ at \in Price
      BY <1>4, <1>6
    <3>2. limits[s][i].price = at \/ Before(s, limits[s][i].price, at)
      BY <1>2, <1>3 DEF FaithInv, AheadInv
    <3>3. limits[s][i].price \in Price
      BY <1>4 DEF ListedInv
    <3> QED
      BY <3>1, <3>2, <3>3, BeforeOrder
  <2>3. \A p \in start[s] : p \in Prices(s)' \/ ToCome(p)'
    <3> SUFFICES ASSUME NEW p \in start[s], p \notin Prices(s)
                 PROVE  ToCome(p)'
      BY <1>2 DEF Prices
    <3>1. Before(s, at, p)
      BY <1>2, <1>3 DEF FaithInv, CoverInv, ToCome
    <3>2. p \in S
      BY <3>1 DEF ListedInv
    <3>3. First(s, S, at') /\ at' \in S /\ at' \in Price
      BY <1>5, <1>6, <3>2
    <3>4. p = at' \/ Before(s, at', p)
      BY <3>2, <3>3 DEF First
    <3> QED
      BY <1>2, <1>3, <3>3, <3>4, ReaderAssumption DEF ToCome
  <2>4. s = "BUY" => start["SELL"] \subseteq Prices("SELL")'
    BY <1>2, <1>3 DEF FaithInv, CoverInv, Prices
  <2> QED
    BY <1>2, <1>3, <2>1, <2>2, <2>3, <2>4 DEF CoverInv
<1> QED
  BY <1>1, <1>8, <1>9, <1>10

(* get_spread, when both sides have been walked. *)
LEMMA ReadSpreadStep ==
    ASSUME ReaderInv, ReadSpread
    PROVE  ReaderInv'
<1> USE DEF ReaderInv
<1>1. ShapeInv' /\ \A t \in Side : Levels(t)' = Levels(t)
  BY BookStays DEF ReadSpread
<1>2. /\ rpc = "read" /\ at = NoLimit /\ side = "BUY" /\ rpc' = "done"
      /\ UNCHANGED <<side, at, raced, torn, limits, start>>
      /\ spread' = GetSpread
  BY DEF ReadSpread
<1>3. ASSUME NEW s \in Side
      PROVE  Levels(s) # {} =>
                 /\ Min(Levels(s)) \in Price /\ Min(Levels(s)) \in Levels(s)
                 /\ \A p \in Levels(s) : Min(Levels(s)) <= p
  <2> DEFINE L == Levels(s)
  <2>1. L \subseteq Price /\ Bounded(L)
    BY DEF Levels, ListedInv
  <2> HIDE DEF L
  <2>2. L # {} => Min(L) \in L /\ \A p \in L : Min(L) <= p
    BY <2>1, MinLevel
  <2> HIDE DEF ReaderInv
  <2> QED
    BY <2>1, <2>2 DEF L
<1>4. /\ spread'.best_bid = IF Levels("BUY") = {} THEN -1 ELSE Min(Levels("BUY"))
      /\ spread'.best_ask = IF Levels("SELL") = {} THEN -1 ELSE Min(Levels("SELL"))
      /\ spread' \in [best_bid: Price \cup {-1}, best_ask: Price \cup {-1}, market_price: Int]
  <2>1. market \in Int
    BY DEF ShapeInv, TypeOK
  <2> HIDE DEF ReaderInv
  <2>2. /\ (IF Levels("BUY") = {} THEN -1 ELSE Min(Levels("BUY"))) \in Price \cup {-1}
        /\ (IF Levels("SELL") = {} THEN -1 ELSE Min(Levels("SELL"))) \in Price \cup {-1}
    <3>1. "BUY" \in Side /\ "SELL" \in Side
      BY DEF Side
    <3> QED
      BY <1>3, <3>1
  <2> QED
    BY <1>2, <2>1, <2>2 DEF GetSpread
<1>5. ReaderTypeOK'
  BY <1>1, <1>2, <1>4 DEF ReaderTypeOK, ShapeInv
<1>6. AliveInv' /\ TurnInv' /\ ListedInv'
  BY <1>1, <1>2 DEF AliveInv, TurnInv, ListedInv
<1>7. FaithInv'
  <2> SUFFICES ASSUME ~torn
               PROVE  (\A t \in Side : Sorted(t)') /\ AheadInv' /\ CoverInv'
    BY <1>2 DEF FaithInv
  <2>1. (\A t \in Side : Sorted(t)') /\ AheadInv'
    BY <1>2 DEF FaithInv, Sorted, AheadInv
  <2>2. start["BUY"] \subseteq Prices("BUY") /\ start["SELL"] \subseteq Prices("SELL")
    BY <1>2 DEF FaithInv, CoverInv, ToCome
  <2> QED
    BY <1>2, <2>1, <2>2 DEF CoverInv, Prices, Side
<1>8. BestAskAgrees'
  <2>1. ASSUME NEW i \in DOMAIN limits["SELL"]
        PROVE  spread'.best_ask \in Levels("SELL") /\ spread'.best_ask <= limits["SELL"][i].price
    <3>1. "SELL" \in Side /\ limits["SELL"][i].price \in Levels("SELL")
      BY DEF ListedInv, Side
    <3>2. Min(Levels("SELL")) \in Levels("SELL") /\ Min(Levels("SELL")) <= limits["SELL"][i].price
      BY <1>3, <3>1
    <3> QED
      BY <1>4, <3>1, <3>2
  <2> QED
    BY <1>1, <1>2, <2>1 DEF BestAskAgrees, SnapshotJson, Side
<1> QED
  BY <1>1, <1>5, <1>6, <1>7, <1>8

(* The reply that has not been read yet. *)
LEMMA EmptyReply ==
    /\ [s \in Side |-> << >>] \in [Side -> Seq([price: Price, qty: Int])]
    /\ [s \in Side |-> {}] \in [Side -> SUBSET Price]
    /\ [best_bid |-> -1, best_ask |-> -1, market_price |-> 0]
        \in [best_bid: Price \cup {-1}, best_ask: Price \cup {-1}, market_price: Int]
<1>1. ASSUME NEW E PROVE [s \in Side |-> << >>] \in [Side -> Seq(E)]
  <2>1. << >> \in Seq(E)
    OBVIOUS
  <2> QED
    BY <2>1
<1>2. [s \in Side |-> {}] \in [Side -> SUBSET Price]
  OBVIOUS
<1>3. [best_bid |-> -1, best_ask |-> -1, market_price |-> 0]
        \in [best_bid: Price \cup {-1}, best_ask: Price \cup {-1}, market_price: Int]
  OBVIOUS
<1> QED
  BY <1>1, <1>2, <1>3

(* Every step of the worker and of the reader keeps the invariant. *)
LEMMA ReaderStep ==
    ASSUME ReaderInv, [ReaderNext]_allVars
    PROVE  ReaderInv'
<1>1. CASE WorkerStep
  BY <1>1, WorkerStepKeeps DEF WorkerStep, ReaderInv, ReaderTypeOK
<1>2. CASE UNCHANGED allVars
  BY <1>2, WorkerStepKeeps DEF allVars, readerVars, ReaderInv, ReaderTypeOK
<1>3. CASE GetSnapshot
  BY <1>3, BeginStep DEF GetSnapshot, ReaderInv, TurnInv, Side
<1>4. CASE AsksDone
  <2>1. /\ rpc = "read" /\ at = NoLimit /\ side = "SELL" /\ Begin("BUY") /\ "BUY" \in Side
        /\ UNCHANGED <<vars, raced, torn, limits, spread>> /\ limits["BUY"] = << >>
    BY <1>4 DEF AsksDone, ReaderInv, TurnInv, Side
  <2>2. ~torn => start["SELL"] \subseteq Prices("SELL")
    BY <2>1 DEF ReaderInv, FaithInv, CoverInv, ToCome
  <2> QED
    BY <2>1, <2>2, BeginStep
<1>5. CASE SnapshotSent
  <2> USE DEF ReaderInv
  <2>1. ShapeInv' /\ \A t \in Side : Levels(t)' = Levels(t)
    BY <1>5, BookStays DEF SnapshotSent
  <2>2. /\ rpc' = "idle" /\ side' = "SELL" /\ at' = NoLimit /\ raced' = FALSE /\ torn' = FALSE
        /\ limits' = [s \in Side |-> << >>] /\ start' = [s \in Side |-> {}]
        /\ spread' = [best_bid |-> -1, best_ask |-> -1, market_price |-> 0]
    BY <1>5 DEF SnapshotSent, Resets, Nothing, NoSpread
  <2>3. ReaderTypeOK'
    <3>1. TypeOK' /\ side' \in Side
      BY <2>1, <2>2 DEF ShapeInv, Side
    <3> QED
      BY <2>2, <3>1, EmptyReply DEF ReaderTypeOK
  <2>4. AliveInv' /\ TurnInv' /\ BestAskAgrees'
    BY <2>2 DEF AliveInv, TurnInv, BestAskAgrees, Side
  <2>5. ListedInv'
    BY <2>1, <2>2 DEF ListedInv
  <2>6. FaithInv'
    BY <2>2 DEF FaithInv, Sorted, AheadInv, CoverInv, Side
  <2> QED
    BY <2>1, <2>3, <2>4, <2>5, <2>6
<1> QED
  BY <1>1, <1>2, <1>3, <1>4, <1>5, ReadLevelStep, StepIteratorStep, ReadSpreadStep DEF ReaderNext, Reader

(* Nothing has been read before the first snapshot. *)
LEMMA ReaderInitInv == ReaderInit => ReaderInv
<1> SUFFICES ASSUME ReaderInit PROVE ReaderInv
  OBVIOUS
<1>1. ShapeInv /\ \A s \in Side : Levels(s) = {}
  BY ShapeInit DEF ReaderInit, Init, Levels
<1>2. /\ rpc = "idle" /\ side = "SELL" /\ at = NoLimit /\ raced = FALSE /\ torn = FALSE
      /\ limits = [s \in Side |-> << >>] /\ start = [s \in Side |-> {}]
      /\ spread = [best_bid |-> -1, best_ask |-> -1, market_price |-> 0]
  BY DEF ReaderInit, Nothing, NoSpread
<1>3. ReaderTypeOK
  <2>1. TypeOK /\ side \in Side
    BY <1>1, <1>2 DEF ShapeInv, Side
  <2> QED
    BY <1>2, <2>1, EmptyReply DEF ReaderTypeOK
<1>4. AliveInv /\ TurnInv /\ BestAskAgrees
  BY <1>2 DEF AliveInv, TurnInv, BestAskAgrees, Side
<1>5. ListedInv
  <2>1. Bounded({})
    BY DEF Bounded
  <2> QED
    <3> SUFFICES ASSUME NEW s \in Side
                 PROVE  /\ Bounded(Levels(s)) /\ start[s] \subseteq Levels(s)
                        /\ \A i \in DOMAIN limits[s] : limits[s][i].price \in Levels(s)
      BY DEF ListedInv
    <3>1. Levels(s) = {} /\ start[s] = {} /\ limits[s] = << >>
      BY <1>1, <1>2
    <3>2. DOMAIN limits[s] = {}
      BY <3>1
    <3> QED
      BY <2>1, <3>1, <3>2, Zenon
<1>6. FaithInv
  BY <1>2 DEF FaithInv, Sorted, AheadInv, CoverInv, Side
<1> QED
  BY <1>1, <1>3, <1>4, <1>5, <1>6 DEF ReaderInv

-----------------------------------------------------------------------------
(* The theorems *)

(* The invariant of the walk, with the types of the reader's variables. *)
THEOREM ReaderInvariant == ReaderSpec => [](ReaderInv /\ ReaderTypeOK)
<1>1. ReaderInv /\ [ReaderNext]_allVars => ReaderInv'
  BY ReaderStep
<1>2. ReaderInv => ReaderTypeOK
  BY DEF ReaderInv
<1> QED
  BY <1>1, <1>2, ReaderInitInv, PTL DEF ReaderSpec

(* However the worker and the server thread interleave, the iterator of     *)
(* get_snapshot stands on a level that is in the tree: the worker never     *)
(* takes one out.                                                           *)
THEOREM SnapshotIteratorAlive == ReaderSpec => []IteratorAlive
<1>1. ReaderInv => IteratorAlive
  BY DEF ReaderInv, AliveInv, IteratorAlive
<1> QED
  BY <1>1, ReaderInvariant, PTL

(* A snapshot that no insertion met inside operator++ lists every side once *)
(* and in order, and all the levels it found when it began.                 *)
THEOREM SnapshotIsFaithful == ReaderSpec => []SnapshotFaithful
<1>1. ReaderInv => SnapshotFaithful
  BY DEF ReaderInv, FaithInv, CoverInv, Sorted, SnapshotFaithful
<1> QED
  BY <1>1, ReaderInvariant, PTL

(* A snapshot that lists asks names a level of the ask tree as its best     *)
(* ask, no worse than any it lists, torn or not.                            *)
THEOREM SnapshotBestAsk == ReaderSpec => []BestAskAgrees
<1>1. ReaderInv => BestAskAgrees
  BY DEF ReaderInv
<1> QED
  BY <1>1, ReaderInvariant, PTL
=============================================================================
