--------------------------- MODULE OrderBookProofs ---------------------------
(***************************************************************************)
(* Proofs about OrderBook for every set of prices and requests and any     *)
(* number of orders.  The types and the shape of the book are proved of    *)
(* every behaviour; what supposes that modifications have kept the side of *)
(* their order and that no quantity has been negative is proved under that *)
(* condition (Regular), which no handler checks.                           *)
(***************************************************************************)
EXTENDS OrderBook, SequenceTheorems, FiniteSetTheorems, WellFoundedInduction, TLAPS

(* A tree holds, at a price, no Limit or the one of its own side and price. *)
TreeShape == \A s \in Side, p \in Price : tree[s][p] \in {NoLimit, <<s, p>>}

(* Objects in use carry prices of the book and ids of earlier objects. *)
CreatedInv ==
    /\ cancelled \subseteq Created
    /\ date \subseteq Created
    /\ \A r \in Created : /\ order[r].id \in Created
                          /\ order[r].id <= r
                          /\ order[r].price \in Price

(* Whatever a level links has that level as its parent. *)
ParentInv ==
    \A l \in Limit : \A i \in DOMAIN queue[l] :
        queue[l][i] \in Created /\ parent[queue[l][i]] = l

(* The order being matched is not in the book yet. *)
TakerInv ==
    pc \in {"match", "fill"} =>
        /\ taker \in Created
        /\ taker \notin cancelled
        /\ \A id \in Ref : index[id] # taker
        /\ \A l \in Limit : \A i \in DOMAIN queue[l] : queue[l][i] # taker

(* The iterator of match_order walks the levels of the other side. *)
TodoInv == pc \in {"match", "fill"} => todo \subseteq Levels(Opposite(TakerSide))

(* The makers still to be visited belong to the level being processed. *)
WalkInv ==
    pc = "fill" =>
        /\ level \in Price
        /\ LevelOf(level) # NoLimit
        /\ \A i \in DOMAIN walk :
            walk[i] \in Created /\ walk[i] # taker /\ parent[walk[i]] = LevelOf(level)

(* The heart of the matter: an order without AON has emptied every level    *)
(* it has left behind and reaches, and in the level it is in it has taken   *)
(* every maker up to the current one.                                       *)
SweepInv ==
    pc \in {"match", "fill"} /\ "AON" \notin params[taker] =>
        /\ \A p \in Levels(Opposite(TakerSide)) \ todo :
            /\ Crosses(TakerSide, order[taker].price, p)
            /\ pc = "fill" => p # level
            => queue[LevelOf(p)] = << >>
        /\ pc = "fill" /\ qty[taker] > 0 => walk = queue[LevelOf(level)]

(* What an entry of the index and a match in progress refer to. *)
EntriesInv ==
    \A id \in Ref : index[id] # 0 =>
        /\ index[id] \in Created
        /\ order[index[id]].id = id
        /\ parent[index[id]] \in Limit

MatchedInv ==
    /\ pc \in {"match", "fill"} => taker \in Created
    /\ pc = "fill" => \A i \in DOMAIN walk : walk[i] \in Created /\ parent[walk[i]] \in Limit
    /\ \A l \in Limit : \A i \in DOMAIN queue[l] :
        queue[l][i] \in Created /\ parent[queue[l][i]] \in Limit

(* What holds whatever clients send: changes of side and negative           *)
(* quantities included.                                                     *)
ShapeInv ==
    /\ TypeOK
    /\ CreatedInv
    /\ EntriesInv
    /\ MatchedInv
    /\ TodoInv

(* The volumes and the exchanged quantities, without their conditions. *)
VolumesCover == \A l \in Limit : Covered(l)
FilledEven   == Filled("BUY") = Filled("SELL")

(* What the others need: quantities and volumes are not negative. *)
NaturalInv == qty \in [Ref -> Nat] /\ volume \in [Limit -> Nat]

(* What holds as long as the requests have been Regular. *)
BookInv ==
    /\ TypeOK
    /\ NaturalInv
    /\ TreeShape
    /\ CreatedInv
    /\ ParentInv
    /\ EntriesLinked
    /\ TakerInv
    /\ TodoInv
    /\ WalkInv
    /\ SweepInv
    /\ NoCross

-----------------------------------------------------------------------------
(* Lists *)

(* A set of natural numbers that is not empty has a least element. *)
LEMMA LeastElement ==
    ASSUME NEW T, T \subseteq Nat, T # {}
    PROVE  \E x \in T : \A y \in T : x <= y
<1>1. \E x \in T : \A y \in T : ~(<<y, x>> \in OpToRel(<, Nat))
  BY WFMin, NatLessThanWellFounded
<1>2. PICK x \in T : \A y \in T : ~(<<y, x>> \in OpToRel(<, Nat))
  BY <1>1
<1>3. ASSUME NEW y \in T, ~(x <= y)
      PROVE  FALSE
  <2>1. <<y, x>> \in Nat \X Nat /\ y < x
    BY <1>3
  <2>2. <<y, x>> \in OpToRel(<, Nat)
    BY <2>1 DEF OpToRel
  <2> QED
    BY <1>2, <2>2
<1> QED
  BY <1>3

(* The position unlinking works with. *)
LEMMA FirstIndexFacts ==
    ASSUME NEW S, NEW s \in Seq(S), NEW r, \E i \in DOMAIN s : s[i] = r
    PROVE  /\ FirstIndex(s, r) \in DOMAIN s
           /\ s[FirstIndex(s, r)] = r
           /\ \A j \in 1 .. FirstIndex(s, r) - 1 : s[j] # r
<1> DEFINE T == {i \in DOMAIN s : s[i] = r}
<1>1. T \subseteq Nat /\ T # {}
  OBVIOUS
<1>2. PICK x \in T : \A y \in T : x <= y
  BY <1>1, LeastElement
<1>3. \A j \in 1 .. x - 1 : s[j] # r
  BY <1>2
<1> QED
  BY <1>2, <1>3 DEF FirstIndex

(* Unlinking an order from a list leaves a list of the others. *)
LEMMA UnlinkFacts ==
    ASSUME NEW S, NEW s \in Seq(S), NEW r
    PROVE  /\ Unlink(s, r) \in Seq(S)
           /\ \A j \in DOMAIN Unlink(s, r) : \E i \in DOMAIN s : Unlink(s, r)[j] = s[i]
           /\ \A i \in DOMAIN s : s[i] # r => \E j \in DOMAIN Unlink(s, r) : Unlink(s, r)[j] = s[i]
<1>1. CASE ~ \E i \in DOMAIN s : s[i] = r
  BY <1>1 DEF Unlink
<1>2. CASE \E i \in DOMAIN s : s[i] = r
  <2> DEFINE k == FirstIndex(s, r)
             u == [j \in 1 .. Len(s) - 1 |-> IF j < k THEN s[j] ELSE s[j + 1]]
  <2>1. k \in DOMAIN s /\ s[k] = r
    BY <1>2, FirstIndexFacts
  <2>2. Unlink(s, r) = u
    BY <1>2 DEF Unlink
  <2>3. Len(s) \in Nat /\ Len(s) >= 1 /\ DOMAIN s = 1 .. Len(s)
    BY <2>1
  <2> HIDE DEF k
  <2>4. u \in Seq(S)
    BY <2>1, <2>3
  <2>5. \A j \in DOMAIN u : \E i \in DOMAIN s : u[j] = s[i]
    BY <2>1, <2>3
  <2>6. ASSUME NEW i \in DOMAIN s, s[i] # r
        PROVE  \E j \in DOMAIN u : u[j] = s[i]
    <3>1. CASE i < k
      <4>1. i \in DOMAIN u /\ u[i] = s[i]
        BY <2>1, <2>3, <3>1
      <4> QED
        BY <4>1
    <3>2. CASE i > k
      <4>1. i - 1 \in DOMAIN u /\ u[i - 1] = s[i]
        BY <2>1, <2>3, <3>2
      <4> QED
        BY <4>1
    <3> QED
      BY <2>1, <2>3, <2>6, <3>1, <3>2
  <2> HIDE DEF u
  <2> QED
    BY <2>2, <2>4, <2>5, <2>6
<1> QED
  BY <1>1, <1>2

(* Unlinking the head of a list leaves its tail. *)
LEMMA UnlinkHead ==
    ASSUME NEW S, NEW s \in Seq(S), s # << >>
    PROVE  Unlink(s, Head(s)) = Tail(s)
<1>1. Len(s) \in Nat /\ Len(s) >= 1 /\ DOMAIN s = 1 .. Len(s) /\ Head(s) = s[1]
  BY HeadTailProperties
<1>2. \E i \in DOMAIN s : s[i] = Head(s)
  BY <1>1
<1>3. FirstIndex(s, Head(s)) = 1
  BY <1>1, <1>2, FirstIndexFacts
<1>4. Unlink(s, Head(s)) = [j \in 1 .. Len(s) - 1 |-> s[j + 1]]
  BY <1>1, <1>2, <1>3 DEF Unlink
<1> QED
  BY <1>1, <1>4

(* A list that holds nothing twice. *)
NoRepeat(s) == \A i, j \in DOMAIN s : s[i] = s[j] => i = j

(* Unlinking takes an order out of a list that holds it once. *)
LEMMA UnlinkNoRepeat ==
    ASSUME NEW S, NEW s \in Seq(S), NEW r, NoRepeat(s)
    PROVE  /\ NoRepeat(Unlink(s, r))
           /\ \A j \in DOMAIN Unlink(s, r) : Unlink(s, r)[j] # r
<1>1. CASE ~ \E i \in DOMAIN s : s[i] = r
  BY <1>1 DEF Unlink
<1>2. CASE \E i \in DOMAIN s : s[i] = r
  <2>1. PICK k \in DOMAIN s : k = FirstIndex(s, r) /\ s[k] = r
    BY <1>2, FirstIndexFacts
  <2> DEFINE At(j) == IF j < k THEN j ELSE j + 1
             u == [j \in 1 .. Len(s) - 1 |-> IF j < k THEN s[j] ELSE s[j + 1]]
  <2>2. Unlink(s, r) = u
    BY <1>2, <2>1 DEF Unlink
  <2>3. Len(s) \in Nat /\ DOMAIN s = 1 .. Len(s) /\ DOMAIN u = 1 .. Len(s) - 1 /\ k \in Nat
    OBVIOUS
  <2>4. ASSUME NEW j \in 1 .. Len(s) - 1
        PROVE  /\ u[j] = s[At(j)]
               /\ At(j) \in DOMAIN s /\ At(j) # k
    BY <2>3
  <2>5. ASSUME NEW i \in 1 .. Len(s) - 1, NEW j \in 1 .. Len(s) - 1, At(i) = At(j)
        PROVE  i = j
    BY <2>3, <2>5
  <2> HIDE DEF u, At
  <2>6. ASSUME NEW j \in 1 .. Len(s) - 1
        PROVE  u[j] # r
    BY <2>1, <2>4 DEF NoRepeat
  <2>7. ASSUME NEW i \in 1 .. Len(s) - 1, NEW j \in 1 .. Len(s) - 1, u[i] = u[j]
        PROVE  i = j
    <3>1. s[At(i)] = s[At(j)] /\ At(i) \in DOMAIN s /\ At(j) \in DOMAIN s
      BY <2>4, <2>7
    <3> QED
      BY <2>5, <3>1 DEF NoRepeat
  <2> QED
    BY <2>2, <2>3, <2>6, <2>7 DEF NoRepeat
<1> QED
  BY <1>1, <1>2

-----------------------------------------------------------------------------
(* Sums over finite sets.  The fold that computes them takes the elements   *)
(* in an order of its own; h is such a fold on the sets of D.               *)
Chosen(T) == CHOOSE x \in T : TRUE

IsFold(f, D, h) ==
    h = [T \in D |-> IF T = {} THEN 0 ELSE f[Chosen(T)] + h[T \ {Chosen(T)}]]

(* The subsets of S with at most n elements. *)
Smaller(S, n) == {T \in SUBSET S : Cardinality(T) <= n}

(* They have an element less when one is taken out. *)
LEMMA SmallerFacts ==
    ASSUME NEW S, IsFiniteSet(S), NEW n \in Nat, NEW T \in Smaller(S, n)
    PROVE  /\ IsFiniteSet(T) /\ Cardinality(T) \in Nat /\ Cardinality(T) <= n
           /\ \A x \in T : /\ T \ {x} \in SUBSET S
                           /\ Cardinality(T \ {x}) = Cardinality(T) - 1
                           /\ n > 0 /\ T \ {x} \in Smaller(S, n - 1) /\ T \ {x} \in Smaller(S, n)
           /\ T # {} => Chosen(T) \in T
<1>1. T \subseteq S /\ Cardinality(T) <= n
  BY DEF Smaller
<1>2. IsFiniteSet(T) /\ Cardinality(T) \in Nat
  BY <1>1, FS_Subset, FS_CardinalityType
<1>3. ASSUME NEW x \in T
      PROVE /\ T \ {x} \in SUBSET S
            /\ Cardinality(T \ {x}) = Cardinality(T) - 1
            /\ n > 0 /\ T \ {x} \in Smaller(S, n - 1) /\ T \ {x} \in Smaller(S, n)
  <2>1. T \ {x} \in SUBSET S
    BY <1>1
  <2>2. IsFiniteSet(T \ {x}) /\ Cardinality(T \ {x}) = Cardinality(T) - 1
    BY <1>2, FS_RemoveElement
  <2>3. Cardinality(T \ {x}) \in Nat
    BY <2>2, FS_CardinalityType
  <2>4. Cardinality(T \ {x}) <= n - 1 /\ Cardinality(T \ {x}) <= n /\ n > 0
    BY <2>2, <2>3, <1>2, <1>1
  <2> QED
    BY <2>1, <2>2, <2>4 DEF Smaller
<1>4. T # {} => Chosen(T) \in T
  BY DEF Chosen
<1> QED
  BY <1>1, <1>2, <1>3, <1>4

(* Such a fold exists. *)
LEMMA FoldExists ==
    ASSUME NEW f, NEW S, IsFiniteSet(S)
    PROVE  \E h : IsFold(f, SUBSET S, h)
<1> DEFINE Has(n) == \E h : IsFold(f, Smaller(S, n), h)
           Bad == {n \in Nat : ~Has(n)}
<1>1. Has(0)
  <2> DEFINE h == [T \in Smaller(S, 0) |-> 0]
  <2>1. \A T \in Smaller(S, 0) : T = {}
    <3> TAKE T \in Smaller(S, 0)
    <3>1. \A x \in T : 0 > 0
      BY SmallerFacts
    <3> QED BY <3>1
  <2>2. IsFold(f, Smaller(S, 0), h)
    BY <2>1 DEF IsFold
  <2> QED BY <2>2
<1>2. ASSUME NEW n \in Nat, n > 0, Has(n - 1)
      PROVE  Has(n)
  <2>1. PICK g : IsFold(f, Smaller(S, n - 1), g)
    BY <1>2
  <2> DEFINE h == [T \in Smaller(S, n) |-> IF T = {} THEN 0 ELSE f[Chosen(T)] + g[T \ {Chosen(T)}]]
  <2>2. \A T \in Smaller(S, n - 1) :
           g[T] = IF T = {} THEN 0 ELSE f[Chosen(T)] + g[T \ {Chosen(T)}]
    BY <2>1 DEF IsFold
  <2>3. Smaller(S, n - 1) \subseteq Smaller(S, n)
    <3> SUFFICES ASSUME NEW T \in Smaller(S, n - 1) PROVE T \in Smaller(S, n)
      OBVIOUS
    <3>1. n - 1 \in Nat
      BY <1>2
    <3>2. Cardinality(T) \in Nat /\ Cardinality(T) <= n - 1
      BY <3>1, SmallerFacts
    <3>3. Cardinality(T) <= n
      BY <3>2
    <3> QED BY <3>3 DEF Smaller
  <2>4. \A T \in Smaller(S, n - 1) : h[T] = g[T]
    BY <2>2, <2>3
  <2>5. \A T \in Smaller(S, n) : T # {} => h[T \ {Chosen(T)}] = g[T \ {Chosen(T)}]
    <3> TAKE T \in Smaller(S, n)
    <3> HAVE T # {}
    <3>1. Chosen(T) \in T
      BY SmallerFacts
    <3>2. T \ {Chosen(T)} \in Smaller(S, n - 1)
      BY <3>1, SmallerFacts
    <3> QED BY <3>2, <2>4
  <2>6. h = [T \in Smaller(S, n) |-> IF T = {} THEN 0 ELSE f[Chosen(T)] + h[T \ {Chosen(T)}]]
    BY <2>5
  <2> QED BY <2>6 DEF IsFold
<1>3. ASSUME Bad # {}
      PROVE  FALSE
  <2>1. PICK n \in Bad : \A m \in Bad : n <= m
    <3>1. Bad \subseteq Nat
      OBVIOUS
    <3> HIDE DEF Bad
    <3> QED BY <3>1, <1>3, LeastElement
  <2>2. n \in Nat /\ ~Has(n)
    OBVIOUS
  <2>3. n > 0
    BY <2>2, <1>1
  <2>4. n - 1 \in Nat /\ ~(n <= n - 1)
    BY <2>2, <2>3
  <2>5. Has(n - 1)
    BY <2>1, <2>4
  <2> QED BY <1>2, <2>2, <2>3, <2>5
<1>4. Cardinality(S) \in Nat
  BY FS_CardinalityType
<1>5. Has(Cardinality(S))
  BY <1>3, <1>4
<1>6. Smaller(S, Cardinality(S)) = SUBSET S
  <2>1. \A T \in SUBSET S : Cardinality(T) <= Cardinality(S)
    BY FS_Subset
  <2> QED BY <2>1 DEF Smaller
<1> QED
  BY <1>5, <1>6

(* Among sets of subsets of a finite set there is a least one. *)
LEMMA LeastSubset ==
    ASSUME NEW S, IsFiniteSet(S), NEW B, B \subseteq SUBSET S, B # {}
    PROVE  \E T \in B : \A U \in SUBSET T : U # T => U \notin B
<1>1. IsWellFoundedOn(StrictSubsetOrdering(S), SUBSET S)
  BY FS_StrictSubsetOrderingWellFounded, FS_FiniteSubsetsOfFinite
<1>2. PICK T \in B : \A U \in B : ~(<<U, T>> \in StrictSubsetOrdering(S))
  BY <1>1, WFMin
<1>3. ASSUME NEW U \in SUBSET T, U # T, U \in B
      PROVE  FALSE
  <2>1. <<U, T>> \in (SUBSET S) \X (SUBSET S)
    BY <1>3
  <2>2. <<U, T>> \in StrictSubsetOrdering(S)
    BY <2>1, <1>3 DEF StrictSubsetOrdering
  <2> QED
    BY <1>2, <1>3, <2>2
<1> QED
  BY <1>3

(* A fold may take any element first. *)
Additive(f, S, h) ==
    /\ h[{}] = 0
    /\ \A T \in SUBSET S : h[T] \in Int /\ \A x \in T : h[T] = f[x] + h[T \ {x}]

(* By the smallest set for which it would not. *)
LEMMA FoldAdditive ==
    ASSUME NEW f, NEW S, IsFiniteSet(S), \A x \in S : f[x] \in Int, NEW h, IsFold(f, SUBSET S, h)
    PROVE  Additive(f, S, h)
<1> DEFINE Good(T) == h[T] \in Int /\ \A x \in T : h[T] = f[x] + h[T \ {x}]
           Bad == {T \in SUBSET S : ~Good(T)}
<1>1. \A T \in SUBSET S : h[T] = IF T = {} THEN 0 ELSE f[Chosen(T)] + h[T \ {Chosen(T)}]
  BY DEF IsFold
<1>2. h[{}] = 0
  BY <1>1
<1>3. ASSUME Bad # {}
      PROVE  FALSE
  <2>1. PICK T \in Bad : \A U \in SUBSET T : U # T => U \notin Bad
    <3>1. Bad \subseteq SUBSET S
      OBVIOUS
    <3> HIDE DEF Bad
    <3> QED
      BY <3>1, <1>3, LeastSubset
  <2>0. Good({})
    BY <1>2
  <2>2. T \in SUBSET S /\ ~Good(T) /\ T # {}
    BY <2>0
  <2>3. \A U \in SUBSET T : U # T => Good(U)
    BY <2>1, <2>2
  <2> HIDE DEF Bad
  <2>4. PICK c \in T : h[T] = f[c] + h[T \ {c}]
    BY <1>1, <2>2 DEF Chosen
  <2>5. Good(T \ {c}) /\ f[c] \in Int
    BY <2>2, <2>3
  <2>6. h[T] \in Int
    BY <2>4, <2>5
  <2>7. ASSUME NEW x \in T, x # c
        PROVE  h[T] = f[x] + h[T \ {x}]
    <3> DEFINE V == (T \ {c}) \ {x}
    <3>1. /\ x \in T \ {c} /\ c \in T \ {x} /\ f[x] \in Int
          /\ T \ {x} \in SUBSET T /\ T \ {x} # T /\ (T \ {x}) \ {c} = V
          /\ V \in SUBSET T /\ V # T
      BY <2>2, <2>7
    <3>2. Good(T \ {x}) /\ Good(V)
      BY <2>3, <3>1
    <3>3. h[T \ {x}] = f[c] + h[V] /\ h[T \ {c}] = f[x] + h[V] /\ h[V] \in Int
      BY <2>5, <3>1, <3>2
    <3> HIDE DEF V
    <3> QED
      BY <2>4, <2>5, <3>1, <3>3
  <2> QED
    BY <2>2, <2>4, <2>6, <2>7
<1> QED
  BY <1>2, <1>3 DEF Additive

(* The sum is a fold, and one that is independent of the order. *)
LEMMA SumAdditive ==
    ASSUME NEW f, NEW S, IsFiniteSet(S), \A x \in S : f[x] \in Int
    PROVE  \E h : Additive(f, S, h) /\ SumOver(f, S) = h[S]
<1> DEFINE it == CHOOSE h : h = [T \in SUBSET S |->
                     IF T = {} THEN 0 ELSE f[Chosen(T)] + h[T \ {Chosen(T)}]]
<1>1. IsFold(f, SUBSET S, it)
  <2>1. PICK g : IsFold(f, SUBSET S, g)
    BY FoldExists
  <2>2. g = [T \in SUBSET S |-> IF T = {} THEN 0 ELSE f[Chosen(T)] + g[T \ {Chosen(T)}]]
    BY <2>1 DEF IsFold
  <2>3. it = [T \in SUBSET S |-> IF T = {} THEN 0 ELSE f[Chosen(T)] + it[T \ {Chosen(T)}]]
    BY <2>2
  <2> HIDE DEF it
  <2> QED
    BY <2>3 DEF IsFold
<1>2. SumOver(f, S) = it[S]
  BY DEF SumOver, MapThenSumSet, MapThenFoldSet, Chosen
<1> HIDE DEF it
<1> QED
  BY <1>1, <1>2, FoldAdditive

(* It depends on nothing but the values that are summed. *)
LEMMA AdditiveUnique ==
    ASSUME NEW f, NEW g, NEW R, NEW S, NEW T, IsFiniteSet(T), T \subseteq R, T \subseteq S,
           \A x \in T : f[x] = g[x], NEW h, Additive(f, R, h), NEW k, Additive(g, S, k)
    PROVE  h[T] = k[T]
<1> DEFINE Bad == {U \in SUBSET T : h[U] # k[U]}
<1>1. ASSUME Bad # {}
      PROVE  FALSE
  <2>1. PICK U \in Bad : \A V \in SUBSET U : V # U => V \notin Bad
    <3>1. Bad \subseteq SUBSET T
      OBVIOUS
    <3> HIDE DEF Bad
    <3> QED
      BY <3>1, <1>1, LeastSubset
  <2>2. U \in SUBSET T /\ h[U] # k[U] /\ U # {}
    BY DEF Additive
  <2>3. PICK x \in U : TRUE
    BY <2>2
  <2>4. h[U \ {x}] = k[U \ {x}]
    BY <2>1, <2>2
  <2>5. h[U] = f[x] + h[U \ {x}] /\ k[U] = g[x] + k[U \ {x}] /\ f[x] = g[x]
    BY <2>2 DEF Additive
  <2> QED
    BY <2>2, <2>4, <2>5
<1> QED
  BY <1>1

(* The sum over nothing. *)
LEMMA SumEmpty == \A f : SumOver(f, {}) = 0
<1> TAKE f
<1>1. PICK h : Additive(f, {}, h) /\ SumOver(f, {}) = h[{}]
  BY FS_EmptySet, SumAdditive
<1> QED
  BY <1>1 DEF Additive

(* Equal values have equal sums. *)
LEMMA SumSame ==
    ASSUME NEW f, NEW g, NEW S, IsFiniteSet(S), \A x \in S : f[x] \in Int /\ f[x] = g[x]
    PROVE  SumOver(f, S) = SumOver(g, S)
<1>1. PICK h : Additive(f, S, h) /\ SumOver(f, S) = h[S]
  BY SumAdditive
<1>2. PICK k : Additive(g, S, k) /\ SumOver(g, S) = k[S]
  BY SumAdditive
<1> QED
  BY <1>1, <1>2, AdditiveUnique

(* A sum is split at any of its elements. *)
LEMMA SumRemove ==
    ASSUME NEW f, NEW S, IsFiniteSet(S), \A x \in S : f[x] \in Int, NEW x \in S
    PROVE  /\ SumOver(f, S) = f[x] + SumOver(f, S \ {x})
           /\ SumOver(f, S \ {x}) \in Int /\ SumOver(f, S) \in Int
<1> DEFINE R == S \ {x}
<1>0. IsFiniteSet(R)
  BY FS_Subset
<1>1. PICK h : Additive(f, S, h) /\ SumOver(f, S) = h[S]
  BY SumAdditive
<1>2. PICK k : Additive(f, R, k) /\ SumOver(f, R) = k[R]
  BY <1>0, SumAdditive
<1>3. h[R] = k[R]
  BY <1>0, <1>1, <1>2, AdditiveUnique
<1>4. h[S] = f[x] + h[R] /\ h[R] \in Int /\ h[S] \in Int
  BY <1>1 DEF Additive
<1> QED
  BY <1>1, <1>2, <1>3, <1>4

(* An element joins. *)
LEMMA SumInsert ==
    ASSUME NEW f, NEW g, NEW S, IsFiniteSet(S), NEW n, n \notin S, g[n] \in Int,
           \A x \in S : f[x] \in Int /\ g[x] = f[x]
    PROVE  SumOver(g, S \cup {n}) = SumOver(f, S) + g[n]
<1> DEFINE T == S \cup {n}
<1>1. IsFiniteSet(T) /\ n \in T /\ T \ {n} = S /\ \A x \in T : g[x] \in Int
  BY FS_AddElement
<1>2. SumOver(g, T) = g[n] + SumOver(g, T \ {n}) /\ SumOver(g, T \ {n}) \in Int
  <2> HIDE DEF T
  <2> QED
    BY <1>1, SumRemove
<1>3. SumOver(g, S) = SumOver(f, S)
  BY SumSame
<1>4. SumOver(g, T) = g[n] + SumOver(g, S) /\ SumOver(g, S) \in Int
  BY <1>1, <1>2
<1> HIDE DEF T
<1> QED
  BY <1>3, <1>4 DEF T

(* The value of one element changes. *)
LEMMA SumChange ==
    ASSUME NEW f, NEW g, NEW S, IsFiniteSet(S), NEW x \in S, g[x] \in Int,
           \A y \in S : f[y] \in Int /\ (y # x => g[y] = f[y])
    PROVE  SumOver(g, S) = SumOver(f, S) - f[x] + g[x]
<1> DEFINE R == S \ {x}
<1>1. IsFiniteSet(R) /\ \A y \in R : f[y] \in Int /\ f[y] = g[y]
  BY FS_Subset
<1>2. SumOver(f, R) = SumOver(g, R)
  BY <1>1, SumSame
<1>3. \A y \in S : f[y] \in Int
  OBVIOUS
<1>4. SumOver(f, S) = f[x] + SumOver(f, R) /\ SumOver(f, R) \in Int
  BY <1>3, SumRemove
<1>5. \A y \in S : g[y] \in Int
  OBVIOUS
<1>6. SumOver(g, S) = g[x] + SumOver(g, R)
  BY <1>5, SumRemove
<1> HIDE DEF R
<1> QED
  BY <1>2, <1>3, <1>4, <1>6

(* A sum of integers is an integer. *)
LEMMA SumType ==
    ASSUME NEW f, NEW S, IsFiniteSet(S), \A x \in S : f[x] \in Int
    PROVE  SumOver(f, S) \in Int
<1>1. PICK h : Additive(f, S, h) /\ SumOver(f, S) = h[S]
  BY SumAdditive
<1> QED
  BY <1>1 DEF Additive

(* Fewer elements with smaller values have a smaller sum. *)
LEMMA SumMonotone ==
    ASSUME NEW f, NEW g, NEW S, IsFiniteSet(S), NEW T, T \subseteq S,
           \A x \in S : f[x] \in Nat, \A x \in T : g[x] \in Nat /\ g[x] <= f[x]
    PROVE  SumOver(g, T) <= SumOver(f, S)
<1> DEFINE Below(U) == SumOver(g, U \cap T) <= SumOver(f, U)
           Bad == {U \in SUBSET S : ~Below(U)}
<1>1. ASSUME Bad # {}
      PROVE  FALSE
  <2>1. PICK U \in Bad : \A V \in SUBSET U : V # U => V \notin Bad
    <3>1. Bad \subseteq SUBSET S
      OBVIOUS
    <3> HIDE DEF Bad
    <3> QED
      BY <3>1, <1>1, LeastSubset
  <2>2. U \in SUBSET S /\ ~Below(U)
    OBVIOUS
  <2>3. U # {}
    <3>1. {} \cap T = {} /\ SumOver(g, {}) = 0 /\ SumOver(f, {}) = 0
      BY SumEmpty
    <3>2. Below({})
      BY <3>1
    <3> QED
      BY <2>2, <3>2
  <2>4. PICK x \in U : TRUE
    BY <2>3
  <2> DEFINE V == U \ {x}
  <2>5. V \in SUBSET U /\ V # U /\ V \in SUBSET S /\ V \cap T = (U \cap T) \ {x}
    BY <2>2
  <2>6. Below(V)
    BY <2>1, <2>5
  <2> HIDE DEF Bad
  <2>7. IsFiniteSet(U) /\ IsFiniteSet(U \cap T) /\ IsFiniteSet(V \cap T)
    BY <2>2, <2>5, FS_Subset
  <2>8. /\ \A y \in U \cap T : g[y] \in Int
        /\ \A y \in V \cap T : g[y] \in Int
        /\ f[x] \in Nat
    BY <2>2, <2>5
  <2>9. SumOver(f, U) = f[x] + SumOver(f, V) /\ SumOver(f, V) \in Int
    <3>1. IsFiniteSet(U) /\ \A y \in U : f[y] \in Int
      BY <2>2, <2>7
    <3>2. \A y \in U : /\ SumOver(f, U) = f[y] + SumOver(f, U \ {y})
                       /\ SumOver(f, U \ {y}) \in Int
      BY <3>1, SumRemove
    <3> QED
      BY <3>2
  <2>10. SumOver(g, V \cap T) \in Int
    BY <2>7, <2>8, SumType
  <2>11. CASE x \in T
    <3>1. g[x] \in Nat /\ g[x] <= f[x] /\ x \in U \cap T
      BY <2>11
    <3>2. SumOver(g, U \cap T) = g[x] + SumOver(g, (U \cap T) \ {x})
      BY <2>7, <2>8, <3>1, SumRemove
    <3>3. SumOver(g, U \cap T) = g[x] + SumOver(g, V \cap T)
      BY <2>5, <3>2
    <3> HIDE DEF V
    <3> QED
      BY <2>2, <2>6, <2>8, <2>9, <2>10, <3>1, <3>3
  <2>12. CASE x \notin T
    <3>1. U \cap T = V \cap T
      BY <2>5, <2>12
    <3> HIDE DEF V
    <3> QED
      BY <2>2, <2>6, <2>8, <2>9, <2>10, <3>1
  <2> QED
    BY <2>11, <2>12
<1>2. Below(S) /\ S \cap T = T
  BY <1>1
<1> QED
  BY <1>2

-----------------------------------------------------------------------------
(* Facts the steps share *)

(* The new object of a request is a well-formed order. *)
LEMMA NewOrderType ==
    ASSUME TypeOK, NEW req \in Request, NEW id \in Ref
    PROVE  /\ NewOrder(req, id) \in OrderRecord
           /\ NewOrder(req, id).id = id
           /\ NewOrder(req, id).side = req.side
           /\ NewOrder(req, id).price = req.price
           /\ NewOrder(req, id).type = req.type
           /\ NewOrder(req, id).qty = req.qty
           /\ req.side \in Side /\ req.price \in Price /\ req.qty \in Int
           /\ req.params \in SUBSET Param
<1>1. req \in OrderRequest /\ Price \subseteq Int
  BY BookAssumption
<1>2. /\ req.side \in Side /\ req.type \in {"MARKET", "LIMIT"} /\ req.price \in Price
      /\ req.stop_price \in Int /\ req.params \in SUBSET Param /\ req.expire_time \in Int
      /\ req.qty \in Int
  BY <1>1 DEF OrderRequest
<1>3. clock \in Nat
  BY BookAssumption DEF TypeOK
<1>4. id \in Nat
  BY BookAssumption DEF Ref
<1>5. NewOrder(req, id) \in OrderRecord
  BY <1>1, <1>2, <1>3, <1>4 DEF NewOrder, OrderRecord
<1> QED
  BY <1>2, <1>5 DEF NewOrder

(* What Create does to the objects. *)
LEMMA CreateFacts ==
    ASSUME TypeOK, NEW req \in Request, NEW id \in Ref \cup {0}, Create(req, id)
    PROVE  LET n == objects + 1
               i == IF id = 0 THEN n ELSE id
           IN /\ n \in Ref /\ i \in Ref
              /\ objects' = n
              /\ order' = [order EXCEPT ![n] = NewOrder(req, i)]
              /\ order' \in [Ref -> OrderRecord]
              /\ qty' = [qty EXCEPT ![n] = req.qty]
              /\ qty' \in [Ref -> Int]
              /\ objects' \in 0 .. MaxOrders
<1> DEFINE n == objects + 1
           i == IF id = 0 THEN n ELSE id
<1>1. n \in Ref /\ i \in Ref /\ objects' = n
  BY BookAssumption DEF TypeOK, Create, Ref
<1>2. order' = [order EXCEPT ![n] = NewOrder(req, i)] /\ qty' = [qty EXCEPT ![n] = req.qty]
  BY DEF Create
<1>3. NewOrder(req, i) \in OrderRecord /\ req.qty \in Int
  BY <1>1, NewOrderType
<1>4. order' \in [Ref -> OrderRecord] /\ qty' \in [Ref -> Int]
  <2> HIDE DEF n, i
  <2> QED
    BY <1>1, <1>2, <1>3 DEF TypeOK
<1>5. objects' \in 0 .. MaxOrders
  BY <1>1 DEF TypeOK, Ref
<1> QED
  BY <1>1, <1>2, <1>4, <1>5

(* What remove_limit_order does to the queues, the volumes and the index. *)
LEMMA RemoveType ==
    ASSUME TypeOK, NEW r \in Ref, NEW q \in Int, parent[r] \in Limit, order[r].id \in Ref,
           RemoveLimitOrder(r, q)
    PROVE  /\ queue' \in [Limit -> Seq(Ref)]
           /\ volume' \in [Limit -> Int]
           /\ index' \in [Ref -> Ref \cup {0}]
<1>1. Unlink(queue[parent[r]], r) \in Seq(Ref)
  BY UnlinkFacts DEF TypeOK
<1>2. Decrease(volume[parent[r]], q) \in Int
  BY DEF TypeOK, Decrease
<1> QED
  BY <1>1, <1>2 DEF TypeOK, RemoveLimitOrder

(* What add_limit_order does to the book. *)
LEMMA AddType ==
    ASSUME TypeOK, NEW n \in Ref, NEW s \in Side, NEW q \in Int, NEW l \in Limit,
           NEW qu \in [Limit -> Seq(Ref)], NEW vo \in [Limit -> Int],
           AddLimitOrder(n, s, q, l, qu, vo)
    PROVE  /\ parent' \in [Ref -> Limit \cup {NoLimit}]
           /\ tree' \in [Side -> [Price -> Limit \cup {NoLimit}]]
           /\ queue' \in [Limit -> Seq(Ref)]
           /\ volume' \in [Limit -> Int]
<1> DEFINE h == Home(s, l)
<1>1. l[2] \in Price
  BY DEF Limit
<1>2. h \in Limit
  BY <1>1 DEF Home, TypeOK
<1> HIDE DEF h
<1>3. parent' = [parent EXCEPT ![n] = h] /\ tree' = [tree EXCEPT ![s][l[2]] = h]
  BY DEF AddLimitOrder, h
<1>4. parent' \in [Ref -> Limit \cup {NoLimit}]
  BY <1>2, <1>3 DEF TypeOK
<1>5. tree' \in [Side -> [Price -> Limit \cup {NoLimit}]]
  BY <1>1, <1>2, <1>3 DEF TypeOK
<1>6. queue' \in [Limit -> Seq(Ref)]
  <2>1. qu[h] \in Seq(Ref)
    BY <1>2
  <2>2. Append(qu[h], n) \in Seq(Ref) /\ <<n>> \in Seq(Ref)
    BY <2>1
  <2> QED
    BY <1>2, <2>2 DEF AddLimitOrder, h
<1>7. volume' \in [Limit -> Int]
  BY <1>2 DEF AddLimitOrder, h
<1> QED
  BY <1>4, <1>5, <1>6, <1>7

-----------------------------------------------------------------------------
(* The type invariant *)

(* The objects in use, and the fields that say where they belong. *)
LEMMA CreatedFacts ==
    ASSUME TypeOK, CreatedInv, NEW r \in Created
    PROVE  /\ r \in Ref /\ order[r] \in OrderRecord
           /\ order[r].id \in Ref /\ order[r].side \in Side /\ order[r].price \in Price
<1>1. Created \subseteq Ref
  BY BookAssumption DEF TypeOK, Created, Ref
<1>2. order[r].id \in Created /\ order[r].price \in Price
  BY DEF CreatedInv
<1>3. order[r] \in OrderRecord
  BY <1>1 DEF TypeOK
<1> QED
  BY <1>1, <1>2, <1>3 DEF OrderRecord

(* What the index knows of an order. *)
LEMMA EntryFacts ==
    ASSUME TypeOK, EntriesLinked, NEW id \in Ref, index[id] # 0
    PROVE  /\ index[id] \in Ref /\ index[id] \in Created
           /\ order[index[id]].id = id
           /\ order[index[id]].side \in Side
           /\ parent[index[id]] \in Limit
<1> DEFINE r == index[id]
<1>1. r \in Ref /\ r \in Created
  BY BookAssumption DEF TypeOK, EntriesLinked, Created, Ref
<1>2. order[r].id = id /\ order[r].side \in Side
  BY <1>1 DEF EntriesLinked, TypeOK, OrderRecord
<1>3. \E p \in Price : parent[r] = <<order[r].side, p>>
  BY DEF EntriesLinked
<1> QED
  BY <1>1, <1>2, <1>3 DEF Limit

(* The same, without more than ShapeInv says. *)
LEMMA HeldFacts ==
    ASSUME TypeOK, EntriesInv, NEW id \in Ref, index[id] # 0
    PROVE  /\ index[id] \in Ref /\ index[id] \in Created
           /\ order[index[id]].id = id
           /\ order[index[id]].side \in Side
           /\ parent[index[id]] \in Limit
<1>1. index[id] \in Created /\ order[index[id]].id = id /\ parent[index[id]] \in Limit
  BY DEF EntriesInv
<1>2. index[id] \in Ref
  BY <1>1, BookAssumption DEF TypeOK, Created, Ref
<1>3. order[index[id]] \in OrderRecord
  BY <1>2 DEF TypeOK
<1> QED
  BY <1>1, <1>2, <1>3 DEF OrderRecord

(* cancel_order of a known id keeps the types. *)
LEMMA CancelType ==
    ASSUME TypeOK, EntriesInv, NEW id \in Ref, NEW sent \in Seq(Ref \cup {Dangling}),
           CancelEntry(id, sent)
    PROVE  /\ cancelled' \subseteq Ref
           /\ queue' \in [Limit -> Seq(Ref)]
           /\ volume' \in [Limit -> Int]
           /\ index' \in [Ref -> Ref \cup {0}]
           /\ stop' \in [Side -> SUBSET Ref]
           /\ outbox' \in Seq(Ref \cup {Dangling})
<1> DEFINE r == index[id]
<1>1. r \in Ref /\ order[r].id = id /\ parent[r] \in Limit /\ qty[r] \in Int /\ order[r].side \in Side
  BY HeldFacts DEF CancelEntry, TypeOK
<1>2. cancelled' = cancelled \cup {r} /\ \E x \in {r, Dangling} : outbox' = Append(sent, x)
  BY DEF CancelEntry
<1>3. cancelled' \subseteq Ref /\ outbox' \in Seq(Ref \cup {Dangling})
  <2> HIDE DEF r
  <2> QED
    BY <1>1, <1>2 DEF TypeOK
<1>4. CASE HasParam(r, {"STOP"})
  <2>1. RemoveStopOrder(order, r) /\ UNCHANGED <<queue, volume>>
    BY <1>4 DEF CancelEntry
  <2> QED
    BY <1>1, <1>3, <2>1 DEF TypeOK, RemoveStopOrder, StopRemove
<1>5. CASE ~HasParam(r, {"STOP"})
  <2>1. RemoveLimitOrder(r, qty[r]) /\ UNCHANGED stop
    BY <1>5 DEF CancelEntry
  <2> QED
    BY <1>1, <1>3, <2>1, RemoveType DEF TypeOK
<1> QED
  BY <1>4, <1>5

(* The side of the order being matched, and the levels it has to visit. *)
LEMMA TodoLevel ==
    ASSUME TypeOK, TreeShape, TakerInv, TodoInv, pc \in {"match", "fill"}
    PROVE  /\ taker \in Ref /\ TakerSide \in Side /\ Opposite(TakerSide) \in Side
           /\ \A p \in todo : LevelOf(p) = <<Opposite(TakerSide), p>> /\ LevelOf(p) \in Limit
<1>1. taker \in Ref
  BY BookAssumption DEF TakerInv, TypeOK, Created, Ref
<1>2. TakerSide \in Side
  BY <1>1 DEF TypeOK, OrderRecord, TakerSide
<1>3. Opposite(TakerSide) \in Side
  BY <1>2 DEF Opposite, Side
<1> QED
  BY <1>1, <1>2, <1>3 DEF TodoInv, Levels, LevelOf, TreeShape, Limit

(* The same, without the shape of the trees. *)
LEMMA TodoHeld ==
    ASSUME ShapeInv, pc \in {"match", "fill"}
    PROVE  /\ taker \in Created /\ taker \in Ref
           /\ TakerSide \in Side /\ Opposite(TakerSide) \in Side
           /\ \A p \in todo : p \in Price /\ LevelOf(p) \in Limit
<1> USE DEF ShapeInv
<1>1. taker \in Created /\ taker \in Ref /\ TakerSide \in Side
  <2>1. taker \in Created
    BY DEF MatchedInv
  <2> QED
    BY <2>1, CreatedFacts DEF TakerSide
<1>2. Opposite(TakerSide) \in Side
  BY <1>1 DEF Opposite, Side
<1>3. ASSUME NEW p \in todo
      PROVE  p \in Price /\ LevelOf(p) \in Limit
  <2>1. p \in Price /\ tree[Opposite(TakerSide)][p] # NoLimit
    BY DEF TodoInv, Levels
  <2> QED
    BY <1>2, <2>1 DEF LevelOf, TypeOK
<1> QED
  BY <1>1, <1>2, <1>3

(* The maker that process_limit_order has come to. *)
LEMMA WalkHead ==
    ASSUME TypeOK, TreeShape, CreatedInv, TakerInv, TodoInv, WalkInv, pc = "fill", walk # << >>
    PROVE  /\ taker \in Ref
           /\ Head(walk) \in Ref /\ Head(walk) \in Created /\ Head(walk) # taker
           /\ LevelOf(level) = <<Opposite(TakerSide), level>>
           /\ parent[Head(walk)] = LevelOf(level) /\ parent[Head(walk)] \in Limit
           /\ order[Head(walk)].id \in Ref
<1>1. /\ taker \in Ref /\ Opposite(TakerSide) \in Side
  BY TodoLevel
<1>2. 1 \in DOMAIN walk /\ Head(walk) = walk[1]
  BY DEF TypeOK
<1>3. Head(walk) \in Created /\ Head(walk) # taker /\ parent[Head(walk)] = LevelOf(level)
  BY <1>2 DEF WalkInv
<1>4. LevelOf(level) = <<Opposite(TakerSide), level>> /\ level \in Price
  BY <1>1 DEF WalkInv, LevelOf, TreeShape
<1>5. order[Head(walk)].id \in Ref /\ Head(walk) \in Ref
  BY <1>3, CreatedFacts
<1> QED
  BY <1>1, <1>3, <1>4, <1>5 DEF Limit

(* The same, without more than ShapeInv says. *)
LEMMA HeadOfWalk ==
    ASSUME ShapeInv, pc = "fill", walk # << >>
    PROVE  Head(walk) \in Created /\ parent[Head(walk)] \in Limit
<1>1. 1 \in DOMAIN walk /\ Head(walk) = walk[1]
  BY DEF ShapeInv, TypeOK
<1> QED
  BY <1>1 DEF ShapeInv, MatchedInv

(* resolve_orders leaves numbers. *)
LEMMA ResolvedInt ==
    ASSUME TypeOK, taker \in Ref, NEW m \in Ref
    PROVE  Resolved(m) \in [Ref -> Int]
<1>1. qty[m] \in Int /\ qty[taker] \in Int /\ qty \in [Ref -> Int]
  BY DEF TypeOK
<1>2. qty[m] - qty[taker] \in Int /\ qty[taker] - qty[m] \in Int
  BY <1>1
<1> QED
  BY <1>1, <1>2 DEF Resolved

(* resolve_orders leaves quantities that are not negative. *)
LEMMA ResolvedType ==
    ASSUME TypeOK, NaturalInv, taker \in Ref, NEW m \in Ref, m # taker
    PROVE  /\ Resolved(m) \in [Ref -> Nat]
           /\ Resolved(m)[m] # 0 => Resolved(m)[taker] = 0 \/ "AON" \in params[taker]
<1>1. qty[m] \in Nat /\ qty[taker] \in Nat
  BY DEF NaturalInv
<1>2. CASE qty[m] >= qty[taker]
  <2> DEFINE v == qty[m] - qty[taker]
  <2>1. v \in Nat
    BY <1>1, <1>2
  <2>2. Resolved(m) = [qty EXCEPT ![m] = v, ![taker] = 0]
    BY <1>2 DEF Resolved
  <2> HIDE DEF v
  <2>3. qty \in [Ref -> Nat]
    BY DEF NaturalInv
  <2>4. Resolved(m) \in [Ref -> Nat]
    BY <2>1, <2>2, <2>3
  <2>5. Resolved(m)[taker] = 0
    BY <2>2, <2>3
  <2> QED
    BY <2>4, <2>5
<1>3. CASE ~(qty[m] >= qty[taker]) /\ HasParam(taker, {"AON"})
  <2>1. "AON" \in params[taker]
    BY <1>3 DEF HasParam
  <2> QED
    BY <1>3, <2>1 DEF Resolved, NaturalInv
<1>4. CASE ~(qty[m] >= qty[taker]) /\ ~HasParam(taker, {"AON"})
  <2> DEFINE v == qty[taker] - qty[m]
  <2>1. v \in Nat
    BY <1>1, <1>4
  <2>2. Resolved(m) = [qty EXCEPT ![taker] = v, ![m] = 0]
    BY <1>4 DEF Resolved
  <2> HIDE DEF v
  <2>3. qty \in [Ref -> Nat]
    BY DEF NaturalInv
  <2>4. Resolved(m) \in [Ref -> Nat]
    BY <2>1, <2>2, <2>3
  <2>5. Resolved(m)[m] = 0
    BY <2>2, <2>3
  <2> QED
    BY <2>4, <2>5
<1> QED
  BY <1>2, <1>3, <1>4

(* Every step keeps the types, given what links the parts of the book. *)
LEMMA TypeStep ==
    ASSUME ShapeInv, [Next]_vars
    PROVE  TypeOK'
<1> USE DEF ShapeInv
<1>1. ASSUME NEW req \in Request, AddStopOrder(req)
      PROVE  TypeOK'
  <2>1. Create(req, 0)
    BY <1>1 DEF AddStopOrder
  <2>2. /\ objects + 1 \in Ref /\ objects' \in 0 .. MaxOrders
        /\ order' \in [Ref -> OrderRecord] /\ qty' \in [Ref -> Int]
    BY <2>1, CreateFacts
  <2>3. req.side \in Side /\ req.params \in SUBSET Param
    BY BookAssumption DEF OrderRequest
  <2>4. params' \in [Ref -> SUBSET Param]
    BY <1>1, <2>2, <2>3 DEF AddStopOrder, TypeOK
  <2>5. stop' \in [Side -> SUBSET Ref]
    BY <1>1, <2>2, <2>3 DEF AddStopOrder, TypeOK, StopInsert
  <2>6. date' \subseteq Ref
    BY <1>1, <2>2 DEF AddStopOrder, TypeOK, DateInsert
  <2>7. /\ outbox' \in Seq(Ref \cup {Dangling}) /\ trades' \in Seq(Ref \X Ref)
        /\ reply' \in [status: Status \cup {"NONE"}, order: Ref \cup {0}]
    BY <1>1, <2>2 DEF AddStopOrder, Status
  <2> QED
    BY <1>1, <2>2, <2>4, <2>5, <2>6, <2>7 DEF AddStopOrder, TypeOK, bookVars, matchVars
<1>2. ASSUME NEW req \in Request, AddOrder(req)
      PROVE  TypeOK'
  <2>1. Create(req, 0)
    BY <1>2 DEF AddOrder
  <2>2. /\ objects + 1 \in Ref /\ objects' \in 0 .. MaxOrders
        /\ order' \in [Ref -> OrderRecord] /\ qty' \in [Ref -> Int]
    BY <2>1, CreateFacts
  <2>3. req.side \in Side /\ req.params \in SUBSET Param /\ {"IOC"} \in SUBSET Param
    BY BookAssumption DEF OrderRequest, Param
  <2>4. params' \in [Ref -> SUBSET Param]
    BY <1>2, <2>2, <2>3 DEF AddOrder, TypeOK
  <2>5. /\ outbox' \in Seq(Ref \cup {Dangling}) /\ trades' \in Seq(Ref \X Ref)
        /\ taker' \in Ref \cup {0} /\ todo' \subseteq Price /\ pc' = "match"
    BY <1>2, <2>2 DEF AddOrder, Levels
  <2> QED
    BY <1>2, <2>2, <2>4, <2>5 DEF AddOrder, TypeOK, bookVars
<1>3. ASSUME NEW p \in Price, MatchSkip(p)
      PROVE  TypeOK'
  BY <1>3 DEF MatchSkip, TypeOK, bookVars
<1>4. ASSUME NEW p \in Price, MatchEnter(p)
      PROVE  TypeOK'
  <2>1. LevelOf(p) \in Limit
    BY <1>4, TodoHeld DEF MatchEnter, First
  <2>2. walk' \in Seq(Ref)
    BY <1>4, <2>1 DEF MatchEnter, TypeOK
  <2> QED
    BY <1>4, <2>2 DEF MatchEnter, TypeOK, bookVars
<1>5. CASE KillOrder
  <2>1. taker \in Ref
    BY <1>5, TodoHeld DEF KillOrder, NoMatch
  <2>2. reply' \in [status: Status \cup {"NONE"}, order: Ref \cup {0}]
    BY <1>5, <2>1 DEF KillOrder, Return, Status
  <2>3. walk' \in Seq(Ref) /\ cancelled' \subseteq Ref
    BY <1>5, <2>1 DEF KillOrder, Return, TypeOK
  <2> QED
    BY <1>5, <2>2, <2>3 DEF KillOrder, Return, TypeOK, bookVars
<1>6. CASE RestOrder
  <2>1. taker \in Ref /\ TakerSide \in Side /\ order[taker].price \in Price /\ order[taker].id \in Ref
    <3>1. taker \in Created
      BY <1>6 DEF RestOrder, NoMatch, MatchedInv
    <3> QED
      BY <3>1, CreatedFacts DEF TakerSide
  <2>2. <<TakerSide, order[taker].price>> \in Limit
    BY <2>1 DEF Limit
  <2>3. /\ parent' \in [Ref -> Limit \cup {NoLimit}]
        /\ tree' \in [Side -> [Price -> Limit \cup {NoLimit}]]
        /\ queue' \in [Limit -> Seq(Ref)]
        /\ volume' \in [Limit -> Int]
    BY <1>6, <2>1, <2>2, AddType DEF RestOrder, TypeOK
  <2>4. index' \in [Ref -> Ref \cup {0}] /\ date' \subseteq Ref /\ walk' \in Seq(Ref)
    BY <1>6, <2>1 DEF RestOrder, Return, DateInsert, TypeOK
  <2>5. reply' \in [status: Status \cup {"NONE"}, order: Ref \cup {0}]
    BY <1>6, <2>1 DEF RestOrder, Return, Status
  <2> QED
    BY <1>6, <2>3, <2>4, <2>5 DEF RestOrder, Return, TypeOK
<1>7. CASE ResolveOrders
  <2> DEFINE m == Head(walk)
  <2>1. taker \in Ref /\ m \in Ref /\ parent[m] \in Limit /\ order[m].id \in Ref
    <3>1. m \in Created /\ parent[m] \in Limit
      BY <1>7, HeadOfWalk DEF ResolveOrders
    <3> QED
      BY <1>7, <3>1, TodoHeld, CreatedFacts DEF ResolveOrders
  <2>2. qty' \in [Ref -> Int]
    BY <1>7, <2>1, ResolvedInt DEF ResolveOrders
  <2>3. queue' \in [Limit -> Seq(Ref)] /\ volume' \in [Limit -> Int] /\ index' \in [Ref -> Ref \cup {0}]
    BY <1>7, <2>1, <2>2, RemoveType DEF ResolveOrders, TypeOK
  <2>4. trades' \in Seq(Ref \X Ref)
    BY <1>7, <2>1 DEF ResolveOrders, TypeOK, TradeSeen
  <2>5. walk' \in Seq(Ref)
    BY <1>7 DEF ResolveOrders, TypeOK
  <2> QED
    BY <1>7, <2>2, <2>3, <2>4, <2>5 DEF ResolveOrders, TypeOK
<1>8. CASE LeaveLevel
  <2>1. taker \in Ref /\ level \in Int /\ order[taker].price \in Int
    BY <1>8, TodoHeld, BookAssumption DEF LeaveLevel, TypeOK, OrderRecord
  <2>2. market' \in Int
    BY <1>8, <2>1 DEF LeaveLevel, CrossPrice
  <2>3. reply' \in [status: Status \cup {"NONE"}, order: Ref \cup {0}]
    <3>1. reply' = reply \/ reply' = [status |-> "MATCHED", order |-> taker]
      BY <1>8 DEF LeaveLevel, Return
    <3>2. [status |-> "MATCHED", order |-> taker] \in [status: Status \cup {"NONE"}, order: Ref \cup {0}]
      BY <2>1 DEF Status
    <3> QED
      BY <3>1, <3>2 DEF TypeOK
  <2>4. walk' \in Seq(Ref)
    <3>1. walk' = walk \/ walk' = << >>
      BY <1>8 DEF LeaveLevel, Return, matchVars
    <3>2. << >> \in Seq(Ref)
      OBVIOUS
    <3> QED
      BY <3>1, <3>2 DEF TypeOK
  <2> QED
    BY <1>8, <2>2, <2>3, <2>4 DEF LeaveLevel, Return, TypeOK, bookVars, matchVars
<1>9. ASSUME NEW id \in Ref, CancelOrder(id)
      PROVE  TypeOK'
  <2>1. /\ cancelled' \subseteq Ref
        /\ queue' \in [Limit -> Seq(Ref)]
        /\ volume' \in [Limit -> Int]
        /\ index' \in [Ref -> Ref \cup {0}]
        /\ stop' \in [Side -> SUBSET Ref]
        /\ outbox' \in Seq(Ref \cup {Dangling})
    <3>1. CASE CancelEntry(id, << >>)
      <4>1. << >> \in Seq(Ref \cup {Dangling})
        OBVIOUS
      <4> QED
        BY <3>1, <4>1, CancelType
    <3>2. CASE outbox' = << >> /\ UNCHANGED <<cancelled, queue, volume, index, stop>>
      BY <3>2 DEF TypeOK
    <3> QED
      BY <1>9, <3>1, <3>2 DEF CancelOrder
  <2>2. reply' \in [status: Status \cup {"NONE"}, order: Ref \cup {0}] /\ trades' \in Seq(Ref \X Ref)
    BY <1>9 DEF CancelOrder, Status, TypeOK
  <2> QED
    BY <1>9, <2>1, <2>2 DEF CancelOrder, TypeOK, matchVars
<1>10. ASSUME NEW id \in Ref, ModifyNotFound(id)
       PROVE  TypeOK'
  <2>1. /\ reply' \in [status: Status \cup {"NONE"}, order: Ref \cup {0}]
        /\ outbox' \in Seq(Ref \cup {Dangling}) /\ trades' \in Seq(Ref \X Ref)
    BY <1>10 DEF ModifyNotFound, Status
  <2> QED
    BY <1>10, <2>1 DEF ModifyNotFound, TypeOK, bookVars, matchVars
<1>11. ASSUME NEW id \in Ref, NEW req \in Request, ModifyOrder(id, req)
       PROVE  TypeOK'
  <2> DEFINE n == objects + 1
             r == index[id]
             l == parent[r]
  <2>1. Create(req, id)
    BY <1>11 DEF ModifyOrder
  <2>2. /\ n \in Ref /\ objects' \in 0 .. MaxOrders
        /\ order' \in [Ref -> OrderRecord] /\ qty' \in [Ref -> Int]
    BY <2>1, CreateFacts
  <2>3. req.side \in Side /\ req.params \in SUBSET Param /\ req.qty \in Int
    BY BookAssumption DEF OrderRequest
  <2>4. r \in Ref /\ l \in Limit /\ qty[r] \in Int
    BY <1>11, HeldFacts DEF ModifyOrder, TypeOK
  <2>5. params' \in [Ref -> SUBSET Param] /\ cancelled' \subseteq Ref /\ index' \in [Ref -> Ref \cup {0}]
    BY <1>11, <2>2, <2>3, <2>4 DEF ModifyOrder, TypeOK
  <2>6. /\ reply' \in [status: Status \cup {"NONE"}, order: Ref \cup {0}]
        /\ outbox' \in Seq(Ref \cup {Dangling}) /\ trades' \in Seq(Ref \X Ref)
    BY <1>11, <2>2 DEF ModifyOrder, Status
  <2>7. /\ parent' \in [Ref -> Limit \cup {NoLimit}]
        /\ tree' \in [Side -> [Price -> Limit \cup {NoLimit}]]
        /\ queue' \in [Limit -> Seq(Ref)]
        /\ volume' \in [Limit -> Int]
        /\ stop' \in [Side -> SUBSET Ref]
    <3>1. CASE HasParam(r, {"STOP"})
      <4>1. stop' = [stop EXCEPT ![req.side] = StopInsert(order', @, n)] /\ UNCHANGED bookVars
        BY <1>11, <3>1 DEF ModifyOrder
      <4> QED
        BY <2>2, <2>3, <4>1 DEF StopInsert, bookVars, TypeOK
    <3>2. CASE ~HasParam(r, {"STOP"})
      <4> DEFINE qu == [queue EXCEPT ![l] = Unlink(@, r)]
                 vo == [volume EXCEPT ![l] = Decrease(@, qty[r])]
      <4>1. AddLimitOrder(n, req.side, req.qty, l, qu, vo) /\ UNCHANGED stop
        BY <1>11, <3>2 DEF ModifyOrder
      <4>2. qu \in [Limit -> Seq(Ref)]
        <5>1. Unlink(queue[l], r) \in Seq(Ref)
          BY <2>4, UnlinkFacts DEF TypeOK
        <5> HIDE DEF l
        <5> QED
          BY <2>4, <5>1 DEF TypeOK
      <4>3. vo \in [Limit -> Int]
        <5>1. Decrease(volume[l], qty[r]) \in Int
          BY <2>4 DEF TypeOK, Decrease
        <5> HIDE DEF l
        <5> QED
          BY <2>4, <5>1 DEF TypeOK
      <4> HIDE DEF qu, vo, n, l
      <4> QED
        BY <2>2, <2>3, <2>4, <4>1, <4>2, <4>3, AddType DEF TypeOK
    <3> QED
      BY <3>1, <3>2
  <2> QED
    BY <1>11, <2>2, <2>5, <2>6, <2>7 DEF ModifyOrder, TypeOK, matchVars
<1>12. CASE CheckDateOrders
  <2>1. outbox' \in Seq(Ref \cup {Dangling}) /\ trades' \in Seq(Ref \X Ref)
    BY <1>12 DEF CheckDateOrders
  <2> QED
    BY <1>12, <2>1 DEF CheckDateOrders, TypeOK, bookVars, matchVars
<1>13. ASSUME NEW r \in Ref, ExpireOrder(r)
       PROVE  TypeOK'
  <2>1. order[r].id \in Ref
    <3>1. r \in Created
      BY <1>13 DEF ExpireOrder, Earliest, CreatedInv
    <3> QED
      BY <3>1, CreatedFacts
  <2>2. /\ cancelled' \subseteq Ref
        /\ queue' \in [Limit -> Seq(Ref)]
        /\ volume' \in [Limit -> Int]
        /\ index' \in [Ref -> Ref \cup {0}]
        /\ stop' \in [Side -> SUBSET Ref]
        /\ outbox' \in Seq(Ref \cup {Dangling})
    <3>1. CASE CancelEntry(order[r].id, outbox)
      BY <3>1, <2>1, CancelType DEF TypeOK
    <3>2. CASE UNCHANGED <<cancelled, queue, volume, index, stop, outbox>>
      BY <3>2 DEF TypeOK
    <3> QED
      BY <1>13, <3>1, <3>2 DEF ExpireOrder
  <2> QED
    BY <1>13, <2>2 DEF ExpireOrder, TypeOK, matchVars
<1>14. CASE ExpireDone
  BY <1>14 DEF ExpireDone, DateRemove, TypeOK, bookVars, matchVars
<1>15. CASE Tick
  BY <1>15, BookAssumption DEF Tick, TypeOK, bookVars, matchVars
<1>16. CASE UNCHANGED vars
  BY <1>16 DEF vars, TypeOK, bookVars, matchVars
<1> QED
  BY <1>1, <1>2, <1>3, <1>4, <1>5, <1>6, <1>7, <1>8, <1>9, <1>10, <1>11, <1>12, <1>13, <1>14,
     <1>15, <1>16 DEF Next, Submit, Match, Expire

(* Objects are added and never changed. *)
LEMMA ObjectsStay ==
    ASSUME ShapeInv, [Next]_vars
    PROVE  /\ objects' \in Nat /\ objects <= objects'
           /\ Created \subseteq Created'
           /\ \A x \in Created : order'[x] = order[x]
           /\ \A x \in Created' : x \notin Created =>
                /\ order'[x].id \in Created' /\ order'[x].id <= x /\ order'[x].price \in Price
<1> USE DEF ShapeInv
<1>0. objects \in Nat /\ MaxOrders \in Nat
  BY BookAssumption DEF TypeOK
<1>1. ASSUME NEW req \in Request, NEW id \in Ref \cup {0}, Create(req, id),
             id # 0 => id \in Created
      PROVE  /\ objects' = objects + 1
             /\ \A x \in Created : order'[x] = order[x]
             /\ order'[objects + 1].id \in Created' /\ order'[objects + 1].id <= objects + 1
             /\ order'[objects + 1].price \in Price
  <2>1. PICK n \in Ref : n = objects + 1
    BY <1>1, CreateFacts
  <2>2. PICK i \in Ref : i = IF id = 0 THEN n ELSE id
    BY <2>1
  <2>3. objects' = n /\ order' = [order EXCEPT ![n] = NewOrder(req, i)] /\ order \in [Ref -> OrderRecord]
    BY <1>1, <2>1, <2>2, CreateFacts DEF TypeOK
  <2>4. NewOrder(req, i).id = i /\ NewOrder(req, i).price \in Price
    BY NewOrderType
  <2>5. order'[n] = NewOrder(req, i) /\ \A x \in Created : order'[x] = order[x]
    BY <2>1, <2>3, <1>0 DEF Created
  <2>6. i \in Created' /\ i <= n
    BY <1>0, <1>1, <2>1, <2>2, <2>3 DEF Created
  <2> QED
    BY <2>1, <2>3, <2>4, <2>5, <2>6
<1>2. ASSUME objects' = objects + 1, \A x \in Created : order'[x] = order[x],
             order'[objects + 1].id \in Created', order'[objects + 1].id <= objects + 1,
             order'[objects + 1].price \in Price
      PROVE  /\ objects' \in Nat /\ objects <= objects'
             /\ Created \subseteq Created'
             /\ \A x \in Created : order'[x] = order[x]
             /\ \A x \in Created' : x \notin Created =>
                  /\ order'[x].id \in Created' /\ order'[x].id <= x /\ order'[x].price \in Price
  <2>1. objects' \in Nat /\ objects <= objects' /\ Created \subseteq Created'
    BY <1>0, <1>2 DEF Created
  <2>2. \A x \in Created' : x \notin Created => x = objects + 1
    BY <1>0, <1>2 DEF Created
  <2> QED
    BY <1>2, <2>1, <2>2
<1>3. ASSUME NEW req \in Request, AddStopOrder(req) \/ AddOrder(req)
      PROVE  Create(req, 0)
  BY <1>3 DEF AddStopOrder, AddOrder
<1>4. ASSUME NEW id \in Ref, NEW req \in Request, ModifyOrder(id, req)
      PROVE  Create(req, id) /\ id \in Created
  <2>1. Create(req, id) /\ index[id] # 0
    BY <1>4 DEF ModifyOrder
  <2>2. index[id] \in Created /\ order[index[id]].id = id
    BY <2>1, HeldFacts
  <2> QED
    BY <2>1, <2>2 DEF CreatedInv
<1>5. CASE UNCHANGED <<objects, order>>
  BY <1>0, <1>5 DEF Created
<1>6. CASE \E req \in Request : AddStopOrder(req) \/ AddOrder(req)
  <2>1. PICK req \in Request : Create(req, 0)
    BY <1>6, <1>3
  <2> QED
    BY <2>1, <1>1, <1>2
<1>7. CASE \E id \in Ref, req \in Request : ModifyOrder(id, req)
  <2>1. PICK id \in Ref, req \in Request : Create(req, id) /\ id \in Created
    BY <1>7, <1>4
  <2> QED
    BY <2>1, <1>1, <1>2
<1> QED
  BY <1>5, <1>6, <1>7 DEF Next, Submit, Match, Expire, MatchSkip, MatchEnter, KillOrder, RestOrder,
     ResolveOrders, LeaveLevel, CancelOrder, ModifyNotFound, CheckDateOrders, ExpireOrder,
     ExpireDone, Tick, vars

(* Every order a list holds is an object that has been put in a level. *)
LinkedInv(qu, pa, C) ==
    \A l \in Limit : \A i \in DOMAIN qu[l] : qu[l][i] \in C /\ pa[qu[l][i]] \in Limit

(* Unlinking from a list keeps that. *)
LEMMA UnlinkShape ==
    ASSUME TypeOK, NEW C, LinkedInv(queue, parent, C), NEW k \in Limit, NEW r,
           NEW qu, qu = [queue EXCEPT ![k] = Unlink(@, r)]
    PROVE  LinkedInv(qu, parent, C) /\ qu \in [Limit -> Seq(Ref)]
<1>1. queue[k] \in Seq(Ref) /\ queue \in [Limit -> Seq(Ref)]
  BY DEF TypeOK
<1>2. \A j \in DOMAIN Unlink(queue[k], r) : \E i \in DOMAIN queue[k] : Unlink(queue[k], r)[j] = queue[k][i]
  BY <1>1, UnlinkFacts
<1>3. Unlink(queue[k], r) \in Seq(Ref)
  BY <1>1, UnlinkFacts
<1>4. \A l \in Limit : l # k => qu[l] = queue[l]
  BY <1>1
<1>5. qu[k] = Unlink(queue[k], r)
  BY <1>1
<1>6. qu \in [Limit -> Seq(Ref)]
  BY <1>1, <1>3
<1> HIDE DEF Unlink
<1>7. ASSUME NEW l \in Limit, NEW i \in DOMAIN qu[l]
      PROVE  qu[l][i] \in C /\ parent[qu[l][i]] \in Limit
  <2>1. CASE l = k
    <3>1. PICK j \in DOMAIN queue[k] : qu[k][i] = queue[k][j]
      BY <1>2, <1>5, <1>7, <2>1
    <3> QED
      BY <2>1, <3>1 DEF LinkedInv
  <2>2. CASE l # k
    BY <1>4, <1>7, <2>2 DEF LinkedInv
  <2> QED
    BY <2>1, <2>2
<1> QED
  BY <1>6, <1>7 DEF LinkedInv

(* So does add_limit_order, which puts the order itself into a Limit, and   *)
(* no level leaves a tree.                                                  *)
LEMMA AddShape ==
    ASSUME TypeOK, NEW n \in Ref, NEW s \in Side, NEW q, NEW l \in Limit,
           NEW qu \in [Limit -> Seq(Ref)], NEW vo, NEW C, NEW D, C \subseteq D, n \in D,
           LinkedInv(qu, parent, C), AddLimitOrder(n, s, q, l, qu, vo)
    PROVE  /\ LinkedInv(queue', parent', D)
           /\ parent'[n] \in Limit
           /\ \A x \in Ref : parent[x] \in Limit => parent'[x] \in Limit
           /\ \A t \in Side : Levels(t) \subseteq Levels(t)'
<1> DEFINE k == Home(s, l)
<1>1. l[2] \in Price
  BY DEF Limit
<1>2. PICK h \in Limit : h = Home(s, l)
  <2>1. Home(s, l) \in Limit
    BY <1>1 DEF Home, TypeOK
  <2> QED
    BY <2>1
<1>3. /\ parent' = [parent EXCEPT ![n] = h]
      /\ tree' = [tree EXCEPT ![s][l[2]] = h]
      /\ queue' = [qu EXCEPT ![h] = IF tree[s][l[2]] # NoLimit THEN Append(@, n) ELSE <<n>>]
  BY <1>2 DEF AddLimitOrder
<1>4. parent'[n] \in Limit /\ \A x \in Ref : parent[x] \in Limit => parent'[x] \in Limit
  BY <1>2, <1>3 DEF TypeOK
<1>5. h # NoLimit
  BY <1>2, BookAssumption
<1>6. ASSUME NEW t \in Side, NEW p \in Levels(t)
      PROVE  p \in Levels(t)'
  <2>1. p \in Price /\ tree[t][p] # NoLimit
    BY DEF Levels
  <2>2. tree'[t][p] = tree[t][p] \/ tree'[t][p] = h
    BY <1>1, <1>3, <2>1 DEF TypeOK
  <2> QED
    BY <1>5, <2>1, <2>2 DEF Levels
<1>7. ASSUME NEW m \in Limit, NEW i \in DOMAIN queue'[m]
      PROVE  queue'[m][i] \in D /\ parent'[queue'[m][i]] \in Limit
  <2>1. queue'[m] = qu[m] \/ queue'[m] = Append(qu[m], n) \/ queue'[m] = <<n>>
    BY <1>2, <1>3
  <2>2. qu[m] \in Seq(Ref)
    OBVIOUS
  <2>3. queue'[m][i] = n \/ (i \in DOMAIN qu[m] /\ queue'[m][i] = qu[m][i])
    <3>1. CASE queue'[m] = qu[m]
      BY <1>7, <3>1
    <3>2. CASE queue'[m] = <<n>>
      <4>1. i = 1 /\ queue'[m][1] = n
        BY <1>7, <3>2
      <4> QED
        BY <4>1
    <3>3. CASE queue'[m] = Append(qu[m], n)
      <4>1. i \in 1 .. Len(qu[m]) + 1
        BY <1>7, <2>2, <3>3
      <4>2. i = Len(qu[m]) + 1 => queue'[m][i] = n
        BY <2>2, <3>3
      <4>3. i \in 1 .. Len(qu[m]) => i \in DOMAIN qu[m] /\ queue'[m][i] = qu[m][i]
        BY <2>2, <3>3
      <4> QED
        BY <2>2, <4>1, <4>2, <4>3
    <3> QED
      BY <2>1, <3>1, <3>2, <3>3
  <2>4. i \in DOMAIN qu[m] => qu[m][i] \in Ref
    BY <2>2
  <2> QED
    BY <1>4, <2>3, <2>4 DEF LinkedInv
<1> QED
  BY <1>4, <1>6, <1>7 DEF LinkedInv

(* No step takes a level out of a tree or an order out of its Limit. *)
LEMMA LevelsStay ==
    ASSUME ShapeInv, [Next]_vars
    PROVE  /\ LinkedInv(queue', parent', Created')
           /\ \A x \in Ref : parent[x] \in Limit => parent'[x] \in Limit
           /\ RestOrder => parent'[taker] \in Limit
           /\ \A t \in Side : Levels(t) \subseteq Levels(t)'
<1> USE DEF ShapeInv
<1>0. LinkedInv(queue, parent, Created) /\ Created \subseteq Created'
  BY ObjectsStay DEF MatchedInv, LinkedInv
<1>1. ASSUME LinkedInv(queue', parent, Created), UNCHANGED <<parent, tree>>, ~RestOrder
      PROVE  /\ LinkedInv(queue', parent', Created')
             /\ \A x \in Ref : parent[x] \in Limit => parent'[x] \in Limit
             /\ RestOrder => parent'[taker] \in Limit
             /\ \A t \in Side : Levels(t) \subseteq Levels(t)'
  BY <1>0, <1>1 DEF LinkedInv, Levels
<1>2. CASE UNCHANGED <<parent, tree, queue>> /\ ~RestOrder
  <2>1. LinkedInv(queue', parent, Created)
    BY <1>0, <1>2 DEF LinkedInv
  <2> QED
    BY <2>1, <1>1, <1>2
<1>3. ASSUME NEW r \in Created, NEW q, parent[r] \in Limit, RemoveLimitOrder(r, q)
      PROVE  LinkedInv(queue', parent, Created)
  <2>1. queue' = [queue EXCEPT ![parent[r]] = Unlink(@, r)]
    BY <1>3 DEF RemoveLimitOrder
  <2>2. PICK k \in Limit : k = parent[r]
    BY <1>3
  <2> QED
    BY <1>0, <2>1, <2>2, UnlinkShape
<1>4. ASSUME NEW id \in Ref, NEW sent, CancelEntry(id, sent)
      PROVE  LinkedInv(queue', parent, Created)
  <2>1. index[id] \in Created /\ parent[index[id]] \in Limit
    BY <1>4, HeldFacts DEF CancelEntry
  <2>2. CASE UNCHANGED queue
    BY <1>0, <2>2 DEF LinkedInv
  <2>3. CASE RemoveLimitOrder(index[id], qty[index[id]])
    BY <2>1, <2>3, <1>3
  <2> QED
    BY <1>4, <2>2, <2>3 DEF CancelEntry
<1>5. ASSUME NEW id \in Ref, CancelOrder(id)
      PROVE  LinkedInv(queue', parent, Created) /\ UNCHANGED <<parent, tree>> /\ ~RestOrder
  <2>1. CASE UNCHANGED queue
    BY <1>0, <1>5, <2>1 DEF LinkedInv, CancelOrder, RestOrder, NoMatch
  <2> QED
    BY <1>4, <1>5, <2>1 DEF CancelOrder, RestOrder, NoMatch
<1>6. ASSUME NEW r \in Ref, ExpireOrder(r)
      PROVE  LinkedInv(queue', parent, Created) /\ UNCHANGED <<parent, tree>> /\ ~RestOrder
  <2>0. order[r].id \in Ref
    <3>1. r \in Created
      BY <1>6 DEF ExpireOrder, Earliest, CreatedInv
    <3> QED
      BY <3>1, CreatedFacts
  <2>1. CASE UNCHANGED queue
    BY <1>0, <1>6, <2>1 DEF LinkedInv, ExpireOrder, RestOrder, NoMatch
  <2> QED
    BY <1>4, <1>6, <2>0, <2>1 DEF ExpireOrder, RestOrder, NoMatch
<1>7. ASSUME ResolveOrders
      PROVE  LinkedInv(queue', parent, Created) /\ UNCHANGED <<parent, tree>> /\ ~RestOrder
  <2>1. Head(walk) \in Created /\ parent[Head(walk)] \in Limit
    BY <1>7, HeadOfWalk DEF ResolveOrders
  <2>2. UNCHANGED queue \/ RemoveLimitOrder(Head(walk), qty'[Head(walk)])
    BY <1>7 DEF ResolveOrders
  <2>3. LinkedInv(queue', parent, Created)
    <3>1. CASE UNCHANGED queue
      BY <1>0, <3>1 DEF LinkedInv
    <3> QED
      BY <1>3, <2>1, <2>2, <3>1
  <2> QED
    BY <1>7, <2>3 DEF ResolveOrders, RestOrder, NoMatch
<1>8. CASE RestOrder
  <2>1. taker \in Ref /\ taker \in Created' /\ TakerSide \in Side /\ order[taker].price \in Price
    <3>1. taker \in Created
      BY <1>8 DEF RestOrder, NoMatch, MatchedInv
    <3> QED
      BY <1>0, <3>1, CreatedFacts DEF TakerSide
  <2>2. PICK l \in Limit : l = <<TakerSide, order[taker].price>>
    BY <2>1 DEF Limit
  <2>3. AddLimitOrder(taker, TakerSide, qty[taker], l, queue, volume)
    BY <1>8, <2>2 DEF RestOrder
  <2>4. queue \in [Limit -> Seq(Ref)]
    BY DEF TypeOK
  <2> QED
    BY <1>0, <2>1, <2>3, <2>4, AddShape
<1>9. ASSUME NEW id \in Ref, NEW req \in Request, ModifyOrder(id, req),
             ~HasParam(index[id], {"STOP"})
      PROVE  /\ LinkedInv(queue', parent', Created')
             /\ \A x \in Ref : parent[x] \in Limit => parent'[x] \in Limit
             /\ \A t \in Side : Levels(t) \subseteq Levels(t)'
  <2>1. index[id] \in Ref /\ parent[index[id]] \in Limit
    BY <1>9, HeldFacts DEF ModifyOrder
  <2>2. PICK n \in Ref : n = objects + 1 /\ n \in Created'
    <3>1. Create(req, id)
      BY <1>9 DEF ModifyOrder
    <3>2. objects + 1 \in Ref /\ objects' = objects + 1
      BY <3>1, CreateFacts
    <3> QED
      BY <3>2 DEF Created, Ref
  <2>3. PICK l \in Limit : l = parent[index[id]]
    BY <2>1
  <2>4. PICK qu : qu = [queue EXCEPT ![l] = Unlink(@, index[id])]
    OBVIOUS
  <2>5. LinkedInv(qu, parent, Created) /\ qu \in [Limit -> Seq(Ref)]
    BY <1>0, <2>4, UnlinkShape
  <2>6. AddLimitOrder(n, req.side, req.qty, l, qu, [volume EXCEPT ![l] = Decrease(@, qty[index[id]])])
    BY <1>9, <2>2, <2>3, <2>4 DEF ModifyOrder
  <2>7. req.side \in Side
    BY BookAssumption DEF OrderRequest
  <2> QED
    BY <1>0, <2>2, <2>5, <2>6, <2>7, AddShape
<1>10. ASSUME NEW id \in Ref, NEW req \in Request, ModifyOrder(id, req)
       PROVE  /\ ~RestOrder
              /\ HasParam(index[id], {"STOP"}) => UNCHANGED <<parent, tree, queue>>
  BY <1>10 DEF ModifyOrder, RestOrder, NoMatch, bookVars
<1>11. CASE \E id \in Ref, req \in Request : ModifyOrder(id, req)
  BY <1>2, <1>9, <1>10, <1>11
<1>12. CASE (\E id \in Ref : CancelOrder(id)) \/ (\E r \in Ref : ExpireOrder(r)) \/ ResolveOrders
  BY <1>1, <1>5, <1>6, <1>7, <1>12
<1>13. ASSUME \/ \E req \in Request : AddStopOrder(req) \/ AddOrder(req)
              \/ \E id \in Ref : ModifyNotFound(id)
              \/ CheckDateOrders \/ ExpireDone \/ Tick
              \/ \E p \in Price : MatchSkip(p) \/ MatchEnter(p)
              \/ KillOrder \/ LeaveLevel \/ UNCHANGED vars,
              ~RestOrder
       PROVE  UNCHANGED <<parent, tree, queue>>
  BY <1>13 DEF AddStopOrder, AddOrder, ModifyNotFound, CheckDateOrders, ExpireDone, Tick,
     MatchSkip, MatchEnter, KillOrder, LeaveLevel, vars, bookVars
<1> QED
  BY <1>2, <1>8, <1>11, <1>12, <1>13 DEF Next, Submit, Match, Expire

(* What an action does to the index, the set of cancelled orders and the   *)
(* date tree.                                                               *)
LEMMA HeldStay ==
    ASSUME ShapeInv, [Next]_vars
    PROVE  /\ cancelled' \subseteq Created' /\ date' \subseteq Created'
           /\ \A id \in Ref : index'[id] # 0 =>
                \/ index'[id] = index[id]
                \/ RestOrder /\ index'[id] = taker /\ id = order[taker].id
<1> USE DEF ShapeInv
<1>0. Created \subseteq Created' /\ cancelled \subseteq Created /\ date \subseteq Created
  BY ObjectsStay DEF CreatedInv
<1>1. ASSUME NEW req \in Request, AddStopOrder(req) \/ AddOrder(req)
      PROVE  objects + 1 \in Created'
  <2>1. Create(req, 0)
    BY <1>1 DEF AddStopOrder, AddOrder
  <2> QED
    BY <2>1, CreateFacts DEF Created, Ref
<1>2. ASSUME NEW id \in Ref, NEW sent, CancelEntry(id, sent)
      PROVE  /\ cancelled' \subseteq Created'
             /\ \A i \in Ref : index'[i] # 0 => index'[i] = index[i]
  <2>1. PICK r \in Created : r = index[id] /\ order[r].id = id
    BY <1>2, HeldFacts DEF CancelEntry
  <2>2. index' = [index EXCEPT ![id] = 0] /\ cancelled' = cancelled \cup {r}
    BY <1>2, <2>1 DEF CancelEntry, RemoveStopOrder, RemoveLimitOrder
  <2> QED
    BY <1>0, <2>1, <2>2 DEF TypeOK
<1>3. ASSUME NEW id \in Ref, CancelOrder(id)
      PROVE  /\ cancelled' \subseteq Created' /\ date' = date
             /\ \A i \in Ref : index'[i] # 0 => index'[i] = index[i]
  BY <1>0, <1>2, <1>3 DEF CancelOrder
<1>4. ASSUME NEW r \in Ref, ExpireOrder(r)
      PROVE  /\ cancelled' \subseteq Created' /\ date' = date
             /\ \A i \in Ref : index'[i] # 0 => index'[i] = index[i]
  <2>1. r \in Created
    BY <1>4 DEF ExpireOrder, Earliest, CreatedInv
  <2>2. order[r].id \in Ref
    BY <2>1, CreatedFacts
  <2> QED
    BY <1>0, <1>2, <1>4, <2>2 DEF ExpireOrder
<1>5. ASSUME NEW id \in Ref, NEW req \in Request, ModifyOrder(id, req)
      PROVE  /\ cancelled' \subseteq Created' /\ date' = date
             /\ \A i \in Ref : index'[i] # 0 => index'[i] = index[i]
  <2>1. index[id] \in Created
    BY <1>5, HeldFacts DEF ModifyOrder
  <2>2. index' = [index EXCEPT ![id] = 0] /\ cancelled' = cancelled \cup {index[id]} /\ date' = date
    BY <1>5 DEF ModifyOrder
  <2> QED
    BY <1>0, <2>1, <2>2 DEF TypeOK
<1>6. CASE ResolveOrders
  <2>1. UNCHANGED <<cancelled, date>>
    BY <1>6 DEF ResolveOrders
  <2>2. index' = index \/ index' = [index EXCEPT ![order[Head(walk)].id] = 0]
    BY <1>6 DEF ResolveOrders, RemoveLimitOrder
  <2>3. \A i \in Ref : index'[i] # 0 => index'[i] = index[i]
    BY <2>2 DEF TypeOK
  <2> QED
    BY <1>0, <2>1, <2>3
<1>7. CASE RestOrder
  <2>1. taker \in Created
    BY <1>7 DEF RestOrder, NoMatch, MatchedInv
  <2>2. /\ cancelled' = cancelled /\ date' \subseteq date \cup {taker}
        /\ index' = [index EXCEPT ![order[taker].id] = taker]
    BY <1>7 DEF RestOrder, DateInsert
  <2> QED
    BY <1>0, <1>7, <2>1, <2>2 DEF TypeOK
<1>8. CASE KillOrder
  <2>1. taker \in Created
    BY <1>8 DEF KillOrder, NoMatch, MatchedInv
  <2>2. cancelled' = cancelled \cup {taker} /\ UNCHANGED <<date, index>>
    BY <1>8 DEF KillOrder
  <2> QED
    BY <1>0, <2>1, <2>2
<1>9. CASE \E req \in Request : AddStopOrder(req) \/ AddOrder(req)
  <2>1. PICK req \in Request : AddStopOrder(req) \/ AddOrder(req)
    BY <1>9
  <2>2. date' \subseteq date \cup {objects + 1} /\ UNCHANGED <<cancelled, index>>
    BY <2>1 DEF AddStopOrder, AddOrder, DateInsert
  <2> QED
    BY <1>0, <1>1, <2>1, <2>2
<1>10. CASE \/ \E id \in Ref : ModifyNotFound(id)
            \/ CheckDateOrders \/ ExpireDone \/ Tick
            \/ \E p \in Price : MatchSkip(p) \/ MatchEnter(p)
            \/ LeaveLevel \/ UNCHANGED vars
  <2>1. date' \subseteq date /\ UNCHANGED <<cancelled, index>>
    BY <1>10 DEF ModifyNotFound, CheckDateOrders, ExpireDone, DateRemove, Tick,
       MatchSkip, MatchEnter, LeaveLevel, vars
  <2> QED
    BY <1>0, <2>1
<1> QED
  BY <1>0, <1>3, <1>4, <1>5, <1>6, <1>7, <1>8, <1>9, <1>10 DEF Next, Submit, Match, Expire

(* A match in progress goes on with the same order. *)
LEMMA MatchStays ==
    ASSUME ShapeInv, [Next]_vars, pc' \in {"match", "fill"}
    PROVE  /\ taker' \in Created'
           /\ todo' \subseteq Levels(Opposite(TakerSide))'
           /\ pc' = "fill" => \A i \in DOMAIN walk' : walk'[i] \in Created' /\ parent'[walk'[i]] \in Limit
<1> USE DEF ShapeInv
<1>1. ASSUME NEW req \in Request, AddOrder(req)
      PROVE  /\ taker' \in Created' /\ pc' = "match"
             /\ todo' \subseteq Levels(Opposite(TakerSide))'
  <2>1. Create(req, 0)
    BY <1>1 DEF AddOrder
  <2>2. PICK n \in Ref : n = objects + 1 /\ objects' = n
    BY <2>1, CreateFacts
  <2>3. order' = [order EXCEPT ![n] = NewOrder(req, n)] /\ order \in [Ref -> OrderRecord]
    BY <2>1, <2>2, CreateFacts DEF TypeOK
  <2>4. order'[n].side = req.side
    BY <2>3, NewOrderType
  <2>5. taker' = n /\ pc' = "match" /\ todo' = Levels(Opposite(req.side)) /\ tree' = tree
    BY <1>1, <2>2 DEF AddOrder, bookVars
  <2> QED
    BY <2>2, <2>4, <2>5 DEF TakerSide, Levels, Created, Ref
<1>2. ASSUME pc \in {"match", "fill"}, taker' = taker, todo' \subseteq todo, UNCHANGED tree
      PROVE  /\ taker' \in Created'
             /\ todo' \subseteq Levels(Opposite(TakerSide))'
  <2>1. taker \in Created /\ taker \in Created' /\ order'[taker] = order[taker]
    BY <1>2, ObjectsStay DEF MatchedInv
  <2>2. TakerSide' = TakerSide
    BY <1>2, <2>1 DEF TakerSide
  <2>3. todo \subseteq Levels(Opposite(TakerSide))
    BY <1>2 DEF TodoInv
  <2> QED
    BY <1>2, <2>1, <2>2, <2>3 DEF Levels
<1>3. ASSUME NEW p \in Price, MatchSkip(p)
      PROVE  pc = "match" /\ pc' = "match" /\ taker' = taker /\ todo' \subseteq todo /\ UNCHANGED tree
  BY <1>3 DEF MatchSkip, bookVars
<1>4. ASSUME NEW p \in Price, MatchEnter(p)
      PROVE  /\ pc = "match" /\ taker' = taker /\ todo' \subseteq todo /\ UNCHANGED tree
             /\ \A i \in DOMAIN walk' : walk'[i] \in Created' /\ parent'[walk'[i]] \in Limit
  <2>1. PICK k \in Limit : k = LevelOf(p)
    BY <1>4, TodoHeld DEF MatchEnter, First
  <2>2. walk' = queue[k] /\ UNCHANGED queue
    BY <1>4, <2>1 DEF MatchEnter, bookVars
  <2>3. LinkedInv(queue', parent', Created')
    BY LevelsStay
  <2> QED
    BY <1>4, <2>1, <2>2, <2>3 DEF MatchEnter, bookVars, LinkedInv
<1>5. ASSUME pc = "fill", \A i \in DOMAIN walk' : \E j \in DOMAIN walk : walk'[i] = walk[j]
      PROVE  \A i \in DOMAIN walk' : walk'[i] \in Created' /\ parent'[walk'[i]] \in Limit
  <2>1. \A j \in DOMAIN walk : walk[j] \in Created /\ walk[j] \in Ref /\ parent[walk[j]] \in Limit
    BY <1>5, CreatedFacts DEF MatchedInv
  <2> QED
    BY <1>5, <2>1, ObjectsStay, LevelsStay
<1>6. CASE ResolveOrders
  <2>1. pc = "fill" /\ taker' = taker /\ todo' \subseteq todo /\ UNCHANGED tree /\ walk' = Tail(walk)
    BY <1>6 DEF ResolveOrders
  <2>2. walk \in Seq(Ref) /\ walk # << >>
    BY <1>6 DEF ResolveOrders, TypeOK
  <2>3. \A i \in DOMAIN walk' : i + 1 \in DOMAIN walk /\ walk'[i] = walk[i + 1]
    BY <2>1, <2>2
  <2> QED
    BY <1>2, <1>5, <2>1, <2>3
<1>7. CASE LeaveLevel
  <2>1. pc = "fill" /\ pc' = "match" /\ taker' = taker /\ todo' \subseteq todo /\ UNCHANGED tree
    BY <1>7 DEF LeaveLevel, Return, matchVars, bookVars
  <2> QED
    BY <1>2, <2>1
<1>8. CASE UNCHANGED vars
  <2>1. pc \in {"match", "fill"} /\ taker' = taker /\ todo' \subseteq todo /\ UNCHANGED <<tree, walk, pc>>
    BY <1>8 DEF vars, bookVars, matchVars
  <2> QED
    BY <1>2, <1>5, <2>1
<1>9. ASSUME \/ \E req \in Request : AddStopOrder(req)
             \/ \E id \in Ref : CancelOrder(id) \/ ModifyNotFound(id)
             \/ \E id \in Ref, req \in Request : ModifyOrder(id, req)
             \/ CheckDateOrders \/ (\E r \in Ref : ExpireOrder(r)) \/ ExpireDone \/ Tick
             \/ KillOrder \/ RestOrder
      PROVE  pc' \in {"idle", "expire"}
  BY <1>9 DEF AddStopOrder, CancelOrder, ModifyNotFound, ModifyOrder, CheckDateOrders, ExpireOrder,
     ExpireDone, Tick, KillOrder, RestOrder, Return
<1> QED
  BY <1>1, <1>2, <1>3, <1>4, <1>6, <1>7, <1>8, <1>9 DEF Next, Submit, Match, Expire

(* ShapeInv is inductive. *)
LEMMA ShapeStep ==
    ASSUME ShapeInv, [Next]_vars
    PROVE  ShapeInv'
<1> USE DEF ShapeInv
<1>1. TypeOK'
  BY TypeStep
<1>2. CreatedInv'
  <2>1. ASSUME NEW x \in Created'
        PROVE  order'[x].id \in Created' /\ order'[x].id <= x /\ order'[x].price \in Price
    <3>1. CASE x \in Created
      BY <3>1, ObjectsStay DEF CreatedInv
    <3> QED
      BY <3>1, ObjectsStay
  <2> QED
    BY <2>1, HeldStay DEF CreatedInv
<1>3. EntriesInv'
  <2> SUFFICES ASSUME NEW id \in Ref, index'[id] # 0
               PROVE  /\ index'[id] \in Created'
                      /\ order'[index'[id]].id = id
                      /\ parent'[index'[id]] \in Limit
    BY DEF EntriesInv
  <2>1. CASE index'[id] = index[id]
    <3>1. index[id] \in Created /\ index[id] \in Ref /\ order[index[id]].id = id /\ parent[index[id]] \in Limit
      BY <2>1, HeldFacts
    <3> QED
      BY <2>1, <3>1, ObjectsStay, LevelsStay
  <2>2. CASE RestOrder /\ index'[id] = taker /\ id = order[taker].id
    <3>1. taker \in Created
      BY <2>2 DEF RestOrder, NoMatch, MatchedInv
    <3> QED
      BY <2>2, <3>1, ObjectsStay, LevelsStay
  <2> QED
    BY <2>1, <2>2, HeldStay
<1>4. MatchedInv'
  <2>1. LinkedInv(queue', parent', Created')
    BY LevelsStay
  <2> QED
    BY <2>1, MatchStays DEF MatchedInv, LinkedInv
<1>5. TodoInv'
  BY MatchStays DEF TodoInv
<1> QED
  BY <1>1, <1>2, <1>3, <1>4, <1>5

(* The initial book has that shape. *)
LEMMA ShapeInit == Init => ShapeInv
<1> SUFFICES ASSUME Init PROVE ShapeInv
  OBVIOUS
<1>1. Created = {}
  BY DEF Init, Created
<1>2. TypeOK
  <2>1. BlankOrder \in OrderRecord
    BY DEF BlankOrder, OrderRecord, Side
  <2>2. MaxOrders \in Nat /\ MaxClock \in Nat /\ InitialPrice \in Int
    BY BookAssumption
  <2>3. reply \in [status: Status \cup {"NONE"}, order: Ref \cup {0}]
    BY DEF Init
  <2> QED
    BY <2>1, <2>2, <2>3 DEF Init, TypeOK
<1>3. CreatedInv
  BY <1>1 DEF Init, CreatedInv
<1>4. EntriesInv /\ MatchedInv /\ TodoInv
  BY DEF Init, EntriesInv, MatchedInv, TodoInv
<1> QED
  BY <1>2, <1>3, <1>4 DEF ShapeInv

(* No step changes the parameters of an object but set_params, on the one   *)
(* add_order has just been given.                                           *)
LEMMA ParamsStay ==
    ASSUME ShapeInv, [Next]_vars, NEW x \in Created
    PROVE  params'[x] = params[x]
<1> USE DEF ShapeInv
<1>1. x \in Ref /\ x # objects + 1 /\ params \in [Ref -> SUBSET Param]
  BY CreatedFacts, BookAssumption DEF TypeOK, Created
<1>2. UNCHANGED params \/ \E v : params' = [params EXCEPT ![objects + 1] = v]
  BY DEF Next, Submit, Match, Expire, AddStopOrder, AddOrder, CancelOrder, ModifyNotFound,
     ModifyOrder, CheckDateOrders, MatchSkip, MatchEnter, KillOrder, RestOrder, ResolveOrders,
     LeaveLevel, ExpireOrder, ExpireDone, Tick, vars
<1> QED
  BY <1>1, <1>2

(* Requests of the past have been regular if those up to now have. *)
LEMMA RegularBefore ==
    ASSUME ShapeInv, [Next]_vars, Regular'
    PROVE  Regular
<1>1. ASSUME NEW r \in Created
      PROVE  order[r].side = order[order[r].id].side /\ order[r].qty >= 0
  <2>1. order[r].id \in Created /\ r \in Created'
    BY ObjectsStay DEF ShapeInv, CreatedInv
  <2>2. order'[r] = order[r] /\ order'[order[r].id] = order[order[r].id]
    BY <2>1, ObjectsStay
  <2>3. order'[r].side = order'[order'[r].id].side /\ order'[r].qty >= 0
    BY <2>1 DEF Regular, SidesKept, NoneNegative
  <2> QED
    BY <2>2, <2>3
<1> QED
  BY <1>1 DEF Regular, SidesKept, NoneNegative

-----------------------------------------------------------------------------
(* What regular requests add to that *)

(* BookInv is stronger than ShapeInv. *)
LEMMA BookShape == BookInv => ShapeInv
<1> SUFFICES ASSUME BookInv PROVE ShapeInv
  OBVIOUS
<1> USE DEF BookInv
<1>1. EntriesInv
  BY EntryFacts DEF EntriesInv
<1>2. ASSUME pc = "fill", NEW i \in DOMAIN walk
      PROVE  walk[i] \in Created /\ parent[walk[i]] \in Limit
  <2>1. /\ level \in Price /\ LevelOf(level) # NoLimit
        /\ walk[i] \in Created /\ parent[walk[i]] = LevelOf(level)
    BY <1>2 DEF WalkInv
  <2>2. Opposite(TakerSide) \in Side
    BY <1>2, TodoLevel
  <2> QED
    BY <2>1, <2>2 DEF LevelOf, TypeOK
<1>3. MatchedInv
  BY <1>2 DEF MatchedInv, TakerInv, ParentInv
<1> QED
  BY <1>1, <1>3 DEF ShapeInv

(* A modification of regular requests keeps the side of its order. *)
LEMMA SideKept ==
    ASSUME BookInv, Regular', NEW id \in Ref, NEW req \in Request, ModifyOrder(id, req)
    PROVE  req.side = order[index[id]].side
<1>1. ShapeInv /\ TypeOK /\ CreatedInv /\ EntriesLinked
  BY BookShape DEF BookInv
<1>2. [Next]_vars
  BY DEF Next, Submit
<1>3. Regular
  BY <1>1, <1>2, RegularBefore
<1>4. Create(req, id) /\ index[id] # 0
  BY DEF ModifyOrder
<1>5. PICK r \in Created : r = index[id] /\ order[r].id = id
  BY <1>1, <1>4, EntryFacts
<1>6. id \in Created /\ order[r].side = order[id].side
  BY <1>1, <1>3, <1>5 DEF CreatedInv, Regular, SidesKept
<1>7. PICK n \in Ref : n = objects + 1
  BY <1>1, <1>4, CreateFacts
<1>8. order' = [order EXCEPT ![n] = NewOrder(req, id)] /\ objects' = n /\ order \in [Ref -> OrderRecord]
  <2>1. id # 0
    BY BookAssumption DEF Ref
  <2> QED
    BY <1>1, <1>4, <1>7, <2>1, CreateFacts DEF TypeOK
<1>9. order'[n].side = req.side /\ order'[n].id = id
  BY <1>1, <1>8, NewOrderType
<1>10. n \in Created' /\ order'[id] = order[id]
  BY <1>1, <1>2, <1>6, <1>7, <1>8, ObjectsStay, BookAssumption DEF Created, TypeOK, Ref
<1>11. order'[n].side = order'[order'[n].id].side
  BY <1>10 DEF Regular, SidesKept
<1> QED
  BY <1>5, <1>6, <1>9, <1>10, <1>11

(* remove_limit_order of a quantity leaves volumes that are not negative. *)
LEMMA RemoveNatural ==
    ASSUME TypeOK, NaturalInv, NEW r, NEW q \in Nat, RemoveLimitOrder(r, q)
    PROVE  volume' \in [Limit -> Nat]
<1>1. volume' = [volume EXCEPT ![parent[r]] = Decrease(@, q)] /\ volume \in [Limit -> Nat]
  BY DEF RemoveLimitOrder, NaturalInv
<1>2. \A v \in Nat : Decrease(v, q) \in Nat
  BY DEF Decrease
<1> QED
  BY <1>1, <1>2

(* Neither does cancel_order. *)
LEMMA CancelNatural ==
    ASSUME BookInv, NEW id \in Ref, NEW sent, CancelEntry(id, sent)
    PROVE  volume' \in [Limit -> Nat]
<1> USE DEF BookInv
<1>1. PICK r \in Ref : r = index[id]
  BY DEF CancelEntry, TypeOK
<1>2. qty[r] \in Nat
  BY DEF NaturalInv
<1>3. UNCHANGED volume \/ RemoveLimitOrder(r, qty[r])
  BY <1>1 DEF CancelEntry
<1> QED
  BY <1>2, <1>3, RemoveNatural DEF NaturalInv

(* add_limit_order of a quantity neither. *)
LEMMA AddNatural ==
    ASSUME NEW n, NEW s, NEW q \in Nat, NEW l, NEW qu, NEW vo \in [Limit -> Nat],
           AddLimitOrder(n, s, q, l, qu, vo)
    PROVE  volume' \in [Limit -> Nat]
<1>1. PICK h : volume' = [vo EXCEPT ![h] = @ + q]
  BY DEF AddLimitOrder
<1>2. \A v \in Nat : v + q \in Nat
  OBVIOUS
<1> QED
  BY <1>1, <1>2

(* Regular requests leave quantities and volumes that are not negative. *)
LEMMA NaturalStep ==
    ASSUME BookInv, Regular', [Next]_vars
    PROVE  NaturalInv'
<1> USE DEF BookInv
<1>1. qty \in [Ref -> Nat] /\ volume \in [Limit -> Nat]
  BY DEF NaturalInv
<1>2. ASSUME NEW req \in Request, NEW id \in Ref \cup {0}, Create(req, id)
      PROVE  qty' \in [Ref -> Nat] /\ req.qty \in Nat
  <2>1. PICK n \in Ref : n = objects + 1
    BY <1>2, CreateFacts
  <2>2. PICK i \in Ref : i = IF id = 0 THEN n ELSE id
    BY <2>1
  <2>3. /\ order' = [order EXCEPT ![n] = NewOrder(req, i)] /\ order \in [Ref -> OrderRecord]
        /\ objects' = n /\ qty' = [qty EXCEPT ![n] = req.qty]
    BY <1>2, <2>1, <2>2, CreateFacts DEF TypeOK
  <2>4. order'[n].qty = req.qty /\ req.qty \in Int
    BY <2>3, NewOrderType
  <2>5. n \in Created'
    BY <2>3, BookAssumption DEF Created, Ref
  <2>6. req.qty >= 0
    BY <2>4, <2>5 DEF Regular, NoneNegative
  <2> QED
    BY <1>1, <2>3, <2>4, <2>6
<1>3. ASSUME NEW req \in Request, AddStopOrder(req) \/ AddOrder(req)
      PROVE  NaturalInv'
  <2>1. Create(req, 0) /\ UNCHANGED volume
    BY <1>3 DEF AddStopOrder, AddOrder, bookVars
  <2> QED
    BY <1>1, <1>2, <2>1 DEF NaturalInv
<1>4. CASE ResolveOrders
  <2>1. pc = "fill" /\ walk # << >>
    BY <1>4 DEF ResolveOrders
  <2>2. PICK m \in Ref : m = Head(walk) /\ m # taker /\ taker \in Ref
    BY <2>1, WalkHead
  <2>3. qty' = Resolved(m) /\ (UNCHANGED volume \/ RemoveLimitOrder(m, qty'[m]))
    BY <1>4, <2>2 DEF ResolveOrders
  <2>4. Resolved(m) \in [Ref -> Nat]
    BY <2>2, ResolvedType
  <2>5. PICK q \in Nat : q = qty'[m]
    BY <2>3, <2>4
  <2> QED
    BY <1>1, <2>3, <2>4, <2>5, RemoveNatural DEF NaturalInv
<1>5. CASE RestOrder
  <2>1. taker \in Ref
    BY <1>5, TodoLevel DEF RestOrder, NoMatch
  <2>2. PICK q \in Nat : q = qty[taker]
    BY <1>1, <2>1
  <2>3. /\ AddLimitOrder(taker, TakerSide, q, <<TakerSide, order[taker].price>>, queue, volume)
        /\ UNCHANGED qty
    BY <1>5, <2>2 DEF RestOrder
  <2> QED
    BY <1>1, <2>3, AddNatural DEF NaturalInv
<1>6. ASSUME NEW id \in Ref, NEW req \in Request, ModifyOrder(id, req)
      PROVE  NaturalInv'
  <2>1. Create(req, id)
    BY <1>6 DEF ModifyOrder
  <2>2. PICK r \in Ref : r = index[id]
    BY <1>6 DEF ModifyOrder, TypeOK
  <2>3. PICK l : l = parent[r]
    OBVIOUS
  <2>4. \/ UNCHANGED volume
        \/ AddLimitOrder(objects + 1, req.side, req.qty, l, [queue EXCEPT ![l] = Unlink(@, r)],
                         [volume EXCEPT ![l] = Decrease(@, qty[r])])
    BY <1>6, <2>2, <2>3 DEF ModifyOrder, bookVars
  <2>5. [volume EXCEPT ![l] = Decrease(@, qty[r])] \in [Limit -> Nat]
    <3>1. \A v \in Nat : Decrease(v, qty[r]) \in Nat
      BY <1>1 DEF Decrease
    <3> QED
      BY <1>1, <3>1
  <2> QED
    BY <1>1, <1>2, <2>1, <2>4, <2>5, AddNatural DEF NaturalInv
<1>7. ASSUME NEW id \in Ref, CancelOrder(id)
      PROVE  NaturalInv'
  <2>1. UNCHANGED qty /\ (UNCHANGED volume \/ CancelEntry(id, << >>))
    BY <1>7 DEF CancelOrder
  <2> QED
    BY <1>1, <2>1, CancelNatural DEF NaturalInv
<1>8. ASSUME NEW r \in Ref, ExpireOrder(r)
      PROVE  NaturalInv'
  <2>1. UNCHANGED qty /\ (UNCHANGED volume \/ CancelEntry(order[r].id, outbox))
    BY <1>8 DEF ExpireOrder
  <2>2. PICK id \in Ref : id = order[r].id
    BY <1>8, CreatedFacts DEF ExpireOrder, Earliest, CreatedInv
  <2> QED
    BY <1>1, <2>1, <2>2, CancelNatural DEF NaturalInv
<1>9. ASSUME UNCHANGED <<qty, volume>>
      PROVE  NaturalInv'
  BY <1>1, <1>9 DEF NaturalInv
<1>10. ASSUME \/ \E id \in Ref : ModifyNotFound(id)
              \/ CheckDateOrders \/ ExpireDone \/ Tick
              \/ \E p \in Price : MatchSkip(p) \/ MatchEnter(p)
              \/ KillOrder \/ LeaveLevel \/ UNCHANGED vars
       PROVE  UNCHANGED <<qty, volume>>
  BY <1>10 DEF ModifyNotFound, CheckDateOrders, ExpireDone, Tick, MatchSkip, MatchEnter,
     KillOrder, LeaveLevel, vars, bookVars
<1> QED
  BY <1>3, <1>4, <1>5, <1>6, <1>7, <1>8, <1>9, <1>10 DEF Next, Submit, Match, Expire

-----------------------------------------------------------------------------
(* Steps that leave the book alone *)

(* What the index says of one object. *)
EntrySound(id, r) ==
    /\ r <= objects
    /\ order[r].id = id
    /\ r \notin cancelled
    /\ \E p \in Price : parent[r] = <<order[r].side, p>> /\ tree[order[r].side][p] = parent[r]
    /\ Linked(r, parent[r])

(* EntriesLinked, entry by entry. *)
LEMMA EntryOf ==
    ASSUME TypeOK, EntriesLinked, NEW id \in Ref, NEW r \in Ref, index[id] = r
    PROVE  EntrySound(id, r) /\ r \in Created
<1>1. r # 0 /\ r >= 1 /\ r \in Int
  BY BookAssumption DEF Ref
<1>2. EntrySound(id, r)
  BY <1>1 DEF EntriesLinked, EntrySound
<1> QED
  BY <1>1, <1>2 DEF EntrySound, Created, TypeOK

(* It is enough to show every entry of the new index sound. *)
LEMMA IndexByEntry ==
    ASSUME TypeOK', \A id, r \in Ref : index'[id] = r => EntrySound(id, r)'
    PROVE  EntriesLinked'
<1>1. SUFFICES ASSUME NEW id \in Ref, index'[id] # 0
               PROVE  \E r \in Ref : index'[id] = r /\ EntrySound(id, r)'
  BY <1>1 DEF EntriesLinked, EntrySound
<1>2. index'[id] \in Ref
  BY <1>1 DEF TypeOK
<1> QED
  BY <1>2

(* A step that leaves the fields, the Limit and the link of an object alone *)
(* leaves its entry sound.                                                  *)
LEMMA EntryKept ==
    ASSUME TypeOK, NEW id, NEW r, EntrySound(id, r),
           objects' \in Int, objects' >= objects, r <= objects, r \in Ref,
           order'[r] = order[r], r \notin cancelled', parent'[r] = parent[r],
           \A s \in Side, p \in Price : tree[s][p] # NoLimit => tree'[s][p] = tree[s][p],
           \E i \in DOMAIN queue'[parent[r]] : queue'[parent[r]][i] = r
    PROVE  EntrySound(id, r)'
<1>1. order[r].side \in Side
  BY DEF TypeOK, OrderRecord
<1>2. PICK p \in Price : parent[r] = <<order[r].side, p>> /\ tree[order[r].side][p] = parent[r]
  BY DEF EntrySound
<1>3. tree[order[r].side][p] # NoLimit
  BY <1>1, <1>2, BookAssumption DEF Limit
<1>4. tree'[order[r].side][p] = parent[r]
  BY <1>1, <1>2, <1>3
<1>5. r <= objects'
  BY BookAssumption DEF TypeOK, Ref
<1>6. order'[r].id = id
  BY DEF EntrySound
<1> QED
  BY <1>2, <1>4, <1>5, <1>6 DEF EntrySound, Linked

(* A step that enters nothing in the index keeps it sound when the objects  *)
(* it leaves there stay where they are.                                     *)
LEMMA IndexKept ==
    ASSUME TypeOK, TypeOK', EntriesLinked, objects' >= objects,
           \A x \in Created : order'[x] = order[x],
           \A s \in Side, p \in Price : tree[s][p] # NoLimit => tree'[s][p] = tree[s][p],
           \A id, r \in Ref : index'[id] = r =>
               /\ index[id] = r
               /\ r \notin cancelled'
               /\ parent'[r] = parent[r]
               /\ \E i \in DOMAIN queue'[parent[r]] : queue'[parent[r]][i] = r
    PROVE  EntriesLinked'
<1>1. SUFFICES ASSUME NEW id \in Ref, NEW r \in Ref, index'[id] = r
               PROVE  EntrySound(id, r)'
  BY IndexByEntry
<1>2. /\ index[id] = r /\ r \notin cancelled' /\ parent'[r] = parent[r]
      /\ \E i \in DOMAIN queue'[parent[r]] : queue'[parent[r]][i] = r
  BY <1>1
<1>3. EntrySound(id, r) /\ r \in Created
  BY <1>2, EntryOf
<1>4. r <= objects /\ objects' \in Int
  BY <1>3 DEF EntrySound, TypeOK
<1> QED
  BY <1>2, <1>3, <1>4, EntryKept

(* What a new object changes for the ones there are. *)
LEMMA CreateKeeps ==
    ASSUME TypeOK, CreatedInv, NEW req \in Request, NEW id \in Created \cup {0}, Create(req, id)
    PROVE  LET n == objects + 1 IN
           /\ n \in Ref /\ n \notin Created /\ n \in Created' /\ Created \subseteq Created'
           /\ objects' = n /\ objects' >= objects /\ n > objects
           /\ \A x \in Created : x \in Ref /\ x # n /\ order'[x] = order[x]
           /\ order'[n].side = req.side /\ order'[n].price = req.price
           /\ \A r \in Created' : /\ order'[r].id \in Created'
                                  /\ order'[r].id <= r
                                  /\ order'[r].price \in Price
<1> DEFINE n == objects + 1
           i == IF id = 0 THEN n ELSE id
<1>1. id \in Ref \cup {0}
  BY BookAssumption DEF TypeOK, Created, Ref
<1>2. /\ n \in Ref /\ i \in Ref /\ objects' = n
      /\ order' = [order EXCEPT ![n] = NewOrder(req, i)]
  BY <1>1, CreateFacts
<1>3. objects \in Nat
  BY BookAssumption DEF TypeOK
<1>4. n \notin Created /\ n \in Created' /\ Created' = Created \cup {n} /\ n > objects
  BY <1>2, <1>3 DEF Created
<1>5. i \in Created' /\ i <= n
  BY <1>3, <1>4 DEF Created
<1>6. \A x \in Created : x \in Ref /\ x # n
  BY <1>4, CreatedFacts
<1> HIDE DEF n, i
<1>7. order \in [Ref -> OrderRecord]
  BY DEF TypeOK
<1>8. order'[n] = NewOrder(req, i) /\ \A x \in Created : order'[x] = order[x]
  BY <1>2, <1>6, <1>7
<1>9. order'[n].id = i /\ order'[n].side = req.side /\ order'[n].price = req.price /\ req.price \in Price
  BY <1>2, <1>8, NewOrderType
<1>10. ASSUME NEW r \in Created'
       PROVE  order'[r].id \in Created' /\ order'[r].id <= r /\ order'[r].price \in Price
  <2>1. CASE r = n
    BY <1>5, <1>9, <2>1
  <2>2. CASE r \in Created
    BY <1>4, <1>8, <2>2 DEF CreatedInv
  <2> QED
    BY <1>4, <2>1, <2>2
<1>11. objects' >= objects
  BY <1>2, <1>3 DEF n
<1> QED
  BY <1>2, <1>4, <1>6, <1>8, <1>9, <1>10, <1>11 DEF n

(* add_order keeps a stop order aside. *)
LEMMA AddStopStep ==
    ASSUME BookInv, TypeOK', NaturalInv', NEW req \in Request, AddStopOrder(req)
    PROVE  BookInv'
<1> USE DEF BookInv
<1> DEFINE n == objects + 1
<1>1. Create(req, 0)
  BY DEF AddStopOrder
<1>2. /\ n \in Ref /\ n \in Created' /\ Created \subseteq Created' /\ objects' >= objects
      /\ \A x \in Created : x \in Ref /\ x # n /\ order'[x] = order[x]
      /\ \A r \in Created' : /\ order'[r].id \in Created' /\ order'[r].id <= r
                             /\ order'[r].price \in Price
  BY <1>1, CreateKeeps
<1> HIDE DEF n
<1>3. UNCHANGED <<cancelled, parent, tree, queue, index, pc>> /\ pc = "idle"
  BY DEF AddStopOrder, bookVars
<1>4. date' \subseteq date \cup {n}
  BY DEF AddStopOrder, DateInsert, n
<1>5. TreeShape' /\ NoCross' /\ TakerInv' /\ TodoInv' /\ WalkInv' /\ SweepInv'
  BY <1>3 DEF TreeShape, NoCross, TakerInv, TodoInv, WalkInv, SweepInv
<1>6. CreatedInv'
  BY <1>2, <1>3, <1>4 DEF CreatedInv
<1>7. ParentInv'
  BY <1>2, <1>3 DEF ParentInv
<1>8. EntriesLinked'
  <2>1. ASSUME NEW id \in Ref, NEW r \in Ref, index'[id] = r
        PROVE  /\ index[id] = r /\ r \notin cancelled' /\ parent'[r] = parent[r]
               /\ \E i \in DOMAIN queue'[parent[r]] : queue'[parent[r]][i] = r
    <3>1. EntrySound(id, r) /\ index[id] = r
      BY <1>3, <2>1, EntryOf
    <3> QED
      BY <1>3, <3>1 DEF EntrySound, Linked
  <2> QED
    BY <1>2, <1>3, <2>1, IndexKept
<1> QED
  BY <1>5, <1>6, <1>7, <1>8
(* add_order hands the order to match_order. *)
LEMMA AddOrderStep ==
    ASSUME BookInv, TypeOK', NaturalInv', NEW req \in Request, AddOrder(req)
    PROVE  BookInv'
<1> USE DEF BookInv
<1> DEFINE n == objects + 1
<1>1. Create(req, 0)
  BY DEF AddOrder
<1>2. /\ n \in Ref /\ n \in Created' /\ n \notin Created /\ Created \subseteq Created' /\ objects' >= objects
      /\ \A x \in Created : x \in Ref /\ x # n /\ order'[x] = order[x]
      /\ order'[n].side = req.side
      /\ \A r \in Created' : /\ order'[r].id \in Created' /\ order'[r].id <= r
                             /\ order'[r].price \in Price
  BY <1>1, CreateKeeps
<1> HIDE DEF n
<1>3. /\ UNCHANGED <<cancelled, parent, tree, queue, index, date>> /\ pc' = "match" /\ taker' = n
      /\ todo' = Levels(Opposite(req.side))
  BY DEF AddOrder, bookVars, n
<1>4. TreeShape' /\ NoCross' /\ WalkInv'
  BY <1>3 DEF TreeShape, NoCross, WalkInv
<1>5. CreatedInv'
  BY <1>2, <1>3 DEF CreatedInv
<1>6. ParentInv'
  BY <1>2, <1>3 DEF ParentInv
<1>7. ASSUME NEW id \in Ref, NEW r \in Ref, index'[id] = r
      PROVE  /\ index[id] = r /\ r \notin cancelled' /\ parent'[r] = parent[r]
             /\ r \in Created
             /\ \E i \in DOMAIN queue'[parent[r]] : queue'[parent[r]][i] = r
  <2>1. EntrySound(id, r) /\ index[id] = r /\ r \in Created
    BY <1>3, <1>7, EntryOf
  <2> QED
    BY <1>3, <2>1 DEF EntrySound, Linked
<1>8. EntriesLinked'
  BY <1>2, <1>3, <1>7, IndexKept
<1>9. TakerInv'
  <2>1. \A id \in Ref : index'[id] # n
    BY <1>2, <1>7
  <2>2. n \notin cancelled'
    BY <1>2, <1>3 DEF CreatedInv
  <2>3. \A l \in Limit : \A i \in DOMAIN queue'[l] : queue'[l][i] # n
    BY <1>2, <1>3 DEF ParentInv
  <2> QED
    BY <1>2, <1>3, <2>1, <2>2, <2>3 DEF TakerInv
<1>10. todo' = Levels(Opposite(TakerSide))'
  BY <1>2, <1>3 DEF TakerSide, Levels, Opposite
<1>11. TodoInv'
  BY <1>10 DEF TodoInv
<1>12. SweepInv'
  BY <1>3, <1>10 DEF SweepInv
<1> QED
  BY <1>4, <1>5, <1>6, <1>8, <1>9, <1>11, <1>12

(* A step that touches neither the objects nor the book. *)
LEMMA SameBook ==
    ASSUME BookInv, TypeOK', NaturalInv', date' \subseteq date,
           UNCHANGED <<objects, order, cancelled, parent, tree, queue, index>>
    PROVE  TreeShape' /\ CreatedInv' /\ ParentInv' /\ EntriesLinked' /\ NoCross'
<1> USE DEF BookInv
<1>1. TreeShape' /\ NoCross' /\ ParentInv'
  BY DEF TreeShape, NoCross, ParentInv, Created
<1>2. CreatedInv'
  BY DEF CreatedInv, Created
<1>3. EntriesLinked'
  BY DEF EntriesLinked, Linked
<1> QED
  BY <1>1, <1>2, <1>3

(* Requests and steps that are over without a match in progress. *)
LEMMA QuietStep ==
    ASSUME BookInv, TypeOK', NaturalInv', date' \subseteq date, pc' \in {"idle", "expire"},
           UNCHANGED <<objects, order, cancelled, parent, tree, queue, index>>
    PROVE  BookInv'
<1>1. TreeShape' /\ CreatedInv' /\ ParentInv' /\ EntriesLinked' /\ NoCross'
  BY SameBook
<1>2. TakerInv' /\ TodoInv' /\ WalkInv' /\ SweepInv'
  BY DEF TakerInv, TodoInv, WalkInv, SweepInv
<1> QED
  BY <1>1, <1>2 DEF BookInv

(* match_order passes a level: the order is all-or-nothing. *)
LEMMA MatchSkipStep ==
    ASSUME BookInv, TypeOK', NaturalInv', NEW p \in Price, MatchSkip(p)
    PROVE  BookInv'
<1> USE DEF BookInv
<1>1. /\ UNCHANGED <<objects, order, params, cancelled, parent, tree, queue, index, date, pc, taker>>
      /\ todo' = todo \ {p} /\ pc = "match" /\ "AON" \in params[taker]
  BY DEF MatchSkip, bookVars, Skips, HasParam
<1>2. TreeShape' /\ CreatedInv' /\ ParentInv' /\ EntriesLinked' /\ NoCross'
  BY <1>1, SameBook
<1>3. TakerInv' /\ WalkInv' /\ SweepInv'
  BY <1>1 DEF TakerInv, WalkInv, SweepInv, Created
<1>4. TodoInv'
  BY <1>1 DEF TodoInv, Levels, TakerSide
<1> QED
  BY <1>2, <1>3, <1>4

(* match_order enters a level. *)
LEMMA MatchEnterStep ==
    ASSUME BookInv, TypeOK', NaturalInv', NEW p \in Price, MatchEnter(p)
    PROVE  BookInv'
<1> USE DEF BookInv
<1>1. /\ UNCHANGED <<objects, order, qty, params, cancelled, parent, tree, queue, index, date, taker>>
      /\ todo' = todo \ {p} /\ pc = "match" /\ pc' = "fill" /\ p \in todo
      /\ level' = p /\ walk' = queue[LevelOf(p)]
  BY DEF MatchEnter, bookVars, First
<1>2. TreeShape' /\ CreatedInv' /\ ParentInv' /\ EntriesLinked' /\ NoCross'
  BY <1>1, SameBook
<1>3. TakerInv'
  BY <1>1 DEF TakerInv, Created
<1>4. TodoInv'
  BY <1>1 DEF TodoInv, Levels, TakerSide
<1>5. LevelOf(p) \in Limit /\ LevelOf(p) # NoLimit
  BY <1>1, TodoLevel, BookAssumption
<1>6. LevelOf(level)' = LevelOf(p)
  BY <1>1 DEF LevelOf, TakerSide
<1>7. WalkInv'
  <2>1. \A i \in DOMAIN walk' : walk'[i] \in Created /\ walk'[i] # taker /\ parent[walk'[i]] = LevelOf(p)
    BY <1>1, <1>5 DEF ParentInv, TakerInv
  <2> QED
    BY <1>1, <1>5, <1>6, <2>1 DEF WalkInv, Created
<1>8. SweepInv'
  BY <1>1, <1>6 DEF SweepInv, Levels, LevelOf, TakerSide
<1> QED
  BY <1>2, <1>3, <1>4, <1>7, <1>8

(* match_order leaves a level: the taker is filled, or the level is empty. *)
LEMMA LeaveLevelStep ==
    ASSUME BookInv, TypeOK', NaturalInv', LeaveLevel
    PROVE  BookInv'
<1> USE DEF BookInv
<1>1. /\ UNCHANGED <<objects, order, qty, params, cancelled, parent, tree, queue, index, date>>
      /\ pc = "fill"
  BY DEF LeaveLevel, bookVars
<1>2. CASE qty[taker] = 0
  <2>1. pc' = "idle"
    BY <1>2 DEF LeaveLevel, Return
  <2> QED
    BY <1>1, <2>1, QuietStep
<1>3. CASE qty[taker] # 0
  <2>5. qty[taker] > 0
    <3>1. qty[taker] \in Nat
      BY <1>1, TodoLevel DEF NaturalInv
    <3> QED
      BY <1>3, <3>1
  <2>1. pc' = "match" /\ UNCHANGED <<taker, todo, level, walk>> /\ walk = << >>
    <3>1. (qty[taker] <= 0 \/ walk = << >>) /\ pc' = "match" /\ UNCHANGED matchVars
      BY <1>3 DEF LeaveLevel
    <3>2. ~(qty[taker] <= 0)
      BY <2>5, TodoLevel, <1>1 DEF NaturalInv
    <3> QED
      BY <3>1, <3>2 DEF matchVars
  <2>2. TreeShape' /\ CreatedInv' /\ ParentInv' /\ EntriesLinked' /\ NoCross'
    BY <1>1, SameBook
  <2>3. TakerInv' /\ WalkInv'
    BY <1>1, <2>1 DEF TakerInv, WalkInv, Created
  <2>4. TodoInv'
    BY <1>1, <2>1 DEF TodoInv, Levels, TakerSide
  <2>6. SweepInv'
    BY <1>1, <2>1, <2>5 DEF SweepInv, Levels, LevelOf, TakerSide
  <2> QED
    BY <2>2, <2>3, <2>4, <2>6
<1> QED
  BY <1>2, <1>3
(* match_order cancels what is left of an order that may not rest. *)
LEMMA KillOrderStep ==
    ASSUME BookInv, TypeOK', NaturalInv', KillOrder
    PROVE  BookInv'
<1> USE DEF BookInv
<1>1. /\ UNCHANGED <<objects, order, parent, tree, queue, index, date>>
      /\ cancelled' = cancelled \cup {taker} /\ pc = "match" /\ pc' = "idle"
  BY DEF KillOrder, NoMatch, Return, bookVars
<1>2. taker \in Created /\ \A id \in Ref : index[id] # taker
  BY <1>1 DEF TakerInv
<1>3. TreeShape' /\ NoCross' /\ ParentInv'
  BY <1>1 DEF TreeShape, NoCross, ParentInv, Created
<1>4. CreatedInv'
  BY <1>1, <1>2 DEF CreatedInv, Created
<1>5. EntriesLinked'
  <2>1. ASSUME NEW id \in Ref, NEW r \in Ref, index'[id] = r
        PROVE  /\ index[id] = r /\ r \notin cancelled' /\ parent'[r] = parent[r]
               /\ \E i \in DOMAIN queue'[parent[r]] : queue'[parent[r]][i] = r
    <3>1. EntrySound(id, r) /\ index[id] = r
      BY <1>1, <2>1, EntryOf
    <3> QED
      BY <1>1, <1>2, <3>1 DEF EntrySound, Linked
  <2>2. objects' >= objects
    BY <1>1 DEF TypeOK
  <2> QED
    BY <1>1, <2>1, <2>2, IndexKept
<1>6. TakerInv' /\ TodoInv' /\ WalkInv' /\ SweepInv'
  BY <1>1 DEF TakerInv, TodoInv, WalkInv, SweepInv
<1> QED
  BY <1>3, <1>4, <1>5, <1>6

-----------------------------------------------------------------------------
(* Steps that unlink an order *)

(* Unlinking one object shortens one queue and empties no index entry but   *)
(* its own.                                                                 *)
LEMMA UnlinkKeeps ==
    ASSUME BookInv, NEW m \in Ref, NEW l \in Limit, parent[m] = l,
           queue' = [queue EXCEPT ![l] = Unlink(@, m)],
           UNCHANGED <<objects, parent, tree>>
    PROVE  /\ ParentInv' /\ NoCross'
           /\ \A k \in Limit : \A j \in DOMAIN queue'[k] : \E i \in DOMAIN queue[k] : queue'[k][j] = queue[k][i]
           /\ \A r \in Ref : r # m /\ parent[r] \in Limit /\ Linked(r, parent[r]) =>
                  \E i \in DOMAIN queue'[parent[r]] : queue'[parent[r]][i] = r
<1> USE DEF BookInv
<1> DEFINE u == Unlink(queue[l], m)
<1>1. queue \in [Limit -> Seq(Ref)] /\ queue[l] \in Seq(Ref)
  BY DEF TypeOK
<1>2. /\ u \in Seq(Ref)
      /\ \A j \in DOMAIN u : \E i \in DOMAIN queue[l] : u[j] = queue[l][i]
      /\ \A i \in DOMAIN queue[l] : queue[l][i] # m => \E j \in DOMAIN u : u[j] = queue[l][i]
  BY <1>1, UnlinkFacts
<1> HIDE DEF u
<1>3. queue'[l] = u /\ \A k \in Limit : k # l => queue'[k] = queue[k]
  BY <1>1 DEF u
<1>4. \A k \in Limit : \A j \in DOMAIN queue'[k] : \E i \in DOMAIN queue[k] : queue'[k][j] = queue[k][i]
  BY <1>2, <1>3
<1>5. ParentInv'
  BY <1>4 DEF ParentInv, Created
<1>6. \A k \in Limit : queue[k] = << >> => queue'[k] = << >>
  <2>1. SUFFICES ASSUME NEW k \in Limit, queue[k] = << >>
                 PROVE  queue'[k] = << >>
    OBVIOUS
  <2>2. CASE k # l
    BY <1>3, <2>1, <2>2
  <2>3. CASE k = l
    <3>1. DOMAIN u = {}
      BY <1>2, <2>1, <2>3
    <3>2. u = << >>
      BY <1>2, <3>1
    <3> QED
      BY <1>3, <2>3, <3>2
  <2> QED
    BY <2>2, <2>3
<1>7. NoCross'
  <2>1. \A s \in Side, p \in Price : tree[s][p] # NoLimit => tree[s][p] \in Limit
    BY DEF TypeOK
  <2> QED
    BY <1>6, <2>1 DEF NoCross, Side
<1>8. ASSUME NEW r \in Ref, r # m, parent[r] \in Limit, Linked(r, parent[r])
      PROVE  \E i \in DOMAIN queue'[parent[r]] : queue'[parent[r]][i] = r
  <2>1. PICK i \in DOMAIN queue[parent[r]] : queue[parent[r]][i] = r
    BY <1>8 DEF Linked
  <2>2. CASE parent[r] # l
    BY <1>3, <1>8, <2>1, <2>2
  <2>3. CASE parent[r] = l
    BY <1>2, <1>3, <1>8, <2>1, <2>3
  <2> QED
    BY <2>2, <2>3
<1> QED
  BY <1>4, <1>5, <1>7, <1>8

(* remove_limit_order, with or without the cancelled flag, keeps the index sound. *)
LEMMA RemoveKeeps ==
    ASSUME BookInv, TypeOK', NaturalInv', NEW m \in Created, NEW q, parent[m] \in Limit,
           RemoveLimitOrder(m, q), UNCHANGED <<objects, order, parent, tree>>,
           cancelled' \subseteq cancelled \cup {m}
    PROVE  /\ ParentInv' /\ NoCross' /\ EntriesLinked'
           /\ \A k \in Limit : \A j \in DOMAIN queue'[k] : \E i \in DOMAIN queue[k] : queue'[k][j] = queue[k][i]
           /\ \A id, r \in Ref : index'[id] = r => index[id] = r
<1> USE DEF BookInv
<1> DEFINE l == parent[m]
<1>1. m \in Ref /\ order[m].id \in Ref
  BY CreatedFacts
<1>2. queue' = [queue EXCEPT ![l] = Unlink(@, m)] /\ index' = [index EXCEPT ![order[m].id] = 0]
  BY DEF RemoveLimitOrder
<1>3. /\ ParentInv' /\ NoCross'
      /\ \A k \in Limit : \A j \in DOMAIN queue'[k] : \E i \in DOMAIN queue[k] : queue'[k][j] = queue[k][i]
      /\ \A r \in Ref : r # m /\ parent[r] \in Limit /\ Linked(r, parent[r]) =>
             \E i \in DOMAIN queue'[parent[r]] : queue'[parent[r]][i] = r
  <2>1. \A x \in Limit : x = parent[m] /\ queue' = [queue EXCEPT ![x] = Unlink(@, m)] =>
             /\ ParentInv' /\ NoCross'
             /\ \A k \in Limit : \A j \in DOMAIN queue'[k] : \E i \in DOMAIN queue[k] : queue'[k][j] = queue[k][i]
             /\ \A r \in Ref : r # m /\ parent[r] \in Limit /\ Linked(r, parent[r]) =>
                    \E i \in DOMAIN queue'[parent[r]] : queue'[parent[r]][i] = r
    BY <1>1, UnlinkKeeps
  <2> QED
    BY <1>2, <2>1
<1>4. ASSUME NEW id \in Ref, NEW r \in Ref, index'[id] = r
      PROVE  /\ index[id] = r /\ r \notin cancelled' /\ parent'[r] = parent[r]
             /\ \E i \in DOMAIN queue'[parent[r]] : queue'[parent[r]][i] = r
  <2>1. id # order[m].id
    <3>1. 0 \notin Ref /\ index \in [Ref -> Ref \cup {0}]
      BY BookAssumption DEF TypeOK, Ref
    <3> QED
      BY <1>1, <1>2, <1>4, <3>1
  <2>2. index[id] = r
    BY <1>1, <1>2, <1>4, <2>1 DEF TypeOK
  <2>3. EntrySound(id, r)
    BY <2>2, EntryOf
  <2>4. r # m
    BY <2>1, <2>3 DEF EntrySound
  <2>5. parent[r] \in Limit
    <3>1. index[id] # 0
      BY <2>2, BookAssumption DEF Ref
    <3> QED
      BY <2>2, <3>1, EntryFacts
  <2> QED
    BY <1>3, <2>2, <2>3, <2>4, <2>5 DEF EntrySound
<1>5. EntriesLinked'
  <2>1. objects' >= objects
    BY DEF TypeOK
  <2> QED
    BY <1>4, <2>1, IndexKept
<1> QED
  BY <1>3, <1>4, <1>5

(* cancel_order of a known id, from the worker or from check_date_orders. *)
LEMMA CancelStep ==
    ASSUME BookInv, TypeOK', NaturalInv', NEW id \in Ref, NEW sent, CancelEntry(id, sent),
           UNCHANGED <<objects, order, parent, tree, date>>, pc' \in {"idle", "expire"}
    PROVE  BookInv'
<1> USE DEF BookInv
<1>1. PICK m \in Ref : index[id] = m
  BY DEF CancelEntry, TypeOK
<1>2. m \in Created /\ EntrySound(id, m) /\ parent[m] \in Limit /\ order[m].id = id
  BY <1>1, EntryOf, EntryFacts DEF CancelEntry
<1>3. cancelled' = cancelled \cup {m}
  BY <1>1 DEF CancelEntry
<1>4. TreeShape'
  BY DEF TreeShape
<1>5. CreatedInv'
  BY <1>2, <1>3 DEF CreatedInv, Created
<1>6. TakerInv' /\ TodoInv' /\ WalkInv' /\ SweepInv'
  BY DEF TakerInv, TodoInv, WalkInv, SweepInv
<1>7. ParentInv' /\ NoCross' /\ EntriesLinked'
  <2>1. CASE HasParam(m, {"STOP"})
    <3>1. index' = [index EXCEPT ![id] = 0] /\ UNCHANGED queue
      BY <1>1, <1>2, <2>1 DEF CancelEntry, RemoveStopOrder
    <3>2. ParentInv' /\ NoCross'
      BY <3>1 DEF ParentInv, NoCross, Created
    <3>3. ASSUME NEW i \in Ref, NEW r \in Ref, index'[i] = r
          PROVE  /\ index[i] = r /\ r \notin cancelled' /\ parent'[r] = parent[r]
                 /\ \E j \in DOMAIN queue'[parent[r]] : queue'[parent[r]][j] = r
      <4>1. i # id /\ index[i] = r
        BY <3>1, <3>3, BookAssumption DEF TypeOK, Ref
      <4>2. EntrySound(i, r)
        BY <4>1, EntryOf
      <4> QED
        BY <1>2, <1>3, <3>1, <4>1, <4>2 DEF EntrySound, Linked
    <3>4. objects' >= objects
      BY DEF TypeOK
    <3> QED
      BY <3>2, <3>3, <3>4, IndexKept
  <2>2. CASE ~HasParam(m, {"STOP"})
    <3>1. RemoveLimitOrder(m, qty[m])
      BY <1>1, <2>2 DEF CancelEntry
    <3> QED
      BY <1>2, <1>3, <3>1, RemoveKeeps
  <2> QED
    BY <2>1, <2>2
<1> QED
  BY <1>4, <1>5, <1>6, <1>7
-----------------------------------------------------------------------------
(* process_limit_order takes from a maker, and unlinks it when it is used up. *)
LEMMA ResolveOrdersStep ==
    ASSUME BookInv, TypeOK', NaturalInv', ResolveOrders
    PROVE  BookInv'
<1> USE DEF BookInv
<1>1. /\ UNCHANGED <<objects, order, params, cancelled, parent, tree, date, pc, taker, todo, level>>
      /\ pc = "fill" /\ walk # << >> /\ walk' = Tail(walk) /\ qty[taker] > 0
  BY DEF ResolveOrders
<1>2. PICK m \in Ref : m = Head(walk)
  BY <1>1, WalkHead
<1>3. /\ m \in Created /\ m # taker /\ taker \in Ref
      /\ LevelOf(level) = <<Opposite(TakerSide), level>>
      /\ parent[m] = LevelOf(level) /\ parent[m] \in Limit
  BY <1>1, <1>2, WalkHead
<1>4. /\ qty' = Resolved(m)
      /\ qty'[m] = 0 => RemoveLimitOrder(m, 0)
      /\ qty'[m] # 0 => UNCHANGED <<queue, index>>
  BY <1>2 DEF ResolveOrders
<1>5. /\ ParentInv' /\ NoCross' /\ EntriesLinked'
      /\ \A k \in Limit : \A j \in DOMAIN queue'[k] : \E i \in DOMAIN queue[k] : queue'[k][j] = queue[k][i]
      /\ \A id, r \in Ref : index'[id] = r => index[id] = r
  <2>1. CASE qty'[m] = 0
    BY <1>1, <1>3, <1>4, <2>1, RemoveKeeps
  <2>2. CASE qty'[m] # 0
    <3>1. ParentInv' /\ NoCross' /\ EntriesLinked'
      BY <1>1, <1>4, <2>2, SameBook
    <3> QED
      BY <1>4, <2>2, <3>1
  <2> QED
    BY <2>1, <2>2
<1>6. TreeShape' /\ CreatedInv'
  BY <1>1 DEF TreeShape, CreatedInv, Created
<1>7. TakerInv'
  BY <1>1, <1>3, <1>5 DEF TakerInv, Created
<1>8. TodoInv'
  BY <1>1 DEF TodoInv, Levels, TakerSide
<1>9. WalkInv'
  <2>1. walk \in Seq(Ref)
    BY DEF TypeOK
  <2>2. \A i \in DOMAIN walk' : i + 1 \in DOMAIN walk /\ walk'[i] = walk[i + 1]
    BY <1>1, <2>1
  <2> QED
    BY <1>1, <2>2 DEF WalkInv, Created, LevelOf, TakerSide
<1>10. SweepInv'
  <2>1. SUFFICES ASSUME "AON" \notin params[taker]
                 PROVE  /\ \A p \in Levels(Opposite(TakerSide)) \ todo :
                            Crosses(TakerSide, order[taker].price, p) /\ p # level
                            => queue'[LevelOf(p)] = << >>
                        /\ qty'[taker] > 0 => walk' = queue'[LevelOf(level)]
    BY <1>1 DEF SweepInv, Levels, LevelOf, TakerSide
  <2>2. ASSUME NEW p \in Levels(Opposite(TakerSide)) \ todo,
               Crosses(TakerSide, order[taker].price, p), p # level
        PROVE  queue'[LevelOf(p)] = << >>
    <3>1. queue[LevelOf(p)] = << >>
      BY <1>1, <2>1, <2>2 DEF SweepInv
    <3>2. LevelOf(p) = <<Opposite(TakerSide), p>> /\ LevelOf(p) # LevelOf(level) /\ LevelOf(p) \in Limit
      BY <1>1, <1>3, <2>2, TodoLevel DEF Levels, LevelOf, TreeShape, Limit
    <3>3. queue'[LevelOf(p)] = queue[LevelOf(p)]
      BY <1>3, <1>4, <3>2 DEF RemoveLimitOrder, TypeOK
    <3> QED
      BY <3>1, <3>3
  <2>3. ASSUME qty'[taker] > 0
        PROVE  walk' = queue'[LevelOf(level)]
    <3>1. walk = queue[LevelOf(level)] /\ walk \in Seq(Ref)
      BY <1>1, <2>1 DEF SweepInv, TypeOK
    <3>2. qty'[m] = 0
      <4>1. Resolved(m)[m] # 0 => Resolved(m)[taker] = 0 \/ "AON" \in params[taker]
        BY <1>3, ResolvedType
      <4> QED
        BY <1>4, <2>1, <2>3, <4>1
    <3>3. queue'[LevelOf(level)] = Unlink(queue[LevelOf(level)], m)
      BY <1>3, <1>4, <3>2 DEF RemoveLimitOrder, TypeOK
    <3>4. Unlink(walk, Head(walk)) = Tail(walk)
      BY <1>1, <3>1, UnlinkHead
    <3> QED
      BY <1>1, <1>2, <3>1, <3>3, <3>4
  <2> QED
    BY <2>2, <2>3
<1> QED
  BY <1>5, <1>6, <1>7, <1>8, <1>9, <1>10

-----------------------------------------------------------------------------
(* match_order puts the rest of the order in the book *)

(* No level of the other side that holds an order is within its reach. *)
LEMMA NothingToMatch ==
    ASSUME BookInv, RestOrder
    PROVE  \A p \in Levels(Opposite(TakerSide)) :
               queue[LevelOf(p)] # << >> => ~Crosses(TakerSide, order[taker].price, p)
<1> USE DEF BookInv
<1>1. pc = "match" /\ "AON" \notin params[taker]
  BY DEF RestOrder, NoMatch, HasParam, FOK
<1>2. TakerSide \in Side /\ order[taker].price \in Int /\ todo \subseteq Int
  <2>1. taker \in Created
    BY <1>1 DEF TakerInv
  <2> QED
    BY <2>1, CreatedFacts, BookAssumption DEF TakerSide, TypeOK
<1>3. \A p \in Levels(Opposite(TakerSide)) \ todo :
          Crosses(TakerSide, order[taker].price, p) => queue[LevelOf(p)] = << >>
  BY <1>1 DEF SweepInv
<1>4. ASSUME NEW p \in todo
      PROVE  ~Crosses(TakerSide, order[taker].price, p)
  <2>1. PICK f \in todo : /\ First(Opposite(TakerSide), todo, f)
                          /\ ~Crosses(TakerSide, order[taker].price, f)
    BY <1>4 DEF RestOrder, NoMatch
  <2>2. f = p \/ Before(Opposite(TakerSide), f, p)
    BY <2>1 DEF First
  <2> QED
    BY <1>2, <2>1, <2>2 DEF Crosses, Before, Opposite, Side
<1> QED
  BY <1>3, <1>4
(* The Limit an order of side s and price p is put in. *)
LEMMA HomeFacts ==
    ASSUME TypeOK, TreeShape, NEW s \in Side, NEW p \in Price
    PROVE  Home(s, <<s, p>>) = <<s, p>> /\ <<s, p>> \in Limit
BY DEF Home, TreeShape, Limit

(* add_limit_order at the end of a match. *)
LEMMA RestOrderStep ==
    ASSUME BookInv, TypeOK', NaturalInv', RestOrder
    PROVE  BookInv'
<1> USE DEF BookInv
<1>1. /\ UNCHANGED <<objects, order, cancelled>> /\ pc = "match" /\ pc' = "idle"
      /\ date' \subseteq date \cup {taker}
      /\ index' = [index EXCEPT ![order[taker].id] = taker]
      /\ AddLimitOrder(taker, TakerSide, qty[taker], <<TakerSide, order[taker].price>>, queue, volume)
  BY DEF RestOrder, NoMatch, Return, DateInsert
<1>2. PICK n \in Created : n = taker
  BY <1>1 DEF TakerInv
<1>3. PICK s \in Side, p \in Price : s = TakerSide /\ p = order[taker].price
  BY <1>2, CreatedFacts DEF TakerSide
<1>4. /\ n \in Ref /\ order[n].id \in Ref /\ order[n].side = s
      /\ n \notin cancelled
      /\ \A id \in Ref : index[id] # n
  BY <1>1, <1>2, <1>3, CreatedFacts DEF TakerInv, TakerSide
<1> DEFINE h == <<s, p>>
<1>5. h \in Limit /\ h # NoLimit /\ Home(s, h) = h /\ h[2] = p
  BY HomeFacts, BookAssumption
<1>6. /\ parent' = [parent EXCEPT ![n] = h]
      /\ tree' = [tree EXCEPT ![s][p] = h]
      /\ queue' = [queue EXCEPT ![h] = IF tree[s][p] # NoLimit THEN Append(@, n) ELSE <<n>>]
  BY <1>1, <1>2, <1>3, <1>5 DEF AddLimitOrder
<1> HIDE DEF h
<1>7. /\ queue \in [Limit -> Seq(Ref)] /\ queue[h] \in Seq(Ref)
      /\ parent \in [Ref -> Limit \cup {NoLimit}]
      /\ tree \in [Side -> [Price -> Limit \cup {NoLimit}]]
      /\ index \in [Ref -> Ref \cup {0}]
  BY <1>5 DEF TypeOK
<1>8. /\ parent'[n] = h /\ \A x \in Ref : x # n => parent'[x] = parent[x]
      /\ tree'[s][p] = h
      /\ \A t \in Side, q \in Price : t # s \/ q # p => tree'[t][q] = tree[t][q]
      /\ \A k \in Limit : k # h => queue'[k] = queue[k]
      /\ queue'[h] = IF tree[s][p] # NoLimit THEN Append(queue[h], n) ELSE <<n>>
  BY <1>4, <1>5, <1>6, <1>7
<1>9. tree[s][p] # NoLimit => tree[s][p] = h
  BY DEF TreeShape, h
<1>10. TreeShape'
  BY <1>8, <1>9 DEF TreeShape, h
<1>11. CreatedInv'
  BY <1>1, <1>2 DEF CreatedInv, Created
<1>12. /\ \A j \in DOMAIN queue'[h] : queue'[h][j] = n \/ \E i \in DOMAIN queue[h] : queue'[h][j] = queue[h][i]
       /\ \E j \in DOMAIN queue'[h] : queue'[h][j] = n
       /\ tree[s][p] # NoLimit => \A i \in DOMAIN queue[h] : \E j \in DOMAIN queue'[h] : queue'[h][j] = queue[h][i]
  <2>1. CASE tree[s][p] # NoLimit
    <3>1. queue'[h] = Append(queue[h], n)
      BY <1>8, <2>1
    <3>2. /\ DOMAIN queue'[h] = 1 .. Len(queue[h]) + 1 /\ Len(queue[h]) \in Nat
          /\ DOMAIN queue[h] = 1 .. Len(queue[h])
          /\ queue'[h][Len(queue[h]) + 1] = n
          /\ \A i \in DOMAIN queue[h] : queue'[h][i] = queue[h][i]
      BY <1>7, <3>1
    <3> QED
      BY <3>2
  <2>2. CASE tree[s][p] = NoLimit
    BY <1>8, <2>2
  <2> QED
    BY <2>1, <2>2
<1>13. ParentInv'
  <2>1. SUFFICES ASSUME NEW k \in Limit, NEW j \in DOMAIN queue'[k]
                 PROVE  queue'[k][j] \in Created /\ parent'[queue'[k][j]] = k
    BY <1>1 DEF ParentInv, Created
  <2>2. ASSUME NEW i \in DOMAIN queue[k]
        PROVE  queue[k][i] \in Created /\ parent[queue[k][i]] = k /\ queue[k][i] # n /\ queue[k][i] \in Ref
    BY <1>1, <1>2, CreatedFacts DEF ParentInv, TakerInv
  <2>3. CASE k # h
    BY <1>8, <2>1, <2>2, <2>3
  <2>4. CASE k = h
    <3>1. CASE queue'[k][j] = n
      BY <1>2, <1>8, <2>4, <3>1
    <3>2. CASE queue'[k][j] # n
      <4>1. PICK i \in DOMAIN queue[k] : queue'[k][j] = queue[k][i]
        BY <1>12, <2>1, <2>4, <3>2
      <4> QED
        BY <1>8, <2>2, <4>1
    <3> QED
      BY <3>1, <3>2
  <2> QED
    BY <2>3, <2>4
<1>14. EntriesLinked'
  <2>1. SUFFICES ASSUME NEW id \in Ref, NEW r \in Ref, index'[id] = r
                 PROVE  EntrySound(id, r)'
    BY IndexByEntry
  <2>2. CASE id = order[n].id
    <3>1. r = n
      BY <1>1, <1>2, <1>4, <1>7, <2>1, <2>2
    <3>2. parent'[n] = <<order'[n].side, p>> /\ tree'[order'[n].side][p] = parent'[n]
      BY <1>1, <1>4, <1>8 DEF h
    <3>3. n <= objects'
      BY <1>1 DEF Created, TypeOK
    <3> QED
      BY <1>1, <1>4, <1>8, <1>12, <2>2, <3>1, <3>2, <3>3 DEF EntrySound, Linked
  <2>3. CASE id # order[n].id
    <3>1. index[id] = r /\ r # n
      BY <1>1, <1>2, <1>4, <1>7, <2>1, <2>3
    <3>2. EntrySound(id, r) /\ r \in Created
      BY <3>1, EntryOf
    <3>3. parent'[r] = parent[r] /\ r \notin cancelled' /\ order'[r] = order[r]
      BY <1>1, <1>8, <3>1, <3>2 DEF EntrySound
    <3>4. \E i \in DOMAIN queue'[parent[r]] : queue'[parent[r]][i] = r
      <4>1. PICK i \in DOMAIN queue[parent[r]] : queue[parent[r]][i] = r
        BY <3>2 DEF EntrySound, Linked
      <4>2. parent[r] \in Limit
        <5>1. index[id] # 0
          BY <3>1, BookAssumption DEF Ref
        <5> QED
          BY <3>1, <5>1, EntryFacts
      <4>3. parent[r] = h => tree[s][p] # NoLimit
        BY <1>5, <3>2 DEF EntrySound, h
      <4>4. CASE parent[r] = h
        BY <1>12, <4>1, <4>3, <4>4
      <4>5. CASE parent[r] # h
        BY <1>8, <4>1, <4>2, <4>5
      <4> QED
        BY <4>4, <4>5
    <3>5. \A t \in Side, q \in Price : tree[t][q] # NoLimit => tree'[t][q] = tree[t][q]
      BY <1>8, <1>9
    <3>6. objects' \in Int /\ objects' >= objects /\ r <= objects
      BY <1>1, <3>2 DEF TypeOK, EntrySound
    <3> QED
      BY <3>2, <3>3, <3>4, <3>5, <3>6, EntryKept
  <2> QED
    BY <2>2, <2>3
<1>15. NoCross'
  <2>1. \A q \in Price : tree[Opposite(s)][q] # NoLimit /\ queue[tree[Opposite(s)][q]] # << >>
                         => ~Crosses(s, p, q)
    BY <1>3, NothingToMatch DEF Levels, LevelOf
  <2>2. ASSUME NEW t \in Side, NEW q \in Price, t # s \/ q # p,
               tree'[t][q] # NoLimit, queue'[tree'[t][q]] # << >>
        PROVE  tree[t][q] # NoLimit /\ queue[tree[t][q]] # << >>
    <3>1. tree'[t][q] = tree[t][q] /\ tree[t][q] = <<t, q>>
      BY <1>8, <2>2 DEF TreeShape
    <3>2. <<t, q>> # h /\ <<t, q>> \in Limit
      BY <2>2 DEF h, Limit
    <3> QED
      BY <1>8, <2>2, <3>1, <3>2
  <2>3. SUFFICES ASSUME NEW b \in Price, NEW a \in Price,
                        tree'["BUY"][b] # NoLimit, queue'[tree'["BUY"][b]] # << >>,
                        tree'["SELL"][a] # NoLimit, queue'[tree'["SELL"][a]] # << >>
                 PROVE  b < a
    BY DEF NoCross
  <2>4. b \in Int /\ a \in Int /\ "BUY" \in Side /\ "SELL" \in Side
    BY BookAssumption DEF Side
  <2>5. CASE s = "BUY" /\ b = p
    <3>1. tree["SELL"][a] # NoLimit /\ queue[tree["SELL"][a]] # << >>
      BY <2>2, <2>3, <2>4, <2>5
    <3>2. ~Crosses("BUY", p, a)
      BY <2>1, <2>5, <3>1 DEF Opposite
    <3> QED
      BY <2>4, <2>5, <3>2 DEF Crosses
  <2>6. CASE s = "SELL" /\ a = p
    <3>1. tree["BUY"][b] # NoLimit /\ queue[tree["BUY"][b]] # << >>
      BY <2>2, <2>3, <2>4, <2>6
    <3>2. ~Crosses("SELL", p, b)
      BY <2>1, <2>6, <3>1 DEF Opposite
    <3> QED
      BY <2>4, <2>6, <3>2 DEF Crosses
  <2>7. CASE ~(s = "BUY" /\ b = p) /\ ~(s = "SELL" /\ a = p)
    <3>1. tree["BUY"][b] # NoLimit /\ queue[tree["BUY"][b]] # << >>
      BY <2>2, <2>3, <2>4, <2>7
    <3>2. tree["SELL"][a] # NoLimit /\ queue[tree["SELL"][a]] # << >>
      BY <2>2, <2>3, <2>4, <2>7
    <3> QED
      BY <3>1, <3>2 DEF NoCross
  <2> QED
    BY <2>5, <2>6, <2>7
<1>16. TakerInv' /\ TodoInv' /\ WalkInv' /\ SweepInv'
  BY <1>1 DEF TakerInv, TodoInv, WalkInv, SweepInv
<1> QED
  BY <1>10, <1>11, <1>13, <1>14, <1>15, <1>16
-----------------------------------------------------------------------------
(* modify_order *)

(* The new object takes the old one's place: no level becomes occupied. *)
LEMMA ModifyOrderStep ==
    ASSUME BookInv, TypeOK', NaturalInv', Regular',
           NEW id \in Ref, NEW req \in Request, ModifyOrder(id, req)
    PROVE  BookInv'
<1> USE DEF BookInv
<1>1. PICK r \in Ref : r = index[id]
  BY DEF ModifyOrder, TypeOK
<1>2. /\ r \in Created /\ EntrySound(id, r) /\ parent[r] \in Limit /\ order[r].id = id
  BY <1>1, EntryOf, EntryFacts DEF ModifyOrder
<1>3. PICK n \in Ref : n = objects + 1
  BY CreateFacts DEF ModifyOrder
<1>4. id \in Created
  BY <1>2 DEF CreatedInv
<1>5. /\ n \in Created' /\ n \notin Created /\ Created \subseteq Created'
      /\ objects' >= objects
      /\ \A x \in Created : x \in Ref /\ x # n /\ order'[x] = order[x]
      /\ \A x \in Created' : /\ order'[x].id \in Created' /\ order'[x].id <= x
                             /\ order'[x].price \in Price
  BY <1>3, <1>4, CreateKeeps DEF ModifyOrder
<1>6. /\ cancelled' = cancelled \cup {r} /\ UNCHANGED <<date, pc>> /\ pc = "idle"
      /\ index' = [index EXCEPT ![id] = 0]
      /\ req.side = order[r].side
  BY <1>1, SideKept DEF ModifyOrder
<1>7. CreatedInv'
  BY <1>2, <1>5, <1>6 DEF CreatedInv
<1>8. TakerInv' /\ TodoInv' /\ WalkInv' /\ SweepInv'
  BY <1>6 DEF TakerInv, TodoInv, WalkInv, SweepInv
<1>9. ASSUME NEW i \in Ref, NEW x \in Ref, index'[i] = x
      PROVE  /\ index[i] = x /\ x \notin cancelled' /\ x # r /\ x # n /\ EntrySound(i, x)
             /\ parent[x] \in Limit
  <2>1. 0 \notin Ref /\ index \in [Ref -> Ref \cup {0}]
    BY BookAssumption DEF Ref, TypeOK
  <2>2. i # id /\ index[i] = x
    BY <1>6, <1>9, <2>1
  <2>3. EntrySound(i, x) /\ x \in Created /\ parent[x] \in Limit
    BY <2>1, <2>2, EntryOf, EntryFacts
  <2> QED
    BY <1>2, <1>5, <1>6, <2>2, <2>3 DEF EntrySound
<1>10. CASE HasParam(r, {"STOP"})
  <2>1. UNCHANGED <<parent, tree, queue>>
    BY <1>1, <1>10 DEF ModifyOrder, bookVars
  <2>2. TreeShape' /\ NoCross'
    BY <2>1 DEF TreeShape, NoCross
  <2>3. ParentInv'
    BY <1>5, <2>1 DEF ParentInv
  <2>4. EntriesLinked'
    <3>1. ASSUME NEW i \in Ref, NEW x \in Ref, index'[i] = x
          PROVE  \E j \in DOMAIN queue'[parent[x]] : queue'[parent[x]][j] = x
      BY <1>9, <2>1, <3>1 DEF EntrySound, Linked
    <3> QED
      BY <1>5, <1>9, <2>1, <3>1, IndexKept
  <2> QED
    BY <1>7, <1>8, <2>2, <2>3, <2>4
<1>11. CASE ~HasParam(r, {"STOP"})
  <2>1. PICK s \in Side, p \in Price : /\ s = order[r].side /\ parent[r] = <<s, p>>
                                       /\ tree[s][p] = <<s, p>>
    BY <1>2, CreatedFacts DEF EntrySound
  <2> DEFINE h == <<s, p>>
             u == Unlink(queue[h], r)
  <2>2. /\ h \in Limit /\ h # NoLimit /\ Home(s, h) = h /\ h[2] = p
        /\ tree[s][p] = h /\ parent[r] = h
    BY <2>1, HomeFacts, BookAssumption
  <2> HIDE DEF h
  <2>3. /\ queue \in [Limit -> Seq(Ref)] /\ queue[h] \in Seq(Ref)
        /\ parent \in [Ref -> Limit \cup {NoLimit}]
        /\ tree \in [Side -> [Price -> Limit \cup {NoLimit}]]
    BY <2>2 DEF TypeOK
  <2>4. /\ u \in Seq(Ref)
        /\ \A j \in DOMAIN u : \E i \in DOMAIN queue[h] : u[j] = queue[h][i]
        /\ \A i \in DOMAIN queue[h] : queue[h][i] # r => \E j \in DOMAIN u : u[j] = queue[h][i]
    <3>1. queue[h] \in Seq(Ref)
      BY <2>3
    <3> QED
      BY <3>1, UnlinkFacts
  <2>5. /\ parent' = [parent EXCEPT ![n] = h]
        /\ tree' = [tree EXCEPT ![s][p] = h]
        /\ queue' = [[queue EXCEPT ![h] = Unlink(@, r)] EXCEPT ![h] = Append(@, n)]
    <3>1. AddLimitOrder(n, s, req.qty, h, [queue EXCEPT ![h] = Unlink(@, r)],
                        [volume EXCEPT ![h] = Decrease(@, qty[r])])
      BY <1>1, <1>3, <1>6, <1>11, <2>1, <2>2 DEF ModifyOrder
    <3> QED
      BY <2>2, <3>1 DEF AddLimitOrder
  <2>6. queue[h] # << >> /\ tree["BUY"] \in [Price -> Limit \cup {NoLimit}]
    <3>1. \E i \in DOMAIN queue[h] : queue[h][i] = r
      BY <1>2, <2>2 DEF EntrySound, Linked
    <3> QED
      BY <2>3, <3>1 DEF Side
  <2>7. queue'[h] = Append(u, n) /\ \A k \in Limit : k # h => queue'[k] = queue[k]
    BY <2>2, <2>3, <2>5
  <2> HIDE DEF u
  <2>8. tree' = tree
    BY <2>2, <2>3, <2>5
  <2>9. parent'[n] = h /\ \A x \in Ref : x # n => parent'[x] = parent[x]
    BY <2>3, <2>5
  <2>10. /\ \A j \in DOMAIN queue'[h] : queue'[h][j] = n \/ \E i \in DOMAIN queue[h] : queue'[h][j] = queue[h][i]
         /\ \A i \in DOMAIN queue[h] : queue[h][i] # r => \E j \in DOMAIN queue'[h] : queue'[h][j] = queue[h][i]
    <3>1. /\ DOMAIN queue'[h] = 1 .. Len(u) + 1 /\ Len(u) \in Nat /\ DOMAIN u = 1 .. Len(u)
          /\ queue'[h][Len(u) + 1] = n
          /\ \A j \in DOMAIN u : queue'[h][j] = u[j]
      BY <2>4, <2>7
    <3>2. ASSUME NEW j \in DOMAIN queue'[h]
          PROVE  queue'[h][j] = n \/ \E i \in DOMAIN queue[h] : queue'[h][j] = queue[h][i]
      <4>1. CASE j \in DOMAIN u
        BY <2>4, <3>1, <4>1
      <4>2. CASE j \notin DOMAIN u
        BY <3>1, <3>2, <4>2
      <4> QED
        BY <4>1, <4>2
    <3>3. ASSUME NEW i \in DOMAIN queue[h], queue[h][i] # r
          PROVE  \E j \in DOMAIN queue'[h] : queue'[h][j] = queue[h][i]
      <4>1. PICK j \in DOMAIN u : u[j] = queue[h][i]
        BY <2>4, <3>3
      <4>2. j \in DOMAIN queue'[h] /\ queue'[h][j] = queue[h][i]
        BY <3>1, <4>1
      <4> QED
        BY <4>2
    <3> QED
      BY <3>2, <3>3
  <2>11. TreeShape'
    BY <2>8 DEF TreeShape
  <2>12. NoCross'
    <3>1. ASSUME NEW t \in Side, NEW q \in Price, tree[t][q] # NoLimit, queue'[tree[t][q]] # << >>
          PROVE  queue[tree[t][q]] # << >>
      <4>1. tree[t][q] \in Limit
        BY <2>3, <3>1
      <4> QED
        BY <2>6, <2>7, <3>1, <4>1
    <3> QED
      BY <2>8, <3>1 DEF NoCross, Side
  <2>13. ParentInv'
    <3>1. SUFFICES ASSUME NEW k \in Limit, NEW j \in DOMAIN queue'[k]
                   PROVE  queue'[k][j] \in Created' /\ parent'[queue'[k][j]] = k
      BY DEF ParentInv
    <3>2. ASSUME NEW i \in DOMAIN queue[k]
          PROVE  /\ queue[k][i] \in Created' /\ parent[queue[k][i]] = k
                 /\ parent'[queue[k][i]] = parent[queue[k][i]]
      <4>1. queue[k][i] \in Created /\ parent[queue[k][i]] = k
        BY DEF ParentInv
      <4> QED
        BY <1>5, <2>9, <4>1
    <3>3. CASE k # h
      BY <2>7, <3>1, <3>2, <3>3
    <3>4. CASE k = h
      <4>1. CASE queue'[k][j] = n
        BY <1>5, <2>9, <3>4, <4>1
      <4>2. CASE queue'[k][j] # n
        <5>1. PICK i \in DOMAIN queue[k] : queue'[k][j] = queue[k][i]
          BY <2>10, <3>1, <3>4, <4>2
        <5> QED
          BY <3>2, <5>1
      <4> QED
        BY <4>1, <4>2
    <3> QED
      BY <3>3, <3>4
  <2>14. EntriesLinked'
    <3>1. ASSUME NEW i \in Ref, NEW x \in Ref, index'[i] = x
          PROVE  /\ parent'[x] = parent[x]
                 /\ \E j \in DOMAIN queue'[parent[x]] : queue'[parent[x]][j] = x
      <4>1. x # r /\ x # n /\ EntrySound(i, x) /\ parent[x] \in Limit
        BY <1>9, <3>1
      <4>2. PICK j \in DOMAIN queue[parent[x]] : queue[parent[x]][j] = x
        BY <4>1 DEF EntrySound, Linked
      <4>3. CASE parent[x] = h
        BY <2>9, <2>10, <4>1, <4>2, <4>3
      <4>4. CASE parent[x] # h
        BY <2>7, <2>9, <4>1, <4>2, <4>4
      <4> QED
        BY <4>3, <4>4
    <3> QED
      BY <1>5, <1>9, <2>8, <3>1, IndexKept
  <2> QED
    BY <1>7, <1>8, <2>11, <2>12, <2>13, <2>14
<1> QED
  BY <1>10, <1>11

-----------------------------------------------------------------------------
(* The theorems *)

(* The empty book satisfies the invariant. *)
LEMMA BookInit == Init => BookInv
<1> SUFFICES ASSUME Init
             PROVE  BookInv
  OBVIOUS
<1> USE DEF Init
<1>1. << >> \in Seq(Ref) /\ << >> \in Seq(Ref \cup {Dangling}) /\ << >> \in Seq(Ref \X Ref)
  OBVIOUS
<1>2. BlankOrder \in OrderRecord
  BY DEF BlankOrder, OrderRecord, Side
<1>3. reply \in [status: Status \cup {"NONE"}, order: Ref \cup {0}]
  OBVIOUS
<1>4. queue \in [Limit -> Seq(Ref)] /\ order \in [Ref -> OrderRecord]
  BY <1>1, <1>2
<1>5. TypeOK
  BY <1>1, <1>3, <1>4, BookAssumption DEF TypeOK
<1>6. TreeShape /\ CreatedInv /\ ParentInv /\ EntriesLinked /\ NoCross
  BY DEF TreeShape, CreatedInv, ParentInv, EntriesLinked, NoCross, Created, Side
<1>7. TakerInv /\ TodoInv /\ WalkInv /\ SweepInv
  BY DEF TakerInv, TodoInv, WalkInv, SweepInv
<1>8. NaturalInv
  BY DEF NaturalInv
<1> QED
  BY <1>5, <1>6, <1>7, <1>8 DEF BookInv

(* Every step of the book keeps the invariant. *)
LEMMA BookStep ==
    ASSUME Regular', BookInv, [Next]_vars
    PROVE  BookInv'
<1>1. TypeOK' /\ NaturalInv'
  BY BookShape, TypeStep, NaturalStep
<1>2. ASSUME NEW req \in Request, AddStopOrder(req)
      PROVE  BookInv'
  BY <1>1, <1>2, AddStopStep
<1>3. ASSUME NEW req \in Request, AddOrder(req)
      PROVE  BookInv'
  BY <1>1, <1>3, AddOrderStep
<1>4. ASSUME NEW p \in Price, MatchSkip(p) \/ MatchEnter(p)
      PROVE  BookInv'
  BY <1>1, <1>4, MatchSkipStep, MatchEnterStep
<1>5. CASE KillOrder \/ RestOrder \/ ResolveOrders \/ LeaveLevel
  BY <1>1, <1>5, KillOrderStep, RestOrderStep, ResolveOrdersStep, LeaveLevelStep
<1>6. ASSUME NEW id \in Ref, CancelOrder(id)
      PROVE  BookInv'
  <2>1. /\ UNCHANGED <<objects, order, parent, tree, date, pc>> /\ pc = "idle"
        /\ CancelEntry(id, << >>) \/ UNCHANGED <<cancelled, queue, index>>
    BY <1>6 DEF CancelOrder
  <2> QED
    BY <1>1, <2>1, CancelStep, QuietStep
<1>7. ASSUME NEW id \in Ref, ModifyNotFound(id)
      PROVE  BookInv'
  BY <1>1, <1>7, QuietStep DEF ModifyNotFound, bookVars
<1>8. ASSUME NEW id \in Ref, NEW req \in Request, ModifyOrder(id, req)
      PROVE  BookInv'
  BY <1>1, <1>8, ModifyOrderStep
<1>9. CASE CheckDateOrders
  BY <1>1, <1>9, QuietStep DEF CheckDateOrders, bookVars
<1>10. ASSUME NEW r \in Ref, ExpireOrder(r)
       PROVE  BookInv'
  <2>1. /\ UNCHANGED <<objects, order, parent, tree, date, pc>> /\ pc = "expire"
        /\ CancelEntry(order[r].id, outbox) \/ UNCHANGED <<cancelled, queue, index>>
    BY <1>10 DEF ExpireOrder
  <2>2. r \in Created
    BY <1>10 DEF ExpireOrder, Earliest, BookInv, CreatedInv
  <2>3. PICK id \in Ref : id = order[r].id
    BY <2>2, CreatedFacts DEF BookInv
  <2> QED
    BY <1>1, <2>1, <2>3, CancelStep, QuietStep
<1>11. CASE ExpireDone
  BY <1>1, <1>11, QuietStep DEF ExpireDone, DateRemove, bookVars
<1>12. CASE Tick
  BY <1>1, <1>12, QuietStep DEF Tick, bookVars
<1>13. CASE UNCHANGED vars
  <2>1. UNCHANGED <<objects, order, qty, params, cancelled, parent, tree, queue, index, date, pc,
                    taker, todo, level, walk>>
    BY <1>13 DEF vars, bookVars, matchVars
  <2>2. TreeShape' /\ CreatedInv' /\ ParentInv' /\ EntriesLinked' /\ NoCross'
    BY <1>1, <2>1, SameBook
  <2>3. TakerInv' /\ TodoInv' /\ WalkInv'
    BY <2>1 DEF BookInv, TakerInv, TodoInv, WalkInv, Created, Levels, LevelOf, TakerSide
  <2>4. SweepInv'
    BY <2>1 DEF BookInv, SweepInv, Levels, LevelOf, TakerSide
  <2> QED
    BY <1>1, <2>2, <2>3, <2>4 DEF BookInv
<1> QED
  BY <1>2, <1>3, <1>4, <1>5, <1>6, <1>7, <1>8, <1>9, <1>10, <1>11, <1>12, <1>13
     DEF Next, Submit, Match, Expire

(* ShapeInv holds throughout, whatever clients send: changes of side,      *)
(* negative quantities and prices included.                                 *)
THEOREM BookShapes == Spec => []ShapeInv
<1>1. ShapeInv /\ [Next]_vars => ShapeInv'
  BY ShapeStep
<1> QED
  BY <1>1, ShapeInit, PTL DEF Spec

(* Every variable keeps its type, whatever the prices and requests: in the  *)
(* face of side changes and negative quantities too, the index and the      *)
(* lists name orders that exist and have been put in a Limit.               *)
THEOREM BookTypes == Spec => []TypeOK
<1>1. ShapeInv => TypeOK
  BY DEF ShapeInv
<1> QED
  BY <1>1, BookShapes, PTL

(* BookInv holds as long as modifications have kept the side of their order *)
(* and no order has come for a negative quantity, which nothing in the code *)
(* makes sure of.                                                           *)
THEOREM BookInvariant == Spec => [](Regular => BookInv)
<1>1. Init => (Regular => BookInv)
  BY BookInit
<1>2. ShapeInv /\ (Regular => BookInv) /\ [Next]_vars => (Regular => BookInv)'
  BY BookStep, RegularBefore
<1> QED
  BY <1>1, <1>2, BookShapes, PTL DEF Spec

(* match_order never leaves a bid level that holds an order at or above an  *)
(* ask level that holds one, as long as modifications have kept the side of *)
(* their order and quantities have not been negative.                       *)
THEOREM BookUncrossed == Spec => []Uncrossed
<1>1. (Regular => BookInv) => Uncrossed
  BY DEF BookInv, Uncrossed
<1> QED
  BY <1>1, BookInvariant, PTL

(* What _orders finds is a live order of that id, linked in the Limit its   *)
(* parent pointer names, as long as modifications have kept the side of     *)
(* their order (IndexSound) and quantities have not been negative.          *)
THEOREM BookIndexSound == Spec => [](NoneNegative => IndexSound)
<1>1. (Regular => BookInv) => (NoneNegative => IndexSound)
  BY DEF BookInv, Regular, IndexSound
<1> QED
  BY <1>1, BookInvariant, PTL

(* What is left of each order is between nothing and what it was for. *)
LEMMA OverdrawnStep ==
    ASSUME ShapeInv, NeverOverdrawn, [Next]_vars
    PROVE  NeverOverdrawn'
<1> SUFFICES ASSUME NoneNegative', NEW x \in Created'
             PROVE  qty'[x] \in 0 .. order'[x].qty
  BY DEF NeverOverdrawn
<1> USE DEF ShapeInv
<1>1. \A y \in Created : y \in Created' /\ order'[y] = order[y] /\ y \in Ref
  BY ObjectsStay, CreatedFacts
<1>2. NoneNegative
  BY <1>1 DEF NoneNegative
<1>3. \A y \in Created : qty[y] \in 0 .. order[y].qty /\ order[y].qty \in Nat
  <2>1. \A y \in Created : order[y] \in OrderRecord
    BY CreatedFacts
  <2> QED
    BY <1>2, <2>1 DEF NeverOverdrawn, NoneNegative, OrderRecord
<1>4. ASSUME NEW req \in Request, NEW id \in Ref \cup {0}, Create(req, id)
      PROVE  qty'[x] \in 0 .. order'[x].qty
  <2>1. PICK n \in Ref : n = objects + 1
    BY <1>4, CreateFacts
  <2>2. PICK i \in Ref : i = IF id = 0 THEN n ELSE id
    BY <2>1
  <2>3. /\ order' = [order EXCEPT ![n] = NewOrder(req, i)] /\ order \in [Ref -> OrderRecord]
        /\ objects' = n /\ qty' = [qty EXCEPT ![n] = req.qty] /\ qty \in [Ref -> Int]
    BY <1>4, <2>1, <2>2, CreateFacts DEF TypeOK
  <2>4. order'[n].qty = req.qty /\ qty'[n] = req.qty /\ req.qty \in Int
    BY <2>3, NewOrderType
  <2>5. CASE x = n
    BY <2>4, <2>5 DEF NoneNegative
  <2>6. CASE x # n
    <3>1. x \in Created
      BY <2>1, <2>3, <2>6 DEF Created, TypeOK
    <3>2. qty'[x] = qty[x]
      BY <1>1, <2>3, <2>6, <3>1
    <3> QED
      BY <1>1, <1>3, <3>1, <3>2
  <2> QED
    BY <2>5, <2>6
<1>5. CASE ResolveOrders
  <2>1. pc = "fill" /\ walk # << >> /\ UNCHANGED objects
    BY <1>5 DEF ResolveOrders
  <2>2. PICK m \in Created : m = Head(walk)
    BY <2>1, HeadOfWalk
  <2>3. taker \in Created /\ taker \in Ref /\ m \in Ref /\ x \in Created
    BY <1>1, <2>1 DEF MatchedInv, Created
  <2>4. qty' = Resolved(m) /\ qty \in [Ref -> Int]
    BY <1>5, <2>2 DEF ResolveOrders, TypeOK
  <2>5. /\ qty[m] \in 0 .. order[m].qty /\ order[m].qty \in Nat
        /\ qty[taker] \in 0 .. order[taker].qty /\ order[taker].qty \in Nat
        /\ qty[x] \in 0 .. order[x].qty /\ order[x].qty \in Nat
    BY <1>3, <2>3
  <2> DEFINE v == qty[m] - qty[taker]
             w == qty[taker] - qty[m]
  <2>6. CASE qty[m] >= qty[taker]
    <3>1. v \in 0 .. order[m].qty
      BY <2>5, <2>6
    <3>2. qty' = [qty EXCEPT ![m] = v, ![taker] = 0]
      BY <2>4, <2>6 DEF Resolved
    <3> HIDE DEF v
    <3>3. qty'[x] = 0 \/ (x = m /\ qty'[x] = v) \/ qty'[x] = qty[x]
      BY <1>1, <2>3, <2>4, <3>2
    <3> QED
      BY <1>1, <2>3, <2>5, <3>1, <3>3
  <2>7. CASE ~(qty[m] >= qty[taker]) /\ HasParam(taker, {"AON"})
    BY <1>1, <2>3, <2>4, <2>5, <2>7 DEF Resolved
  <2>8. CASE ~(qty[m] >= qty[taker]) /\ ~HasParam(taker, {"AON"})
    <3>1. w \in 0 .. order[taker].qty
      BY <2>5, <2>8
    <3>2. qty' = [qty EXCEPT ![taker] = w, ![m] = 0]
      BY <2>4, <2>8 DEF Resolved
    <3> HIDE DEF w
    <3>3. qty'[x] = 0 \/ (x = taker /\ qty'[x] = w) \/ qty'[x] = qty[x]
      BY <1>1, <2>3, <2>4, <3>2
    <3> QED
      BY <1>1, <2>3, <2>5, <3>1, <3>3
  <2> QED
    BY <2>6, <2>7, <2>8
<1>6. CASE UNCHANGED <<objects, qty>>
  <2>1. x \in Created
    BY <1>6 DEF Created
  <2> QED
    BY <1>1, <1>3, <1>6, <2>1
<1>7. CASE \E req \in Request : AddStopOrder(req) \/ AddOrder(req)
  <2>1. PICK req \in Request : Create(req, 0)
    BY <1>7 DEF AddStopOrder, AddOrder
  <2> QED
    BY <1>4, <2>1
<1>8. CASE \E id \in Ref, req \in Request : ModifyOrder(id, req)
  <2>1. PICK id \in Ref, req \in Request : Create(req, id)
    BY <1>8 DEF ModifyOrder
  <2> QED
    BY <1>4, <2>1
<1> QED
  BY <1>5, <1>6, <1>7, <1>8 DEF Next, Submit, Match, Expire, MatchSkip, MatchEnter, KillOrder,
     RestOrder, LeaveLevel, CancelOrder, ModifyNotFound, CheckDateOrders, ExpireOrder, ExpireDone,
     Tick, vars

(* Neither a match nor anything else takes from an order more than it has,  *)
(* or gives it more than it was for, as long as no order is for a negative  *)
(* quantity; changes of side do not matter.                                 *)
THEOREM BookNeverOverdrawn == Spec => []NeverOverdrawn
<1>1. Init => NeverOverdrawn
  BY DEF Init, NeverOverdrawn, Created
<1>2. ShapeInv /\ NeverOverdrawn /\ [Next]_vars => NeverOverdrawn'
  BY OverdrawnStep
<1> QED
  BY <1>1, <1>2, BookShapes, PTL DEF Spec

-----------------------------------------------------------------------------
(* What a match, a cancellation, a modification and the expiry of dated     *)
(* orders may do, on top of the invariant so far.                           *)


(* match_order is at work. *)
Matching == pc \in {"match", "fill"}

(* Objects that do not exist yet have no quantity and no Limit. *)
FreshInv == \A r \in Ref : r > objects => qty[r] = 0 /\ parent[r] = NoLimit

(* An order has only ever been put in a Limit of its own side. *)
SideInv ==
    \A r \in Ref : parent[r] # NoLimit => \E p \in Price : parent[r] = <<order[r].side, p>>

(* The order being matched is the newest object and carries its own id. *)
TakerLatest == Matching => taker = objects /\ order[taker].id = taker

(* The level being processed is within the taker's reach, and better than  *)
(* every level the iterator has still to visit.                            *)
CrossInv ==
    pc = "fill" =>
        /\ Crosses(TakerSide, order[taker].price, level)
        /\ \A q \in todo : Before(Opposite(TakerSide), level, q)

(* The stop orders are kept apart from the match in progress too. *)
AsideInv ==
    /\ StopSetAside
    /\ \A s \in Side : /\ stop[s] \subseteq Created
                       /\ Matching => taker \notin stop[s]
                       /\ pc = "fill" => \A i \in DOMAIN walk : walk[i] \notin stop[s]

(* An order that add_order has matched as all-or-nothing. *)
MatchedWhole(r) == "AON" \in params[r] /\ order[r].id = r

(* No such order is among the makers. *)
WholeInv ==
    /\ AllOrNothing
    /\ pc = "fill" => \A i \in DOMAIN walk : ~MatchedWhole(walk[i])

(* The index and the date tree know only objects that carry their own id:  *)
(* what a modification brings enters neither.                              *)
OwnIdInv ==
    /\ \A id \in Ref : index[id] \in {0, id}
    /\ \A r \in date : order[r].id = r /\ HasParam(r, Dated)

(* While check_date_orders runs there is no answer to be wrong about. *)
ReplyInv ==
    /\ ReplyTruthful
    /\ pc = "expire" => reply.status = "NONE"

DetailInv ==
    /\ FreshInv
    /\ SideInv
    /\ TakerLatest
    /\ CrossInv
    /\ TimePriority
    /\ AsideInv
    /\ WholeInv
    /\ OwnIdInv
    /\ ReplyInv

-----------------------------------------------------------------------------
(* What the operations do, field by field *)

(* The object a request creates. *)
LEMMA CreateEffect ==
    ASSUME TypeOK, CreatedInv, NEW req \in Request, NEW id \in Created \cup {0}, Create(req, id)
    PROVE  LET n == objects + 1 IN
           /\ n \in Ref /\ n \notin Created /\ n \in Created' /\ Created' = Created \cup {n}
           /\ objects' = n /\ n > objects
           /\ \A x \in Ref : x # n => order'[x] = order[x] /\ qty'[x] = qty[x]
           /\ order'[n].id = IF id = 0 THEN n ELSE id
           /\ order'[n].side = req.side /\ req.side \in Side
           /\ qty'[n] = order'[n].qty
<1> DEFINE n == objects + 1
           i == IF id = 0 THEN n ELSE id
<1>1. id \in Ref \cup {0}
  BY BookAssumption DEF TypeOK, Created, Ref
<1>2. /\ n \in Ref /\ i \in Ref /\ objects' = n
      /\ order' = [order EXCEPT ![n] = NewOrder(req, i)]
      /\ qty' = [qty EXCEPT ![n] = req.qty]
  BY <1>1, CreateFacts
<1>3. objects \in Nat
  BY BookAssumption DEF TypeOK
<1>4. n \notin Created /\ n \in Created' /\ Created' = Created \cup {n} /\ n > objects
  BY <1>2, <1>3 DEF Created
<1> HIDE DEF n, i
<1>5. order \in [Ref -> OrderRecord] /\ qty \in [Ref -> Int]
  BY DEF TypeOK
<1>6. /\ order'[n] = NewOrder(req, i) /\ qty'[n] = req.qty
      /\ \A x \in Ref : x # n => order'[x] = order[x] /\ qty'[x] = qty[x]
  BY <1>2, <1>5
<1>7. /\ order'[n].id = i /\ order'[n].side = req.side /\ req.side \in Side
      /\ order'[n].qty = req.qty
  BY <1>2, <1>6, NewOrderType
<1> QED
  BY <1>2, <1>4, <1>6, <1>7 DEF n, i

(* add_limit_order at the end of a match. *)
LEMMA RestEffect ==
    ASSUME BookInv, RestOrder
    PROVE  \E s \in Side, p \in Price :
               /\ s = TakerSide /\ s = order[taker].side /\ <<s, p>> \in Limit
               /\ taker \in Created /\ taker \in Ref
               /\ parent' = [parent EXCEPT ![taker] = <<s, p>>]
               /\ queue' \in {[queue EXCEPT ![<<s, p>>] = Append(@, taker)],
                              [queue EXCEPT ![<<s, p>>] = <<taker>>]}
               /\ tree' = [tree EXCEPT ![s][p] = <<s, p>>]
               /\ \A t \in Side, q \in Price : tree[t][q] # NoLimit => tree'[t][q] = tree[t][q]
<1> USE DEF BookInv
<1>1. /\ taker \in Created
      /\ AddLimitOrder(taker, TakerSide, qty[taker], <<TakerSide, order[taker].price>>, queue, volume)
  BY DEF RestOrder, NoMatch, TakerInv
<1>2. PICK s \in Side, p \in Price : s = TakerSide /\ p = order[taker].price
  BY <1>1, CreatedFacts DEF TakerSide
<1>3. taker \in Ref
  BY <1>1, CreatedFacts
<1> DEFINE h == <<s, p>>
<1>4. h \in Limit /\ Home(s, h) = h /\ h[2] = p
  BY HomeFacts
<1>5. /\ parent' = [parent EXCEPT ![taker] = h]
      /\ tree' = [tree EXCEPT ![s][p] = h]
      /\ queue' = [queue EXCEPT ![h] = IF tree[s][p] # NoLimit THEN Append(@, taker) ELSE <<taker>>]
  BY <1>1, <1>2, <1>4 DEF AddLimitOrder
<1>6. queue' \in {[queue EXCEPT ![h] = Append(@, taker)], [queue EXCEPT ![h] = <<taker>>]}
  BY <1>5
<1>7. \A t \in Side, q \in Price : tree[t][q] # NoLimit => tree'[t][q] = tree[t][q]
  BY <1>5 DEF TreeShape, TypeOK
<1> QED
  BY <1>1, <1>2, <1>3, <1>4, <1>5, <1>6, <1>7 DEF TakerSide

(* modify_order: the new object at the end of the old one's Limit, or aside. *)
LEMMA ModifyEffect ==
    ASSUME BookInv, Regular', NEW id \in Ref, NEW req \in Request, ModifyOrder(id, req)
    PROVE  LET n == objects + 1
               r == index[id]
           IN
           /\ r \in Created /\ r \in Ref /\ r # n /\ order[r].id = id /\ id \in Created
           /\ req.side = order[r].side /\ req.side \in Side
           /\ parent[r] \in Limit
           /\ \E p \in Price : parent[r] = <<req.side, p>>
           /\ \/ /\ UNCHANGED <<parent, tree, queue>>
                 /\ stop' = [stop EXCEPT ![req.side] = StopInsert(order', @, n)]
              \/ /\ parent' = [parent EXCEPT ![n] = parent[r]]
                 /\ queue' = [queue EXCEPT ![parent[r]] = Append(Unlink(queue[parent[r]], r), n)]
                 /\ UNCHANGED <<tree, stop>>
<1> USE DEF BookInv
<1>1. PICK r \in Ref : r = index[id]
  BY DEF ModifyOrder, TypeOK
<1>2. r \in Created /\ EntrySound(id, r) /\ parent[r] \in Limit /\ order[r].id = id
  BY <1>1, EntryOf, EntryFacts DEF ModifyOrder
<1>3. id \in Created
  BY <1>2 DEF CreatedInv
<1>4. PICK n \in Ref : n = objects + 1 /\ n \notin Created
  BY <1>3, CreateEffect DEF ModifyOrder
<1>5. req.side = order[r].side /\ order[r].side \in Side
  BY <1>1, <1>2, CreatedFacts, SideKept DEF ModifyOrder
<1>6. PICK s \in Side, p \in Price : /\ s = order[r].side /\ parent[r] = <<s, p>>
                                     /\ tree[s][p] = <<s, p>>
  BY <1>2, <1>5 DEF EntrySound
<1>7. CASE HasParam(r, {"STOP"})
  <2>1. /\ UNCHANGED <<parent, tree, queue>>
        /\ stop' = [stop EXCEPT ![req.side] = StopInsert(order', @, n)]
    BY <1>1, <1>4, <1>7 DEF ModifyOrder, bookVars
  <2> QED
    BY <1>1, <1>2, <1>3, <1>4, <1>5, <1>6, <2>1
<1>8. CASE ~HasParam(r, {"STOP"})
  <2> DEFINE h == <<s, p>>
  <2>1. h \in Limit /\ Home(s, h) = h /\ h[2] = p /\ tree[s][p] = h /\ parent[r] = h /\ h # NoLimit
    BY <1>6, HomeFacts, BookAssumption
  <2> HIDE DEF h
  <2>2. /\ AddLimitOrder(n, s, req.qty, h, [queue EXCEPT ![h] = Unlink(@, r)],
                         [volume EXCEPT ![h] = Decrease(@, qty[r])])
        /\ UNCHANGED stop
    BY <1>1, <1>4, <1>5, <1>6, <1>8, <2>1 DEF ModifyOrder
  <2>3. /\ parent' = [parent EXCEPT ![n] = h]
        /\ tree' = [tree EXCEPT ![s][p] = h]
        /\ queue' = [[queue EXCEPT ![h] = Unlink(@, r)] EXCEPT ![h] = Append(@, n)]
    BY <2>1, <2>2 DEF AddLimitOrder
  <2>4. tree' = tree
    BY <2>1, <2>3 DEF TypeOK
  <2>5. queue' = [queue EXCEPT ![h] = Append(Unlink(queue[h], r), n)]
    BY <2>1, <2>3 DEF TypeOK
  <2> QED
    BY <1>1, <1>2, <1>3, <1>4, <1>5, <1>6, <2>1, <2>2, <2>3, <2>4, <2>5
<1> QED
  BY <1>7, <1>8

(* cancel_order of a known id. *)
LEMMA CancelEffect ==
    ASSUME BookInv, NEW id \in Ref, NEW sent, CancelEntry(id, sent)
    PROVE  \E r \in Created :
               /\ r = index[id] /\ r \in Ref /\ order[r].id = id /\ parent[r] \in Limit
               /\ cancelled' = cancelled \cup {r}
               /\ index' = [index EXCEPT ![id] = 0]
               /\ \A s \in Side : stop'[s] \subseteq stop[s]
               /\ \/ UNCHANGED queue
                  \/ queue' = [queue EXCEPT ![parent[r]] = Unlink(queue[parent[r]], r)]
<1> USE DEF BookInv
<1>1. PICK r \in Ref : r = index[id]
  BY DEF CancelEntry, TypeOK
<1>2. r \in Created /\ parent[r] \in Limit /\ order[r].id = id /\ order[r].side \in Side
  BY <1>1, EntryFacts DEF CancelEntry
<1>3. cancelled' = cancelled \cup {r}
  BY <1>1 DEF CancelEntry
<1>4. CASE HasParam(r, {"STOP"})
  <2>1. RemoveStopOrder(order, r) /\ UNCHANGED queue
    BY <1>1, <1>4 DEF CancelEntry
  <2>2. \A s \in Side : stop'[s] \subseteq stop[s]
    BY <1>2, <2>1 DEF RemoveStopOrder, StopRemove, TypeOK
  <2> QED
    BY <1>1, <1>2, <1>3, <2>1, <2>2 DEF RemoveStopOrder
<1>5. CASE ~HasParam(r, {"STOP"})
  <2>1. RemoveLimitOrder(r, qty[r]) /\ UNCHANGED stop
    BY <1>1, <1>5 DEF CancelEntry
  <2> QED
    BY <1>1, <1>2, <1>3, <2>1 DEF RemoveLimitOrder
<1> QED
  BY <1>4, <1>5

(* process_limit_order: one maker meets the taker. *)
LEMMA ResolveEffect ==
    ASSUME BookInv, ResolveOrders
    PROVE  LET m == Head(walk) IN
           /\ m \in Ref /\ m \in Created /\ m # taker /\ taker \in Ref /\ taker \in Created
           /\ 1 \in DOMAIN walk /\ m = walk[1]
           /\ LevelOf(level) = <<Opposite(TakerSide), level>> /\ level \in Price
           /\ parent[m] = LevelOf(level) /\ parent[m] \in Limit
           /\ \A x \in Ref : x # m /\ x # taker => qty'[x] = qty[x]
           /\ qty[m] - qty'[m] = qty[taker] - qty'[taker]
           /\ qty'[m] # qty[m] => qty'[m] < qty[m]
           /\ "AON" \in params[taker] => qty'[taker] \in {0, qty[taker]}
           /\ \/ UNCHANGED <<queue, index>>
              \/ /\ queue' = [queue EXCEPT ![parent[m]] = Unlink(queue[parent[m]], m)]
                 /\ index' = [index EXCEPT ![order[m].id] = 0]
<1> USE DEF BookInv
<1>1. pc = "fill" /\ walk # << >> /\ qty[taker] > 0
  BY DEF ResolveOrders
<1>2. PICK m \in Ref : m = Head(walk)
  BY <1>1, WalkHead
<1>3. /\ m \in Created /\ m # taker /\ taker \in Ref
      /\ LevelOf(level) = <<Opposite(TakerSide), level>>
      /\ parent[m] = LevelOf(level) /\ parent[m] \in Limit
  BY <1>1, <1>2, WalkHead
<1>4. 1 \in DOMAIN walk /\ m = walk[1] /\ level \in Price /\ taker \in Created
  BY <1>1, <1>2 DEF TypeOK, WalkInv, TakerInv
<1>5. /\ qty' = Resolved(m)
      /\ qty'[m] = 0 => RemoveLimitOrder(m, 0)
      /\ qty'[m] # 0 => UNCHANGED <<queue, index>>
  BY <1>2 DEF ResolveOrders
<1>6. \/ UNCHANGED <<queue, index>>
      \/ /\ queue' = [queue EXCEPT ![parent[m]] = Unlink(queue[parent[m]], m)]
         /\ index' = [index EXCEPT ![order[m].id] = 0]
  BY <1>5 DEF RemoveLimitOrder
<1>7. qty \in [Ref -> Nat] /\ qty[m] \in Nat /\ qty[taker] \in Nat
  BY <1>3 DEF NaturalInv
<1>8. /\ \A x \in Ref : x # m /\ x # taker => qty'[x] = qty[x]
      /\ qty[m] - qty'[m] = qty[taker] - qty'[taker]
      /\ qty'[m] # qty[m] => qty'[m] < qty[m]
      /\ "AON" \in params[taker] => qty'[taker] \in {0, qty[taker]}
  <2> DEFINE v == qty[m] - qty[taker]
             w == qty[taker] - qty[m]
  <2>1. CASE qty[m] >= qty[taker]
    <3>1. qty' = [qty EXCEPT ![m] = v, ![taker] = 0]
      BY <1>5, <2>1 DEF Resolved
    <3>2. /\ qty'[m] = v /\ qty'[taker] = 0
          /\ \A x \in Ref : x # m /\ x # taker => qty'[x] = qty[x]
      <4> HIDE DEF v
      <4> QED
        BY <1>3, <1>7, <3>1
    <3> QED
      BY <1>1, <1>7, <2>1, <3>2
  <2>2. CASE ~(qty[m] >= qty[taker]) /\ HasParam(taker, {"AON"})
    BY <1>5, <1>7, <2>2 DEF Resolved
  <2>3. CASE ~(qty[m] >= qty[taker]) /\ ~HasParam(taker, {"AON"})
    <3>1. qty' = [qty EXCEPT ![taker] = w, ![m] = 0]
      BY <1>5, <2>3 DEF Resolved
    <3>2. /\ qty'[m] = 0 /\ qty'[taker] = w
          /\ \A x \in Ref : x # m /\ x # taker => qty'[x] = qty[x]
      <4> HIDE DEF w
      <4> QED
        BY <1>3, <1>7, <3>1
    <3>3. "AON" \notin params[taker]
      BY <2>3 DEF HasParam
    <3> QED
      BY <1>7, <2>3, <3>2, <3>3
  <2> QED
    BY <2>1, <2>2, <2>3
<1> QED
  BY <1>2, <1>3, <1>4, <1>6, <1>8
-----------------------------------------------------------------------------
(* Links *)

(* Unlinking and appending, seen from one level. *)
LEMMA UnlinkLinks ==
    ASSUME TypeOK, NEW h \in Limit, NEW r, queue' = [queue EXCEPT ![h] = Unlink(queue[h], r)]
    PROVE  \A l \in Limit : \A j \in DOMAIN queue'[l] :
               \E i \in DOMAIN queue[l] : queue'[l][j] = queue[l][i]
<1> DEFINE u == Unlink(queue[h], r)
<1>1. queue \in [Limit -> Seq(Ref)] /\ queue[h] \in Seq(Ref)
  BY DEF TypeOK
<1>2. \A j \in DOMAIN u : \E i \in DOMAIN queue[h] : u[j] = queue[h][i]
  BY <1>1, UnlinkFacts
<1> HIDE DEF u
<1>3. queue'[h] = u /\ \A l \in Limit : l # h => queue'[l] = queue[l]
  BY <1>1 DEF u
<1> QED
  BY <1>2, <1>3

(* The elements of a list with one more at its end. *)
LEMMA AppendElements ==
    ASSUME NEW S, NEW s \in Seq(S), NEW e \in S
    PROVE  /\ \A j \in DOMAIN Append(s, e) :
                  Append(s, e)[j] = e \/ \E i \in DOMAIN s : Append(s, e)[j] = s[i]
           /\ \E j \in DOMAIN Append(s, e) : Append(s, e)[j] = e
<1> DEFINE t == Append(s, e)
<1>1. /\ Len(s) \in Nat /\ DOMAIN s = 1 .. Len(s) /\ DOMAIN t = 1 .. Len(s) + 1
      /\ t[Len(s) + 1] = e /\ \A i \in DOMAIN s : t[i] = s[i]
  OBVIOUS
<1> HIDE DEF t
<1>2. ASSUME NEW j \in DOMAIN t
      PROVE  t[j] = e \/ \E i \in DOMAIN s : t[j] = s[i]
  <2>1. CASE j \in DOMAIN s
    BY <1>1, <2>1
  <2>2. CASE j \notin DOMAIN s
    BY <1>1, <1>2, <2>2
  <2> QED
    BY <2>1, <2>2
<1>3. \E j \in DOMAIN t : t[j] = e
  BY <1>1
<1> QED
  BY <1>2, <1>3 DEF t

(* What add_limit_order links at the end of a match. *)
LEMMA RestLinks ==
    ASSUME BookInv, RestOrder
    PROVE  /\ \A l \in Limit : \A j \in DOMAIN queue'[l] :
                  queue'[l][j] = taker \/ \E i \in DOMAIN queue[l] : queue'[l][j] = queue[l][i]
           /\ \E l \in Limit : \E j \in DOMAIN queue'[l] : queue'[l][j] = taker
<1>1. PICK h \in Limit : /\ taker \in Ref
                         /\ queue' \in {[queue EXCEPT ![h] = Append(@, taker)],
                                        [queue EXCEPT ![h] = <<taker>>]}
  BY RestEffect
<1>2. queue \in [Limit -> Seq(Ref)] /\ queue[h] \in Seq(Ref)
  BY DEF BookInv, TypeOK
<1>3. /\ queue'[h] \in {Append(queue[h], taker), <<taker>>}
      /\ \A l \in Limit : l # h => queue'[l] = queue[l]
  BY <1>1, <1>2
<1>4. /\ \A j \in DOMAIN queue'[h] :
             queue'[h][j] = taker \/ \E i \in DOMAIN queue[h] : queue'[h][j] = queue[h][i]
      /\ \E j \in DOMAIN queue'[h] : queue'[h][j] = taker
  <2>1. CASE queue'[h] = Append(queue[h], taker)
    BY <1>1, <1>2, <2>1, AppendElements
  <2>2. CASE queue'[h] = <<taker>>
    BY <2>2
  <2> QED
    BY <1>3, <2>1, <2>2
<1> QED
  BY <1>3, <1>4

(* What modify_order links. *)
LEMMA ModifyLinks ==
    ASSUME BookInv, Regular', NEW id \in Ref, NEW req \in Request, ModifyOrder(id, req)
    PROVE  LET n == objects + 1 IN
           /\ \A l \in Limit : \A j \in DOMAIN queue'[l] :
                  queue'[l][j] = n \/ \E i \in DOMAIN queue[l] : queue'[l][j] = queue[l][i]
           /\ \/ /\ n \in stop'[req.side]
                 /\ UNCHANGED queue
                 /\ \A s \in Side : stop'[s] \subseteq stop[s] \cup (IF s = req.side THEN {n} ELSE {})
              \/ /\ \E l \in Limit : \E j \in DOMAIN queue'[l] : queue'[l][j] = n
                 /\ UNCHANGED stop
<1> DEFINE n == objects + 1
<1>1. PICK r \in Ref : r = index[id] /\ parent[r] \in Limit
  BY ModifyEffect
<1>2. n \in Ref /\ req.side \in Side
  <2>1. id \in Created
    BY ModifyEffect
  <2> QED
    BY <2>1, CreateEffect DEF ModifyOrder, BookInv
<1>3. \/ /\ UNCHANGED <<parent, tree, queue>>
         /\ stop' = [stop EXCEPT ![req.side] = StopInsert(order', @, n)]
      \/ /\ parent' = [parent EXCEPT ![n] = parent[r]]
         /\ queue' = [queue EXCEPT ![parent[r]] = Append(Unlink(queue[parent[r]], r), n)]
         /\ UNCHANGED <<tree, stop>>
  BY <1>1, ModifyEffect
<1> HIDE DEF n
<1>4. CASE UNCHANGED queue /\ stop' = [stop EXCEPT ![req.side] = StopInsert(order', @, n)]
  <2>1. /\ n \in stop'[req.side]
        /\ \A s \in Side : stop'[s] \subseteq stop[s] \cup (IF s = req.side THEN {n} ELSE {})
    BY <1>2, <1>4 DEF StopInsert, BookInv, TypeOK
  <2> QED
    BY <1>4, <2>1 DEF n
<1>5. CASE /\ queue' = [queue EXCEPT ![parent[r]] = Append(Unlink(queue[parent[r]], r), n)]
           /\ UNCHANGED stop
  <2>1. PICK h \in Limit : h = parent[r]
    BY <1>1
  <2>2. queue \in [Limit -> Seq(Ref)] /\ queue[h] \in Seq(Ref)
    BY DEF BookInv, TypeOK
  <2> DEFINE u == Unlink(queue[h], r)
  <2>3. u \in Seq(Ref) /\ \A j \in DOMAIN u : \E i \in DOMAIN queue[h] : u[j] = queue[h][i]
    BY <2>2, UnlinkFacts
  <2>4. queue'[h] = Append(u, n) /\ \A l \in Limit : l # h => queue'[l] = queue[l]
    BY <1>5, <2>1, <2>2
  <2> HIDE DEF u
  <2>5. /\ \A j \in DOMAIN queue'[h] : queue'[h][j] = n \/ \E i \in DOMAIN u : queue'[h][j] = u[i]
        /\ \E j \in DOMAIN queue'[h] : queue'[h][j] = n
    BY <1>2, <2>3, <2>4, AppendElements
  <2>6. ASSUME NEW l \in Limit, NEW j \in DOMAIN queue'[l]
        PROVE  queue'[l][j] = n \/ \E i \in DOMAIN queue[l] : queue'[l][j] = queue[l][i]
    <3>1. CASE l # h
      BY <2>4, <2>6, <3>1
    <3>2. CASE l = h
      BY <2>3, <2>5, <2>6, <3>2
    <3> QED
      BY <3>1, <3>2
  <2>7. \E l \in Limit : \E j \in DOMAIN queue'[l] : queue'[l][j] = n
    BY <2>5
  <2> QED
    BY <1>5, <2>6, <2>7 DEF n
<1> QED
  BY <1>3, <1>4, <1>5

(* A step links no order but the taker that comes to rest and the object a  *)
(* modification brings.                                                     *)
LEMMA NewLinks ==
    ASSUME BookInv, Regular', [Next]_vars, NEW l \in Limit, NEW j \in DOMAIN queue'[l]
    PROVE  \/ \E i \in DOMAIN queue[l] : queue'[l][j] = queue[l][i]
           \/ RestOrder /\ queue'[l][j] = taker
           \/ \E id \in Ref, req \in Request : ModifyOrder(id, req) /\ queue'[l][j] = objects + 1
<1>1. CASE UNCHANGED queue
  BY <1>1
<1>2. CASE RestOrder
  BY <1>2, RestLinks
<1>3. ASSUME NEW id \in Ref, NEW req \in Request, ModifyOrder(id, req)
      PROVE  ModifyOrder(id, req) /\ (\/ queue'[l][j] = objects + 1
                                      \/ \E i \in DOMAIN queue[l] : queue'[l][j] = queue[l][i])
  BY <1>3, ModifyLinks
<1>4. CASE ResolveOrders
  BY <1>1, <1>4, ResolveEffect, UnlinkLinks DEF BookInv
<1>5. ASSUME NEW id \in Ref, NEW sent, CancelEntry(id, sent)
      PROVE  \E i \in DOMAIN queue[l] : queue'[l][j] = queue[l][i]
  <2>1. UNCHANGED queue \/ \E h \in Limit, r \in Ref : queue' = [queue EXCEPT ![h] = Unlink(queue[h], r)]
    BY <1>5, CancelEffect
  <2> QED
    BY <1>1, <2>1, UnlinkLinks DEF BookInv
<1>6. ASSUME NEW r \in Ref, ExpireOrder(r)
      PROVE  \E i \in DOMAIN queue[l] : queue'[l][j] = queue[l][i]
  <2>1. r \in Created
    BY <1>6 DEF ExpireOrder, Earliest, BookInv, CreatedInv
  <2>2. PICK id \in Ref : id = order[r].id
    BY <2>1, CreatedFacts DEF BookInv
  <2>3. CancelEntry(id, outbox) \/ UNCHANGED queue
    BY <1>6, <2>2 DEF ExpireOrder
  <2> QED
    BY <1>1, <1>5, <2>3
<1>7. ASSUME NEW id \in Ref, CancelOrder(id)
      PROVE  \E i \in DOMAIN queue[l] : queue'[l][j] = queue[l][i]
  BY <1>1, <1>5, <1>7 DEF CancelOrder
<1>8. CASE \/ \E req \in Request : AddStopOrder(req) \/ AddOrder(req)
           \/ \E id \in Ref : ModifyNotFound(id)
           \/ CheckDateOrders
           \/ \E p \in Price : MatchSkip(p) \/ MatchEnter(p)
           \/ KillOrder
           \/ LeaveLevel
           \/ ExpireDone
           \/ Tick
           \/ UNCHANGED vars
  <2>1. UNCHANGED queue
    BY <1>8 DEF AddStopOrder, AddOrder, ModifyNotFound, CheckDateOrders, MatchSkip, MatchEnter,
                KillOrder, LeaveLevel, ExpireDone, Tick, vars, bookVars
  <2> QED
    BY <1>1, <2>1
<1> QED
  BY <1>2, <1>3, <1>4, <1>6, <1>7, <1>8 DEF Next, Submit, Match, Expire

-----------------------------------------------------------------------------
(* The parts of the invariant, step by step *)

(* No step gives a quantity or a Limit to an object that does not exist. *)
LEMMA FreshStep ==
    ASSUME BookInv, Regular', FreshInv, [Next]_vars
    PROVE  FreshInv'
<1> USE DEF BookInv
<1>1. Ref \subseteq Nat /\ objects \in Nat /\ qty \in [Ref -> Nat] /\ parent \in [Ref -> Limit \cup {NoLimit}]
  BY BookAssumption DEF Ref, TypeOK, NaturalInv
<1>2. ASSUME NEW req \in Request, AddStopOrder(req) \/ AddOrder(req)
      PROVE  FreshInv'
  <2>1. Create(req, 0) /\ UNCHANGED parent
    BY <1>2 DEF AddStopOrder, AddOrder, bookVars
  <2>2. objects' = objects + 1 /\ \A x \in Ref : x # objects + 1 => qty'[x] = qty[x]
    BY <2>1, CreateEffect
  <2> QED
    BY <1>1, <2>1, <2>2 DEF FreshInv
<1>3. ASSUME NEW id \in Ref, NEW req \in Request, ModifyOrder(id, req)
      PROVE  FreshInv'
  <2>1. id \in Created
    BY <1>3, ModifyEffect
  <2>2. /\ objects' = objects + 1 /\ objects + 1 \in Ref
        /\ \A x \in Ref : x # objects + 1 => qty'[x] = qty[x]
    BY <1>3, <2>1, CreateEffect DEF ModifyOrder
  <2>3. \A x \in Ref : x # objects + 1 => parent'[x] = parent[x]
    <3>1. UNCHANGED parent \/ parent' = [parent EXCEPT ![objects + 1] = parent[index[id]]]
      BY <1>3, ModifyEffect
    <3> QED
      BY <1>1, <3>1
  <2> QED
    BY <1>1, <2>2, <2>3 DEF FreshInv
<1>4. CASE RestOrder
  <2>1. UNCHANGED <<objects, qty>>
    BY <1>4 DEF RestOrder
  <2>2. taker \in Created /\ \A x \in Ref : x # taker => parent'[x] = parent[x]
    BY <1>1, <1>4, RestEffect
  <2> QED
    BY <1>1, <2>1, <2>2 DEF FreshInv, Created
<1>5. CASE ResolveOrders
  <2>1. UNCHANGED <<objects, parent>>
    BY <1>5 DEF ResolveOrders
  <2>2. PICK m \in Created : taker \in Created /\ \A x \in Ref : x # m /\ x # taker => qty'[x] = qty[x]
    BY <1>5, ResolveEffect
  <2> QED
    BY <1>1, <2>1, <2>2 DEF FreshInv, Created
<1>6. CASE UNCHANGED <<objects, qty, parent>>
  BY <1>6 DEF FreshInv
<1>7. CASE \/ \E id \in Ref : CancelOrder(id) \/ ModifyNotFound(id)
           \/ CheckDateOrders
           \/ \E p \in Price : MatchSkip(p) \/ MatchEnter(p)
           \/ KillOrder
           \/ LeaveLevel
           \/ Expire
           \/ Tick
           \/ UNCHANGED vars
  BY <1>6, <1>7 DEF CancelOrder, ModifyNotFound, CheckDateOrders, MatchSkip, MatchEnter, KillOrder,
                    LeaveLevel, Expire, ExpireOrder, ExpireDone, Tick, vars, bookVars
<1> QED
  BY <1>2, <1>3, <1>4, <1>5, <1>7 DEF Next, Submit, Match

(* An order is put in a Limit of its own side, at rest and when modified. *)
LEMMA SideStep ==
    ASSUME BookInv, Regular', FreshInv, SideInv, [Next]_vars
    PROVE  SideInv'
<1> USE DEF BookInv
<1>1. Ref \subseteq Nat /\ objects \in Nat /\ parent \in [Ref -> Limit \cup {NoLimit}]
  BY BookAssumption DEF Ref, TypeOK
<1>2. ASSUME NEW req \in Request, AddStopOrder(req) \/ AddOrder(req)
      PROVE  SideInv'
  <2>1. Create(req, 0) /\ UNCHANGED parent
    BY <1>2 DEF AddStopOrder, AddOrder, bookVars
  <2>2. \A x \in Ref : x # objects + 1 => order'[x] = order[x]
    BY <2>1, CreateEffect
  <2>3. \A x \in Ref : x = objects + 1 => parent[x] = NoLimit
    BY <1>1 DEF FreshInv
  <2> QED
    BY <2>1, <2>2, <2>3 DEF SideInv
<1>3. ASSUME NEW id \in Ref, NEW req \in Request, ModifyOrder(id, req)
      PROVE  SideInv'
  <2>1. id \in Created /\ \E p \in Price : parent[index[id]] = <<req.side, p>>
    BY <1>3, ModifyEffect
  <2>2. PICK n \in Ref : n = objects + 1
    BY <1>3, <2>1, CreateEffect DEF ModifyOrder
  <2>3. (\A x \in Ref : x # n => order'[x] = order[x]) /\ order'[n].side = req.side
    BY <1>3, <2>1, <2>2, CreateEffect DEF ModifyOrder
  <2>4. UNCHANGED parent \/ parent' = [parent EXCEPT ![n] = parent[index[id]]]
    BY <1>3, <2>2, ModifyEffect
  <2>5. parent[n] = NoLimit
    BY <1>1, <2>2 DEF FreshInv
  <2>6. ASSUME NEW x \in Ref, parent'[x] # NoLimit
        PROVE  \E p \in Price : parent'[x] = <<order'[x].side, p>>
    <3>1. CASE x = n
      <4>1. parent'[n] = parent[index[id]]
        BY <1>1, <2>4, <2>5, <2>6, <3>1
      <4> QED
        BY <2>1, <2>3, <3>1, <4>1
    <3>2. CASE x # n
      <4>1. parent'[x] = parent[x] /\ order'[x] = order[x]
        BY <1>1, <2>3, <2>4, <3>2
      <4> QED
        BY <2>6, <4>1 DEF SideInv
    <3> QED
      BY <3>1, <3>2
  <2> QED
    BY <2>6 DEF SideInv
<1>4. CASE RestOrder
  <2>1. UNCHANGED order
    BY <1>4 DEF RestOrder
  <2>2. PICK s \in Side, p \in Price : /\ s = order[taker].side /\ taker \in Ref
                                       /\ parent' = [parent EXCEPT ![taker] = <<s, p>>]
    BY <1>4, RestEffect
  <2>3. parent'[taker] = <<s, p>> /\ \A x \in Ref : x # taker => parent'[x] = parent[x]
    BY <1>1, <2>2
  <2> QED
    BY <2>1, <2>2, <2>3 DEF SideInv
<1>5. CASE UNCHANGED <<order, parent>>
  BY <1>5 DEF SideInv
<1>6. CASE \/ \E id \in Ref : CancelOrder(id) \/ ModifyNotFound(id)
           \/ CheckDateOrders
           \/ \E p \in Price : MatchSkip(p) \/ MatchEnter(p)
           \/ KillOrder
           \/ ResolveOrders
           \/ LeaveLevel
           \/ Expire
           \/ Tick
           \/ UNCHANGED vars
  BY <1>5, <1>6 DEF CancelOrder, ModifyNotFound, CheckDateOrders, MatchSkip, MatchEnter, KillOrder,
                    ResolveOrders, LeaveLevel, Expire, ExpireOrder, ExpireDone, Tick, vars, bookVars
<1> QED
  BY <1>2, <1>3, <1>4, <1>6 DEF Next, Submit, Match

(* A match is about the newest object from its first step to its last, and  *)
(* only enters levels its price reaches, the best of those left first.      *)
LEMMA ReachStep ==
    ASSUME ShapeInv, TakerLatest, CrossInv, [Next]_vars
    PROVE  TakerLatest' /\ CrossInv'
<1> USE DEF ShapeInv
<1>1. CASE pc' \notin {"match", "fill"}
  BY <1>1 DEF TakerLatest, CrossInv, Matching
<1>2. ASSUME NEW req \in Request, AddOrder(req)
      PROVE  TakerLatest' /\ CrossInv'
  <2>1. Create(req, 0) /\ pc' = "match" /\ taker' = objects + 1
    BY <1>2 DEF AddOrder
  <2>2. objects' = objects + 1 /\ order'[objects + 1].id = objects + 1
    BY <2>1, CreateEffect
  <2> QED
    BY <2>1, <2>2 DEF TakerLatest, CrossInv, Matching
<1>3. ASSUME NEW p \in Price, MatchEnter(p)
      PROVE  TakerLatest' /\ CrossInv'
  <2>1. /\ UNCHANGED <<objects, order, taker>> /\ pc = "match" /\ pc' = "fill" /\ level' = p
        /\ todo' = todo \ {p} /\ First(Opposite(TakerSide), todo, p)
        /\ Crosses(TakerSide, order[taker].price, p)
    BY <1>3 DEF MatchEnter
  <2>2. \A q \in todo' : Before(Opposite(TakerSide), p, q)
    BY <2>1 DEF First
  <2> QED
    BY <2>1, <2>2 DEF TakerLatest, CrossInv, Matching, TakerSide
<1>4. ASSUME NEW p \in Price, MatchSkip(p)
      PROVE  TakerLatest' /\ CrossInv'
  BY <1>4 DEF MatchSkip, TakerLatest, CrossInv, Matching
<1>5. CASE ResolveOrders
  BY <1>5 DEF ResolveOrders, TakerLatest, CrossInv, Matching, TakerSide
<1>6. CASE LeaveLevel
  BY <1>1, <1>6 DEF LeaveLevel, Return, matchVars, TakerLatest, CrossInv, Matching
<1>7. CASE \/ \E req \in Request : AddStopOrder(req)
           \/ \E id \in Ref : CancelOrder(id) \/ ModifyNotFound(id)
           \/ \E id \in Ref, req \in Request : ModifyOrder(id, req)
           \/ CheckDateOrders
           \/ KillOrder
           \/ RestOrder
           \/ Expire
           \/ Tick
  BY <1>1, <1>7 DEF AddStopOrder, CancelOrder, ModifyNotFound, ModifyOrder, CheckDateOrders, KillOrder,
                    RestOrder, Return, Expire, ExpireOrder, ExpireDone, Tick
<1>8. CASE UNCHANGED vars
  BY <1>8 DEF vars, matchVars, TakerLatest, CrossInv, Matching, TakerSide
<1> QED
  BY <1>2, <1>3, <1>4, <1>5, <1>6, <1>7, <1>8 DEF Next, Submit, Match

-----------------------------------------------------------------------------
(* Time priority *)

Increasing(s) == \A i, j \in DOMAIN s : i < j => s[i] < s[j]

(* Unlinking an order leaves the others in their order. *)
LEMMA UnlinkIncreasing ==
    ASSUME NEW s \in Seq(Nat), NEW r, Increasing(s)
    PROVE  Increasing(Unlink(s, r))
<1>1. CASE ~ \E i \in DOMAIN s : s[i] = r
  BY <1>1 DEF Unlink
<1>2. CASE \E i \in DOMAIN s : s[i] = r
  <2>1. PICK k \in DOMAIN s : k = FirstIndex(s, r)
    BY <1>2, FirstIndexFacts
  <2> DEFINE u == [j \in 1 .. Len(s) - 1 |-> IF j < k THEN s[j] ELSE s[j + 1]]
  <2>2. Unlink(s, r) = u
    BY <1>2, <2>1 DEF Unlink
  <2>3. Len(s) \in Nat /\ DOMAIN s = 1 .. Len(s)
    OBVIOUS
  <2>4. ASSUME NEW i \in 1 .. Len(s) - 1, NEW j \in 1 .. Len(s) - 1, i < j
        PROVE  u[i] < u[j]
    <3>1. /\ i \in DOMAIN s /\ j \in DOMAIN s /\ i + 1 \in DOMAIN s /\ j + 1 \in DOMAIN s
          /\ i < j + 1 /\ i + 1 < j + 1
      BY <2>3, <2>4
    <3>2. s[i] < s[j] /\ s[i] < s[j + 1] /\ s[i + 1] < s[j + 1]
      BY <2>4, <3>1 DEF Increasing
    <3>3. j < k => i < k
      BY <2>1, <2>3, <2>4
    <3> QED
      BY <2>4, <3>2, <3>3
  <2>5. DOMAIN u = 1 .. Len(s) - 1
    OBVIOUS
  <2> HIDE DEF u
  <2> QED
    BY <2>2, <2>4, <2>5 DEF Increasing
<1> QED
  BY <1>1, <1>2

(* A later order goes to the end. *)
LEMMA AppendIncreasing ==
    ASSUME NEW s \in Seq(Nat), NEW e \in Nat, Increasing(s), \A i \in DOMAIN s : s[i] < e
    PROVE  Increasing(Append(s, e))
<1> DEFINE t == Append(s, e)
<1>1. /\ Len(s) \in Nat /\ DOMAIN s = 1 .. Len(s) /\ DOMAIN t = 1 .. Len(s) + 1
      /\ t[Len(s) + 1] = e /\ \A i \in DOMAIN s : t[i] = s[i]
  OBVIOUS
<1> HIDE DEF t
<1>2. ASSUME NEW i \in DOMAIN t, NEW j \in DOMAIN t, i < j
      PROVE  t[i] < t[j]
  <2>1. i \in DOMAIN s /\ t[i] = s[i]
    BY <1>1, <1>2
  <2>2. CASE j \in DOMAIN s
    BY <1>1, <1>2, <2>1, <2>2 DEF Increasing
  <2>3. CASE j = Len(s) + 1
    BY <1>1, <2>1, <2>3
  <2> QED
    BY <1>1, <1>2, <2>2, <2>3
<1> QED
  BY <1>2 DEF Increasing, t

(* What a step may do to the lists: take an order out of one, put the order *)
(* being matched into one, or, for a modification, take one out and put the *)
(* new object into the same list or another.                                *)
LEMMA QueueStep ==
    ASSUME ShapeInv, [Next]_vars
    PROVE  \/ UNCHANGED queue
           \/ \E h \in Limit, r \in Ref : queue' = [queue EXCEPT ![h] = Unlink(queue[h], r)]
           \/ /\ RestOrder
              /\ \E h \in Limit : queue' \in {[queue EXCEPT ![h] = Append(@, taker)],
                                              [queue EXCEPT ![h] = <<taker>>]}
           \/ /\ pc' = "idle"
              /\ \E h, k \in Limit, r \in Ref :
                     LET qu == [queue EXCEPT ![k] = Unlink(queue[k], r)] IN
                     queue' \in {[qu EXCEPT ![h] = Append(@, objects + 1)],
                                 [qu EXCEPT ![h] = <<objects + 1>>]}
<1> USE DEF ShapeInv
<1> DEFINE Out == \E h \in Limit, r \in Ref : queue' = [queue EXCEPT ![h] = Unlink(queue[h], r)]
<1>1. ASSUME NEW r \in Created, NEW q, parent[r] \in Limit, RemoveLimitOrder(r, q)
      PROVE  Out
  BY <1>1, CreatedFacts DEF RemoveLimitOrder
<1>2. ASSUME NEW id \in Ref, NEW sent, CancelEntry(id, sent)
      PROVE  UNCHANGED queue \/ Out
  <2>1. index[id] \in Created /\ parent[index[id]] \in Limit
    BY <1>2, HeldFacts DEF CancelEntry
  <2>2. UNCHANGED queue \/ RemoveLimitOrder(index[id], qty[index[id]])
    BY <1>2 DEF CancelEntry
  <2> QED
    BY <1>1, <2>1, <2>2
<1>3. ASSUME NEW id \in Ref, CancelOrder(id)
      PROVE  UNCHANGED queue \/ Out
  BY <1>2, <1>3 DEF CancelOrder
<1>4. ASSUME NEW r \in Ref, ExpireOrder(r)
      PROVE  UNCHANGED queue \/ Out
  <2>1. PICK id \in Ref : id = order[r].id
    BY <1>4, CreatedFacts DEF ExpireOrder, Earliest, CreatedInv
  <2> QED
    BY <1>2, <1>4, <2>1 DEF ExpireOrder
<1>5. CASE ResolveOrders
  <2>1. Head(walk) \in Created /\ parent[Head(walk)] \in Limit
    BY <1>5, HeadOfWalk DEF ResolveOrders
  <2>2. UNCHANGED queue \/ RemoveLimitOrder(Head(walk), qty'[Head(walk)])
    BY <1>5 DEF ResolveOrders
  <2>3. UNCHANGED queue \/ Out
    BY <1>1, <2>1, <2>2
  <2> QED
    BY <2>3
<1>6. ASSUME NEW n, NEW s \in Side, NEW q, NEW l \in Limit, NEW qu, NEW vo, AddLimitOrder(n, s, q, l, qu, vo)
      PROVE  \E h \in Limit : queue' \in {[qu EXCEPT ![h] = Append(@, n)], [qu EXCEPT ![h] = <<n>>]}
  <2>1. l[2] \in Price
    BY DEF Limit
  <2>2. Home(s, l) \in Limit
    BY <2>1 DEF Home, TypeOK
  <2> QED
    BY <1>6, <2>2 DEF AddLimitOrder
<1>7. CASE RestOrder
  <2>1. taker \in Created
    BY <1>7, TodoHeld DEF RestOrder, NoMatch
  <2>2. TakerSide \in Side /\ <<TakerSide, order[taker].price>> \in Limit
    BY <2>1, CreatedFacts DEF TakerSide, Limit
  <2>3. AddLimitOrder(taker, TakerSide, qty[taker], <<TakerSide, order[taker].price>>, queue, volume)
    BY <1>7 DEF RestOrder
  <2> QED
    BY <1>6, <1>7, <2>2, <2>3
<1>8. ASSUME NEW id \in Ref, NEW req \in Request, ModifyOrder(id, req)
      PROVE  \/ UNCHANGED queue
             \/ /\ pc' = "idle"
                /\ \E h, k \in Limit, r \in Ref :
                       LET qu == [queue EXCEPT ![k] = Unlink(queue[k], r)] IN
                       queue' \in {[qu EXCEPT ![h] = Append(@, objects + 1)],
                                   [qu EXCEPT ![h] = <<objects + 1>>]}
  <2>1. PICK r \in Ref : r = index[id] /\ parent[r] \in Limit
    BY <1>8, HeldFacts DEF ModifyOrder
  <2>2. PICK k \in Limit : k = parent[r]
    BY <2>1
  <2>3. req.side \in Side /\ pc' = "idle"
    BY <1>8, BookAssumption DEF OrderRequest, ModifyOrder
  <2> DEFINE qu == [queue EXCEPT ![k] = Unlink(queue[k], r)]
  <2>4. \/ UNCHANGED queue
        \/ AddLimitOrder(objects + 1, req.side, req.qty, k, qu, [volume EXCEPT ![k] = Decrease(@, qty[r])])
    BY <1>8, <2>1, <2>2 DEF ModifyOrder, bookVars
  <2> HIDE DEF qu
  <2>5. \/ UNCHANGED queue
        \/ \E h \in Limit : queue' \in {[qu EXCEPT ![h] = Append(@, objects + 1)],
                                        [qu EXCEPT ![h] = <<objects + 1>>]}
    BY <1>6, <2>3, <2>4
  <2> QED
    BY <2>3, <2>5 DEF qu
<1>9. CASE \/ \E req \in Request : AddStopOrder(req) \/ AddOrder(req)
           \/ \E id \in Ref : ModifyNotFound(id)
           \/ CheckDateOrders \/ KillOrder \/ LeaveLevel \/ ExpireDone \/ Tick
           \/ \E p \in Price : MatchSkip(p) \/ MatchEnter(p)
           \/ UNCHANGED vars
  BY <1>9 DEF AddStopOrder, AddOrder, ModifyNotFound, CheckDateOrders, MatchSkip, MatchEnter,
              KillOrder, LeaveLevel, ExpireDone, Tick, vars, bookVars
<1> QED
  BY <1>3, <1>4, <1>5, <1>7, <1>8, <1>9 DEF Next, Submit, Match, Expire

(* The order being matched is in no list. *)
TakerFree == Matching => \A l \in Limit : \A i \in DOMAIN queue[l] : queue[l][i] # taker

(* It stays out until it rests. *)
LEMMA FreeStep ==
    ASSUME ShapeInv, TakerFree, [Next]_vars
    PROVE  TakerFree'
<1> USE DEF ShapeInv
<1>1. SUFFICES ASSUME Matching', NEW l \in Limit, NEW j \in DOMAIN queue'[l]
               PROVE  queue'[l][j] # taker'
  BY DEF TakerFree
<1>2. queue \in [Limit -> Seq(Ref)]
  BY DEF TypeOK
<1>3. ASSUME NEW req \in Request, AddOrder(req)
      PROVE  queue'[l][j] # taker'
  <2>1. UNCHANGED queue /\ taker' = objects + 1
    BY <1>3 DEF AddOrder, bookVars
  <2>2. queue[l][j] \in Created
    BY <1>1, <2>1 DEF MatchedInv
  <2> QED
    BY <2>1, <2>2, BookAssumption DEF Created, TypeOK
<1>4. ASSUME Matching, taker' = taker
      PROVE  queue'[l][j] # taker'
  <2>1. UNCHANGED queue \/ \E h \in Limit, r \in Ref : queue' = [queue EXCEPT ![h] = Unlink(queue[h], r)]
    BY <1>1, QueueStep DEF Matching, RestOrder, Return
  <2>2. \E i \in DOMAIN queue[l] : queue'[l][j] = queue[l][i]
    <3>1. CASE UNCHANGED queue
      BY <1>1, <3>1
    <3>2. ASSUME NEW h \in Limit, NEW r \in Ref, queue' = [queue EXCEPT ![h] = Unlink(queue[h], r)]
          PROVE  \E i \in DOMAIN queue[l] : queue'[l][j] = queue[l][i]
      <4>1. CASE l # h
        BY <1>1, <1>2, <3>2, <4>1
      <4>2. CASE l = h
        <5>1. queue[h] \in Seq(Ref)
          BY <1>2
        <5>2. \A x \in DOMAIN Unlink(queue[h], r) : \E i \in DOMAIN queue[h] : Unlink(queue[h], r)[x] = queue[h][i]
          BY <5>1, UnlinkFacts
        <5>3. queue'[l] = Unlink(queue[h], r)
          BY <1>2, <3>2, <4>2
        <5> QED
          BY <1>1, <4>2, <5>2, <5>3
      <4> QED
        BY <4>1, <4>2
    <3> QED
      BY <2>1, <3>1, <3>2
  <2> QED
    BY <1>4, <2>2 DEF TakerFree
<1>5. (\E req \in Request : AddOrder(req)) \/ (Matching /\ taker' = taker)
  BY <1>1 DEF Matching, Next, Submit, Match, Expire, AddStopOrder, CancelOrder, ModifyNotFound,
     ModifyOrder, CheckDateOrders, MatchSkip, MatchEnter, KillOrder, RestOrder, ResolveOrders,
     LeaveLevel, Return, ExpireOrder, ExpireDone, Tick, vars, matchVars
<1> QED
  BY <1>3, <1>4, <1>5

(* The lists stay in order of arrival: what joins one is its newest order.  *)
LEMMA TimeStep ==
    ASSUME ShapeInv, TakerLatest, TakerFree, TimePriority, [Next]_vars
    PROVE  TimePriority'
<1> USE DEF ShapeInv
<1>1. /\ Ref \subseteq Nat /\ objects \in Nat /\ queue \in [Limit -> Seq(Ref)]
      /\ \A l \in Limit : queue[l] \in Seq(Ref) /\ queue[l] \in Seq(Nat)
  BY BookAssumption DEF Ref, TypeOK
<1>2. \A l \in Limit : Increasing(queue[l])
  BY DEF TimePriority, Increasing
<1>3. SUFFICES \A l \in Limit : Increasing(queue'[l])
  BY DEF TimePriority, Increasing
<1>4. \A l \in Limit : \A i \in DOMAIN queue[l] : queue[l][i] \in Created
  BY DEF MatchedInv
<1>5. ASSUME NEW k \in Limit, NEW r \in Ref
      PROVE  /\ Increasing(Unlink(queue[k], r)) /\ Unlink(queue[k], r) \in Seq(Nat)
             /\ \A j \in DOMAIN Unlink(queue[k], r) : Unlink(queue[k], r)[j] < objects + 1
  <2>1. queue[k] \in Seq(Nat) /\ queue[k] \in Seq(Ref)
    BY <1>1
  <2>2. /\ Unlink(queue[k], r) \in Seq(Nat)
        /\ \A j \in DOMAIN Unlink(queue[k], r) : \E i \in DOMAIN queue[k] : Unlink(queue[k], r)[j] = queue[k][i]
    BY <2>1, UnlinkFacts
  <2>3. \A i \in DOMAIN queue[k] : queue[k][i] < objects + 1
    BY <1>1, <1>4 DEF Created
  <2> QED
    BY <1>2, <2>1, <2>2, <2>3, UnlinkIncreasing
<1>6. ASSUME NEW qu \in [Limit -> Seq(Nat)], NEW h \in Limit, NEW e \in Nat,
             \A l \in Limit : Increasing(qu[l]), \A i \in DOMAIN qu[h] : qu[h][i] < e,
             queue' \in {[qu EXCEPT ![h] = Append(@, e)], [qu EXCEPT ![h] = <<e>>]}
      PROVE  \A l \in Limit : Increasing(queue'[l])
  <2>1. queue'[h] \in {Append(qu[h], e), <<e>>} /\ \A l \in Limit : l # h => queue'[l] = qu[l]
    BY <1>6
  <2>2. qu[h] \in Seq(Nat) /\ Increasing(qu[h])
    BY <1>6
  <2>3. Increasing(Append(qu[h], e))
    BY <1>6, <2>2, AppendIncreasing
  <2>4. Increasing(<<e>>)
    BY DEF Increasing
  <2> QED
    BY <1>6, <2>1, <2>3, <2>4
<1>7. ASSUME NEW h \in Limit, NEW r \in Ref, queue' = [queue EXCEPT ![h] = Unlink(queue[h], r)]
      PROVE  \A l \in Limit : Increasing(queue'[l])
  <2>1. queue'[h] = Unlink(queue[h], r) /\ \A l \in Limit : l # h => queue'[l] = queue[l]
    BY <1>1, <1>7
  <2> QED
    BY <1>2, <1>5, <2>1
<1>8. ASSUME RestOrder, NEW h \in Limit,
             queue' \in {[queue EXCEPT ![h] = Append(@, taker)], [queue EXCEPT ![h] = <<taker>>]}
      PROVE  \A l \in Limit : Increasing(queue'[l])
  <2>1. Matching /\ taker = objects
    BY <1>8 DEF RestOrder, NoMatch, TakerLatest, Matching
  <2>2. \A i \in DOMAIN queue[h] : queue[h][i] < taker
    BY <1>1, <1>4, <2>1 DEF TakerFree, Created
  <2>3. taker \in Nat /\ queue \in [Limit -> Seq(Nat)]
    BY <1>1, <2>1
  <2> QED
    BY <1>2, <1>6, <1>8, <2>2, <2>3
<1>9. ASSUME NEW h \in Limit, NEW k \in Limit, NEW r \in Ref,
             NEW qu, qu = [queue EXCEPT ![k] = Unlink(queue[k], r)],
             queue' \in {[qu EXCEPT ![h] = Append(@, objects + 1)], [qu EXCEPT ![h] = <<objects + 1>>]}
      PROVE  \A l \in Limit : Increasing(queue'[l])
  <2>1. /\ qu[k] = Unlink(queue[k], r) /\ \A l \in Limit : l # k => qu[l] = queue[l]
        /\ DOMAIN qu = Limit
    BY <1>1, <1>9
  <2>2. \A l \in Limit : qu[l] \in Seq(Nat) /\ Increasing(qu[l])
    BY <1>1, <1>2, <1>5, <2>1
  <2>3. qu = [l \in Limit |-> qu[l]]
    BY <1>9, <1>1
  <2>4. qu \in [Limit -> Seq(Nat)]
    BY <2>2, <2>3
  <2>5. \A i \in DOMAIN qu[h] : qu[h][i] < objects + 1
    <3>1. CASE h = k
      BY <1>5, <2>1, <3>1
    <3>2. CASE h # k
      BY <1>1, <1>4, <2>1, <3>2 DEF Created
    <3> QED
      BY <3>1, <3>2
  <2>6. objects + 1 \in Nat
    BY <1>1
  <2> QED
    BY <1>6, <1>9, <2>2, <2>4, <2>5, <2>6
<1>10. CASE UNCHANGED queue
  BY <1>2, <1>10
<1> QED
  BY <1>7, <1>8, <1>9, <1>10, QueueStep

-----------------------------------------------------------------------------
(* What a step leaves alone *)

(* An object keeps its fields; its quantity changes only as taker or maker. *)
LEMMA ObjectKept ==
    ASSUME BookInv, [Next]_vars, NEW x \in Created
    PROVE  /\ x \in Created' /\ x \in Ref
           /\ order'[x] = order[x]
           /\ params'[x] = params[x]
           /\ qty'[x] = qty[x] \/ (ResolveOrders /\ x \in {taker, Head(walk)})
<1> USE DEF BookInv
<1>1. x \in Ref /\ params \in [Ref -> SUBSET Param]
  BY CreatedFacts DEF TypeOK
<1>2. ASSUME NEW req \in Request, NEW id \in Created \cup {0}, Create(req, id),
             NEW v, params' = [params EXCEPT ![objects + 1] = v]
      PROVE  x \in Created' /\ order'[x] = order[x] /\ params'[x] = params[x] /\ qty'[x] = qty[x]
  <2>1. /\ objects + 1 \notin Created /\ Created' = Created \cup {objects + 1}
        /\ \A y \in Ref : y # objects + 1 => order'[y] = order[y] /\ qty'[y] = qty[y]
    BY <1>2, CreateEffect
  <2> QED
    BY <1>1, <1>2, <2>1
<1>3. ASSUME NEW req \in Request, AddStopOrder(req)
      PROVE  x \in Created' /\ order'[x] = order[x] /\ params'[x] = params[x] /\ qty'[x] = qty[x]
  BY <1>2, <1>3 DEF AddStopOrder
<1>4. ASSUME NEW req \in Request, AddOrder(req)
      PROVE  x \in Created' /\ order'[x] = order[x] /\ params'[x] = params[x] /\ qty'[x] = qty[x]
  BY <1>2, <1>4 DEF AddOrder
<1>5. ASSUME NEW id \in Ref, NEW req \in Request, ModifyOrder(id, req)
      PROVE  x \in Created' /\ order'[x] = order[x] /\ params'[x] = params[x] /\ qty'[x] = qty[x]
  <2>1. id \in Created
    BY <1>5, EntryFacts DEF ModifyOrder, CreatedInv
  <2> QED
    BY <1>2, <1>5, <2>1 DEF ModifyOrder
<1>6. CASE ResolveOrders
  <2>1. UNCHANGED <<objects, order, params>>
    BY <1>6 DEF ResolveOrders
  <2>2. x \notin {taker, Head(walk)} => qty'[x] = qty[x]
    BY <1>1, <1>6, ResolveEffect
  <2> QED
    BY <1>1, <1>6, <2>1, <2>2 DEF Created
<1>7. CASE UNCHANGED <<objects, order, params, qty>>
  BY <1>1, <1>7 DEF Created
<1>8. CASE \/ \E id \in Ref : CancelOrder(id) \/ ModifyNotFound(id)
           \/ CheckDateOrders
           \/ \E p \in Price : MatchSkip(p) \/ MatchEnter(p)
           \/ KillOrder
           \/ RestOrder
           \/ LeaveLevel
           \/ Expire
           \/ Tick
           \/ UNCHANGED vars
  BY <1>7, <1>8 DEF CancelOrder, ModifyNotFound, CheckDateOrders, MatchSkip, MatchEnter, KillOrder,
                    RestOrder, LeaveLevel, Expire, ExpireOrder, ExpireDone, Tick, vars
<1> QED
  BY <1>1, <1>3, <1>4, <1>5, <1>6, <1>8 DEF Next, Submit, Match

(* cancelled and index through cancel_order. *)
LEMMA CancelChanges ==
    ASSUME BookInv, NEW id \in Ref, NEW sent, CancelEntry(id, sent)
    PROVE  /\ index[id] \in Created /\ order[index[id]].id = id
           /\ cancelled' = cancelled \cup {index[id]}
           /\ \A i, x \in Ref : index'[i] = x => index[i] = x /\ x # index[id]
<1> USE DEF BookInv
<1>1. PICK r \in Created : /\ r = index[id] /\ r \in Ref /\ order[r].id = id
                           /\ cancelled' = cancelled \cup {r}
                           /\ index' = [index EXCEPT ![id] = 0]
  BY CancelEffect
<1>2. 0 \notin Ref /\ index \in [Ref -> Ref \cup {0}]
  BY BookAssumption DEF Ref, TypeOK
<1>3. ASSUME NEW i \in Ref, NEW x \in Ref, index'[i] = x
      PROVE  index[i] = x /\ x # r
  <2>1. i # id /\ index[i] = x
    BY <1>1, <1>2, <1>3
  <2>2. order[x].id = i
    BY <2>1, EntryOf DEF EntrySound
  <2> QED
    BY <1>1, <2>1, <2>2
<1> QED
  BY <1>1, <1>3

(* The orders a step cancels: the one being matched, or one the index knows. *)
LEMMA NewCancelled ==
    ASSUME BookInv, [Next]_vars, NEW x \in cancelled'
    PROVE  \/ x \in cancelled
           \/ KillOrder /\ x = taker
           \/ x \in Created /\ index[order[x].id] = x
<1> USE DEF BookInv
<1>1. ASSUME NEW id \in Ref, NEW sent, CancelEntry(id, sent)
      PROVE  x \in cancelled \/ (x \in Created /\ index[order[x].id] = x)
  BY <1>1, CancelChanges
<1>2. ASSUME NEW r \in Ref, ExpireOrder(r)
      PROVE  x \in cancelled \/ (x \in Created /\ index[order[x].id] = x)
  <2>1. r \in Created
    BY <1>2 DEF ExpireOrder, Earliest, CreatedInv
  <2>2. PICK id \in Ref : id = order[r].id
    BY <2>1, CreatedFacts
  <2>3. CancelEntry(id, outbox) \/ UNCHANGED cancelled
    BY <1>2, <2>2 DEF ExpireOrder
  <2> QED
    BY <1>1, <2>3
<1>3. ASSUME NEW id \in Ref, CancelOrder(id)
      PROVE  x \in cancelled \/ (x \in Created /\ index[order[x].id] = x)
  BY <1>1, <1>3 DEF CancelOrder
<1>4. ASSUME NEW id \in Ref, NEW req \in Request, ModifyOrder(id, req)
      PROVE  x \in cancelled \/ (x \in Created /\ index[order[x].id] = x)
  <2>1. cancelled' = cancelled \cup {index[id]} /\ index[id] # 0
    BY <1>4 DEF ModifyOrder
  <2>2. index[id] \in Created /\ order[index[id]].id = id
    BY <2>1, EntryFacts
  <2> QED
    BY <2>1, <2>2
<1>5. CASE KillOrder
  BY <1>5 DEF KillOrder
<1>6. CASE \/ \E req \in Request : AddStopOrder(req) \/ AddOrder(req)
           \/ \E id \in Ref : ModifyNotFound(id)
           \/ CheckDateOrders
           \/ \E p \in Price : MatchSkip(p) \/ MatchEnter(p)
           \/ RestOrder
           \/ ResolveOrders
           \/ LeaveLevel
           \/ ExpireDone
           \/ Tick
           \/ UNCHANGED vars
  <2>1. UNCHANGED cancelled
    BY <1>6 DEF AddStopOrder, AddOrder, ModifyNotFound, CheckDateOrders, MatchSkip, MatchEnter,
                RestOrder, ResolveOrders, LeaveLevel, ExpireDone, Tick, vars
  <2> QED
    BY <2>1
<1> QED
  BY <1>2, <1>3, <1>4, <1>5, <1>6 DEF Next, Submit, Match, Expire

(* A step enters no order in the index but the taker that comes to rest. *)
LEMMA NewEntries ==
    ASSUME BookInv, [Next]_vars, NEW id \in Ref, NEW x \in Ref, index'[id] = x
    PROVE  index[id] = x \/ (RestOrder /\ x = taker /\ id = order[taker].id)
<1> USE DEF BookInv
<1>1. 0 \notin Ref /\ index \in [Ref -> Ref \cup {0}]
  BY BookAssumption DEF Ref, TypeOK
<1>2. ASSUME NEW i \in Ref, NEW sent, CancelEntry(i, sent)
      PROVE  index[id] = x
  BY <1>2, CancelChanges
<1>3. ASSUME NEW r \in Ref, ExpireOrder(r)
      PROVE  index[id] = x
  <2>1. r \in Created
    BY <1>3 DEF ExpireOrder, Earliest, CreatedInv
  <2>2. PICK i \in Ref : i = order[r].id
    BY <2>1, CreatedFacts
  <2>3. CancelEntry(i, outbox) \/ UNCHANGED index
    BY <1>3, <2>2 DEF ExpireOrder
  <2> QED
    BY <1>2, <2>3
<1>4. ASSUME NEW i \in Ref, CancelOrder(i)
      PROVE  index[id] = x
  BY <1>2, <1>4 DEF CancelOrder
<1>5. ASSUME NEW i \in Ref, NEW req \in Request, ModifyOrder(i, req)
      PROVE  index[id] = x
  <2>1. index' = [index EXCEPT ![i] = 0]
    BY <1>5 DEF ModifyOrder
  <2> QED
    BY <1>1, <2>1
<1>6. CASE ResolveOrders
  <2>1. PICK m \in Ref : UNCHANGED index \/ index' = [index EXCEPT ![order[m].id] = 0]
    BY <1>6, ResolveEffect
  <2> QED
    BY <1>1, <2>1
<1>7. CASE RestOrder
  <2>1. index' = [index EXCEPT ![order[taker].id] = taker]
    BY <1>7 DEF RestOrder
  <2> QED
    BY <1>1, <1>7, <2>1
<1>8. CASE \/ \E req \in Request : AddStopOrder(req) \/ AddOrder(req)
           \/ \E i \in Ref : ModifyNotFound(i)
           \/ CheckDateOrders
           \/ \E p \in Price : MatchSkip(p) \/ MatchEnter(p)
           \/ KillOrder
           \/ LeaveLevel
           \/ ExpireDone
           \/ Tick
           \/ UNCHANGED vars
  <2>1. UNCHANGED index
    BY <1>8 DEF AddStopOrder, AddOrder, ModifyNotFound, CheckDateOrders, MatchSkip, MatchEnter,
                KillOrder, LeaveLevel, ExpireDone, Tick, vars
  <2> QED
    BY <2>1
<1> QED
  BY <1>3, <1>4, <1>5, <1>6, <1>7, <1>8 DEF Next, Submit, Match, Expire

(* Takers are new objects; makers come from the queues. *)
LEMMA NewMatch ==
    ASSUME BookInv, [Next]_vars
    PROVE  /\ Matching' => \/ Matching /\ taker' = taker
                           \/ \E req \in Request : AddOrder(req) /\ taker' = objects + 1
           /\ pc' = "fill" => \A i \in DOMAIN walk' :
                  \/ pc = "fill" /\ \E j \in DOMAIN walk : walk'[i] = walk[j]
                  \/ Matching /\ \E l \in Limit : Linked(walk'[i], l)
<1> USE DEF BookInv
<1>1. ASSUME NEW req \in Request, AddOrder(req)
      PROVE  taker' = objects + 1 /\ pc' = "match"
  BY <1>1 DEF AddOrder
<1>2. ASSUME NEW p \in Price, MatchEnter(p)
      PROVE  /\ taker' = taker /\ Matching
             /\ \A i \in DOMAIN walk' : \E l \in Limit : Linked(walk'[i], l)
  <2>1. taker' = taker /\ pc = "match" /\ p \in todo /\ walk' = queue[LevelOf(p)]
    BY <1>2 DEF MatchEnter, First
  <2>2. LevelOf(p) \in Limit
    BY <2>1, TodoLevel
  <2> QED
    BY <2>1, <2>2 DEF Matching, Linked
<1>3. CASE ResolveOrders
  <2>1. UNCHANGED <<pc, taker>> /\ pc = "fill" /\ walk' = Tail(walk) /\ walk # << >> /\ walk \in Seq(Ref)
    BY <1>3 DEF ResolveOrders, TypeOK
  <2>2. \A i \in DOMAIN walk' : i + 1 \in DOMAIN walk /\ walk'[i] = walk[i + 1]
    BY <2>1
  <2> QED
    BY <2>1, <2>2 DEF Matching
<1>4. ASSUME NEW p \in Price, MatchSkip(p)
      PROVE  taker' = taker /\ pc = "match" /\ pc' = "match"
  BY <1>4 DEF MatchSkip
<1>5. CASE LeaveLevel
  <2>1. pc = "fill" /\ (pc' = "idle" \/ (pc' = "match" /\ taker' = taker))
    BY <1>5 DEF LeaveLevel, Return, matchVars
  <2> QED
    BY <2>1 DEF Matching
<1>6. CASE \/ \E req \in Request : AddStopOrder(req)
           \/ \E id \in Ref : CancelOrder(id) \/ ModifyNotFound(id)
           \/ \E id \in Ref, req \in Request : ModifyOrder(id, req)
           \/ CheckDateOrders
           \/ KillOrder
           \/ RestOrder
           \/ Expire
           \/ Tick
  <2>1. pc' \in {"idle", "expire"}
    BY <1>6 DEF AddStopOrder, CancelOrder, ModifyNotFound, ModifyOrder, CheckDateOrders, KillOrder,
                RestOrder, Return, Expire, ExpireOrder, ExpireDone, Tick
  <2> QED
    BY <2>1 DEF Matching
<1>7. CASE UNCHANGED vars
  BY <1>7 DEF vars, matchVars, Matching
<1> QED
  BY <1>1, <1>2, <1>3, <1>4, <1>5, <1>6, <1>7 DEF Next, Submit, Match, Matching

-----------------------------------------------------------------------------
(* Stop orders are set aside *)

(* The orders a step puts aside: new ones, of the side of that tree. *)
LEMMA NewStops ==
    ASSUME BookInv, Regular', [Next]_vars, NEW s \in Side, NEW x \in stop'[s]
    PROVE  \/ x \in stop[s]
           \/ \E req \in Request : AddStopOrder(req) /\ s = req.side /\ x = objects + 1
           \/ \E id \in Ref, req \in Request :
                  ModifyOrder(id, req) /\ s = req.side /\ x = objects + 1 /\ UNCHANGED queue
<1> USE DEF BookInv
<1>1. ASSUME NEW req \in Request, AddStopOrder(req)
      PROVE  x \in stop[s] \/ (s = req.side /\ x = objects + 1)
  <2>1. req.side \in Side
    BY BookAssumption DEF OrderRequest
  <2>2. stop' = [stop EXCEPT ![req.side] = StopInsert(order', @, objects + 1)]
    BY <1>1 DEF AddStopOrder
  <2> QED
    BY <2>1, <2>2 DEF StopInsert, TypeOK
<1>2. ASSUME NEW id \in Ref, NEW req \in Request, ModifyOrder(id, req)
      PROVE  x \in stop[s] \/ (s = req.side /\ x = objects + 1 /\ UNCHANGED queue)
  BY <1>2, ModifyLinks
<1>3. ASSUME NEW id \in Ref, NEW sent, CancelEntry(id, sent)
      PROVE  x \in stop[s]
  BY <1>3, CancelEffect
<1>4. ASSUME NEW r \in Ref, ExpireOrder(r)
      PROVE  x \in stop[s]
  <2>1. r \in Created
    BY <1>4 DEF ExpireOrder, Earliest, CreatedInv
  <2>2. PICK id \in Ref : id = order[r].id
    BY <2>1, CreatedFacts
  <2>3. CancelEntry(id, outbox) \/ UNCHANGED stop
    BY <1>4, <2>2 DEF ExpireOrder
  <2> QED
    BY <1>3, <2>3
<1>5. ASSUME NEW id \in Ref, CancelOrder(id)
      PROVE  x \in stop[s]
  BY <1>3, <1>5 DEF CancelOrder
<1>6. CASE \/ \E req \in Request : AddOrder(req)
           \/ \E id \in Ref : ModifyNotFound(id)
           \/ CheckDateOrders
           \/ Match
           \/ ExpireDone
           \/ Tick
           \/ UNCHANGED vars
  <2>1. UNCHANGED stop
    BY <1>6 DEF AddOrder, ModifyNotFound, CheckDateOrders, Match, MatchSkip, MatchEnter, KillOrder,
                RestOrder, ResolveOrders, LeaveLevel, ExpireDone, Tick, vars
  <2> QED
    BY <2>1
<1> QED
  BY <1>1, <1>2, <1>4, <1>5, <1>6 DEF Next, Submit, Expire

(* An order that was aside is not drawn into a match, cancelled or linked. *)
LEMMA AsideKept ==
    ASSUME BookInv, Regular', AsideInv, [Next]_vars, NEW s \in Side, NEW r \in stop[s]
    PROVE  /\ r \in Created' /\ order'[r].side = s
           /\ qty'[r] = order'[r].qty
           /\ r \notin cancelled'
           /\ index'[order'[r].id] # r
           /\ \A l \in Limit : ~Linked(r, l)'
           /\ Matching' => taker' # r
           /\ pc' = "fill" => \A i \in DOMAIN walk' : walk'[i] # r
<1> USE DEF BookInv
<1>1. /\ r \in Created /\ order[r].side = s /\ qty[r] = order[r].qty /\ r \notin cancelled
      /\ index[order[r].id] # r
      /\ \A l \in Limit : ~Linked(r, l)
      /\ Matching => taker # r
      /\ pc = "fill" => \A i \in DOMAIN walk : walk[i] # r
  BY DEF AsideInv, StopSetAside
<1>2. /\ r \in Created' /\ r \in Ref /\ order'[r] = order[r]
      /\ qty'[r] = qty[r] \/ (ResolveOrders /\ r \in {taker, Head(walk)})
  BY <1>1, ObjectKept
<1>3. qty'[r] = order'[r].qty
  <2>1. ResolveOrders => r \notin {taker, Head(walk)}
    <3>1. ResolveOrders => pc = "fill" /\ 1 \in DOMAIN walk /\ Head(walk) = walk[1]
      BY ResolveEffect DEF ResolveOrders
    <3> QED
      BY <1>1, <3>1 DEF Matching
  <2> QED
    BY <1>1, <1>2, <2>1
<1>4. r \notin cancelled'
  <2>1. KillOrder => Matching
    BY DEF KillOrder, NoMatch, Matching
  <2> QED
    BY <1>1, <2>1, NewCancelled
<1>5. RestOrder => Matching
  BY DEF RestOrder, NoMatch, Matching
<1>6. index'[order'[r].id] # r
  <2>1. order[r].id \in Ref
    BY <1>1, CreatedFacts
  <2> QED
    BY <1>1, <1>2, <1>5, <2>1, NewEntries
<1>7. ASSUME NEW l \in Limit
      PROVE  ~Linked(r, l)'
  <2>1. r # objects + 1
    BY <1>1, BookAssumption DEF Created, TypeOK
  <2>2. ASSUME NEW j \in DOMAIN queue'[l]
        PROVE  queue'[l][j] # r
    BY <1>1, <1>5, <2>1, <2>2, NewLinks DEF Linked
  <2> QED
    BY <2>2 DEF Linked
<1>8. Matching' => taker' # r
  <2>1. r # objects + 1
    BY <1>1, BookAssumption DEF Created, TypeOK
  <2> QED
    BY <1>1, <2>1, NewMatch
<1>9. pc' = "fill" => \A i \in DOMAIN walk' : walk'[i] # r
  BY <1>1, NewMatch
<1> QED
  BY <1>1, <1>2, <1>3, <1>4, <1>6, <1>7, <1>8, <1>9

(* An object just put aside. *)
LEMMA AsideNew ==
    ASSUME BookInv, BookInv', NEW req \in Request, NEW id \in Created \cup {0}, Create(req, id),
           [Next]_vars, UNCHANGED <<queue, pc>>, pc = "idle",
           cancelled' \subseteq Created, NEW n, n = objects + 1
    PROVE  /\ n \in Created' /\ order'[n].side = req.side
           /\ qty'[n] = order'[n].qty
           /\ n \notin cancelled'
           /\ index'[order'[n].id] # n
           /\ \A l \in Limit : ~Linked(n, l)'
<1> USE DEF BookInv
<1>1. n \in Ref
  BY CreateEffect
<1>2. /\ n \in Created' /\ n \notin Created /\ n \notin cancelled' /\ order'[n].side = req.side /\ qty'[n] = order'[n].qty
  BY <1>1, CreateEffect
<1>3. order'[n].id \in Ref
  <2>1. TypeOK' /\ CreatedInv'
    OBVIOUS
  <2>2. order'[n].id \in Created' /\ objects' \in 0 .. MaxOrders
    BY <1>2, <2>1 DEF CreatedInv, TypeOK
  <2> QED
    BY <2>2, BookAssumption DEF Created, Ref
<1>4. index'[order'[n].id] # n
  <2>1. ~RestOrder
    BY DEF RestOrder, NoMatch
  <2>2. index[order'[n].id] # n
    BY <1>1, <1>2, <1>3, EntryOf
  <2> QED
    BY <1>1, <1>3, <2>1, <2>2, NewEntries
<1>5. \A l \in Limit : ~Linked(n, l)'
  BY <1>2 DEF ParentInv, Linked
<1> QED
  BY <1>1, <1>2, <1>4, <1>5

(* The stop orders stay set aside. *)
LEMMA AsideStep ==
    ASSUME BookInv, BookInv', Regular', AsideInv, [Next]_vars
    PROVE  AsideInv'
<1> USE DEF BookInv
<1>1. SUFFICES ASSUME NEW s \in Side, NEW r \in stop'[s]
               PROVE  /\ r \in Created' /\ order'[r].side = s
                      /\ qty'[r] = order'[r].qty
                      /\ r \notin cancelled'
                      /\ index'[order'[r].id] # r
                      /\ \A l \in Limit : ~Linked(r, l)'
                      /\ Matching' => taker' # r
                      /\ pc' = "fill" => \A i \in DOMAIN walk' : walk'[i] # r
  BY <1>1 DEF AsideInv, StopSetAside
<1>2. CASE r \in stop[s]
  BY <1>2, AsideKept
<1>3. ASSUME NEW req \in Request, AddStopOrder(req), s = req.side, r = objects + 1
      PROVE  /\ r \in Created' /\ order'[r].side = s
             /\ qty'[r] = order'[r].qty
             /\ r \notin cancelled'
             /\ index'[order'[r].id] # r
             /\ \A l \in Limit : ~Linked(r, l)'
             /\ pc' = "idle"
  <2>1. Create(req, 0) /\ UNCHANGED <<queue, pc, cancelled>> /\ pc = "idle"
    BY <1>3 DEF AddStopOrder, bookVars
  <2>2. cancelled' \subseteq Created
    BY <2>1 DEF CreatedInv
  <2> QED
    BY <1>3, <2>1, <2>2, AsideNew
<1>4. ASSUME NEW id \in Ref, NEW req \in Request, ModifyOrder(id, req), s = req.side,
             r = objects + 1, UNCHANGED queue
      PROVE  /\ r \in Created' /\ order'[r].side = s
             /\ qty'[r] = order'[r].qty
             /\ r \notin cancelled'
             /\ index'[order'[r].id] # r
             /\ \A l \in Limit : ~Linked(r, l)'
             /\ pc' = "idle"
  <2>1. Create(req, id) /\ UNCHANGED pc /\ pc = "idle" /\ cancelled' = cancelled \cup {index[id]}
    BY <1>4 DEF ModifyOrder
  <2>2. id \in Created /\ index[id] \in Created
    BY <1>4, ModifyEffect
  <2>3. cancelled' \subseteq Created
    BY <2>1, <2>2 DEF CreatedInv
  <2> QED
    BY <1>4, <2>1, <2>2, <2>3, AsideNew
<1> QED
  BY <1>1, <1>2, <1>3, <1>4, NewStops DEF Matching

-----------------------------------------------------------------------------
(* All-or-nothing orders *)

(* The order a step creates, as its fields say. *)
LEMMA MadeObject ==
    ASSUME BookInv, Regular', [Next]_vars, NEW x \in Created', x \notin Created
    PROVE  /\ x = objects + 1 /\ qty'[x] = order'[x].qty
           /\ \A l \in Limit : \A j \in DOMAIN queue[l] : queue[l][j] # x
           /\ ~RestOrder
           /\ \A id \in Ref, req \in Request : ModifyOrder(id, req) => order'[x].id # x
<1> USE DEF BookInv
<1>1. ASSUME NEW req \in Request, NEW id \in Created \cup {0}, Create(req, id)
      PROVE  /\ x = objects + 1 /\ qty'[x] = order'[x].qty
             /\ order'[x].id = IF id = 0 THEN x ELSE id
  BY <1>1, CreateEffect
<1>2. \A l \in Limit : \A j \in DOMAIN queue[l] : queue[l][j] # x
  BY DEF ParentInv
<1>3. ASSUME NEW id \in Ref, NEW req \in Request, ModifyOrder(id, req)
      PROVE  x = objects + 1 /\ qty'[x] = order'[x].qty /\ order'[x].id # x
  <2>1. id \in Created
    BY <1>3, ModifyEffect
  <2>2. Create(req, id)
    BY <1>3 DEF ModifyOrder
  <2>3. id # 0
    BY BookAssumption DEF Ref
  <2> QED
    BY <1>1, <2>1, <2>2, <2>3
<1>4. ASSUME NEW req \in Request, AddStopOrder(req) \/ AddOrder(req)
      PROVE  x = objects + 1 /\ qty'[x] = order'[x].qty
  <2>1. Create(req, 0)
    BY <1>4 DEF AddStopOrder, AddOrder
  <2> QED
    BY <1>1, <2>1
<1>5. ~UNCHANGED objects
  BY DEF Created
<1>6. ~RestOrder
  BY <1>5 DEF RestOrder
<1>7. ~ \/ \E id \in Ref : CancelOrder(id) \/ ModifyNotFound(id)
        \/ CheckDateOrders
        \/ Match
        \/ Expire
        \/ Tick
        \/ UNCHANGED vars
  BY <1>5 DEF CancelOrder, ModifyNotFound, CheckDateOrders, Match, MatchSkip, MatchEnter, KillOrder,
              RestOrder, ResolveOrders, LeaveLevel, Expire, ExpireOrder, ExpireDone, Tick, vars
<1> QED
  BY <1>2, <1>3, <1>4, <1>6, <1>7 DEF Next, Submit

(* An all-or-nothing order is filled whole, and never becomes a maker. *)
LEMMA WholeStep ==
    ASSUME BookInv, Regular', WholeInv, [Next]_vars
    PROVE  WholeInv'
<1> USE DEF BookInv
<1>1. ASSUME NEW r \in Created, MatchedWhole(r)'
      PROVE  /\ MatchedWhole(r) /\ r \in Ref /\ order'[r] = order[r]
             /\ qty'[r] = qty[r] \/ (ResolveOrders /\ r \in {taker, Head(walk)})
  BY <1>1, ObjectKept DEF MatchedWhole
<1>2. ASSUME NEW r \in Created, MatchedWhole(r)
      PROVE  qty[r] \in {0, order[r].qty} /\ \A l \in Limit : ~Linked(r, l)
  BY <1>2 DEF WholeInv, AllOrNothing, MatchedWhole
<1>3. ASSUME NEW r \in Created', MatchedWhole(r)'
      PROVE  qty'[r] \in {0, order'[r].qty}
  <2>1. CASE r \notin Created
    BY <2>1, MadeObject
  <2>2. CASE r \in Created
    <3>1. /\ MatchedWhole(r) /\ order'[r] = order[r] /\ qty[r] \in {0, order[r].qty}
          /\ qty'[r] = qty[r] \/ (ResolveOrders /\ r \in {taker, Head(walk)})
      BY <1>1, <1>2, <1>3, <2>2
    <3>2. CASE qty'[r] = qty[r]
      BY <3>1, <3>2
    <3>3. CASE ResolveOrders /\ r \in {taker, Head(walk)}
      <4>1. pc = "fill" /\ 1 \in DOMAIN walk /\ Head(walk) = walk[1]
        BY <3>3, ResolveEffect DEF ResolveOrders
      <4>2. ~MatchedWhole(walk[1])
        BY <4>1 DEF WholeInv
      <4>3. r = taker
        BY <3>1, <3>3, <4>1, <4>2
      <4>4. qty'[taker] \in {0, qty[taker]}
        BY <3>1, <3>3, <4>3, ResolveEffect DEF MatchedWhole
      <4> QED
        BY <3>1, <4>3, <4>4
    <3> QED
      BY <3>1, <3>2, <3>3
  <2> QED
    BY <2>1, <2>2
<1>4. ASSUME NEW r \in Created', MatchedWhole(r)', NEW l \in Limit, NEW j \in DOMAIN queue'[l]
      PROVE  queue'[l][j] # r
  <2>1. CASE r \notin Created
    <3>1. /\ r = objects + 1 /\ \A i \in DOMAIN queue[l] : queue[l][i] # r /\ ~RestOrder
          /\ \A id \in Ref, req \in Request : ModifyOrder(id, req) => order'[r].id # r
      BY <2>1, MadeObject
    <3>2. order'[r].id = r
      BY <1>4 DEF MatchedWhole
    <3>3. \/ \E i \in DOMAIN queue[l] : queue'[l][j] = queue[l][i]
          \/ RestOrder /\ queue'[l][j] = taker
          \/ \E id \in Ref, req \in Request : ModifyOrder(id, req) /\ queue'[l][j] = objects + 1
      BY <1>4, NewLinks
    <3>4. ~RestOrder
      BY <2>1, MadeObject
    <3> QED
      BY <3>1, <3>2, <3>3, <3>4
  <2>2. CASE r \in Created
    <3>1. MatchedWhole(r) /\ \A i \in DOMAIN queue[l] : queue[l][i] # r
      BY <1>1, <1>2, <1>4, <2>2 DEF Linked
    <3>2. RestOrder => r # taker
      BY <3>1 DEF RestOrder, HasParam, FOK, MatchedWhole
    <3>3. r # objects + 1
      BY <2>2, BookAssumption DEF Created, TypeOK
    <3> QED
      BY <1>4, <3>1, <3>2, <3>3, NewLinks
  <2> QED
    BY <2>1, <2>2
<1>5. ASSUME pc' = "fill", NEW i \in DOMAIN walk'
      PROVE  ~("AON" \in params'[walk'[i]] /\ order'[walk'[i]].id = walk'[i])
  <2>1. \/ pc = "fill" /\ \E j \in DOMAIN walk : walk'[i] = walk[j]
        \/ \E l \in Limit : Linked(walk'[i], l)
    BY <1>5, NewMatch
  <2>2. walk'[i] \in Created
    BY <2>1 DEF WalkInv, ParentInv, Linked
  <2>3. ~MatchedWhole(walk'[i])
    BY <1>2, <2>1, <2>2 DEF WholeInv
  <2>4. PICK x \in Created : x = walk'[i]
    BY <2>2
  <2>5. ~MatchedWhole(x)'
    BY <1>1, <2>3, <2>4
  <2> QED
    BY <2>4, <2>5 DEF MatchedWhole
<1> QED
  BY <1>3, <1>4, <1>5 DEF WholeInv, AllOrNothing, MatchedWhole, Linked

-----------------------------------------------------------------------------
(* Ids and answers *)

(* Index and date tree take in new orders, never what modifies one. *)
LEMMA OwnIdStep ==
    ASSUME ShapeInv, ShapeInv', TakerLatest, OwnIdInv, [Next]_vars
    PROVE  OwnIdInv'
<1> USE DEF ShapeInv
<1>0. \A x \in Created : order'[x] = order[x] /\ params'[x] = params[x]
  BY ObjectsStay, ParamsStay
<1>1. ASSUME NEW id \in Ref
      PROVE  index'[id] \in {0, id}
  <2>1. index'[id] \in Ref \cup {0}
    BY DEF TypeOK
  <2>2. ASSUME NEW x \in Ref, index'[id] = x
        PROVE  x = id
    <3>1. index[id] = x \/ (RestOrder /\ x = taker /\ id = order[taker].id)
      BY <2>2, HeldStay, BookAssumption DEF Ref
    <3>2. RestOrder => order[taker].id = taker
      BY DEF RestOrder, NoMatch, TakerLatest, Matching
    <3>3. index[id] \in {0, id} /\ x # 0
      BY BookAssumption DEF OwnIdInv, Ref
    <3> QED
      BY <3>1, <3>2, <3>3
  <2> QED
    BY <2>1, <2>2
<1>2. ASSUME NEW r \in date
      PROVE  order'[r].id = r /\ params'[r] \cap Dated # {}
  <2>1. r \in Created /\ order[r].id = r /\ params[r] \cap Dated # {}
    BY DEF CreatedInv, OwnIdInv, HasParam
  <2> QED
    BY <1>0, <2>1
<1>3. ASSUME NEW r \in date'
      PROVE  order'[r].id = r /\ params'[r] \cap Dated # {}
  <2>1. ASSUME NEW req \in Request, AddStopOrder(req)
        PROVE  order'[r].id = r /\ params'[r] \cap Dated # {}
    <3>1. /\ Create(req, 0) /\ params' = [params EXCEPT ![objects + 1] = req.params]
          /\ r \in date \/ (r = objects + 1 /\ req.params \cap Dated # {})
      BY <2>1 DEF AddStopOrder, DateInsert
    <3>2. objects + 1 \in Ref /\ order'[objects + 1].id = objects + 1
      BY <3>1, CreateEffect
    <3>3. params'[objects + 1] = req.params
      BY <3>1, <3>2 DEF TypeOK
    <3> QED
      BY <1>2, <3>1, <3>2, <3>3
  <2>2. CASE RestOrder
    <3>1. /\ UNCHANGED <<order, params>>
          /\ r \in date \/ (r = taker /\ HasParam(taker, Dated))
      BY <2>2 DEF RestOrder, DateInsert
    <3>2. order[taker].id = taker
      BY <2>2 DEF RestOrder, NoMatch, TakerLatest, Matching
    <3> QED
      BY <1>2, <3>1, <3>2 DEF HasParam
  <2>3. CASE \/ \E req \in Request : AddOrder(req)
             \/ \E id \in Ref : CancelOrder(id) \/ ModifyNotFound(id)
             \/ \E id \in Ref, req \in Request : ModifyOrder(id, req)
             \/ CheckDateOrders
             \/ \E p \in Price : MatchSkip(p) \/ MatchEnter(p)
             \/ KillOrder
             \/ ResolveOrders
             \/ LeaveLevel
             \/ Expire
             \/ Tick
             \/ UNCHANGED vars
    <3>1. date' \subseteq date
      BY <2>3 DEF AddOrder, CancelOrder, ModifyNotFound, ModifyOrder, CheckDateOrders, MatchSkip,
                  MatchEnter, KillOrder, ResolveOrders, LeaveLevel, Expire, ExpireOrder, ExpireDone,
                  DateRemove, Tick, vars
    <3> QED
      BY <1>2, <1>3, <3>1
  <2> QED
    BY <2>1, <2>2, <2>3 DEF Next, Submit, Match
<1> QED
  BY <1>1, <1>3 DEF OwnIdInv, HasParam

(* Every answer is true when it is given and until the next request. *)
LEMMA ReplyStep ==
    ASSUME BookInv, BookInv', Regular', AsideInv, ReplyInv, [Next]_vars
    PROVE  ReplyInv'
<1> USE DEF BookInv
<1>1. ASSUME reply'.status \in {"NONE", "CANCELLED", "NOT_FOUND"}, pc' = "expire" => reply'.status = "NONE"
      PROVE  ReplyInv'
  BY <1>1 DEF ReplyInv, ReplyTruthful
<1>2. CASE pc' \in {"match", "fill"}
  BY <1>2 DEF ReplyInv, ReplyTruthful
<1>3. ASSUME NEW req \in Request, AddStopOrder(req)
      PROVE  ReplyInv'
  <2>1. PICK n : n = objects + 1
    OBVIOUS
  <2>2. /\ Create(req, 0) /\ reply' = [status |-> "ACCEPTED", order |-> n]
        /\ stop' = [stop EXCEPT ![req.side] = StopInsert(order', @, n)]
        /\ pc' = "idle" /\ UNCHANGED cancelled
    BY <1>3, <2>1 DEF AddStopOrder
  <2>3. n \notin Created /\ order'[n].side = req.side /\ req.side \in Side
    BY <2>1, <2>2, CreateEffect
  <2>4. n \in stop'[req.side] /\ n \notin cancelled'
    BY <2>2, <2>3 DEF StopInsert, TypeOK, CreatedInv
  <2>5. reply'.status = "ACCEPTED" /\ reply'.order = n
    BY <2>2
  <2> QED
    BY <2>2, <2>3, <2>4, <2>5 DEF ReplyInv, ReplyTruthful
<1>4. ASSUME pc \in {"match", "fill"}
      PROVE  /\ \A l \in Limit : ~Linked(taker, l)
             /\ taker \in Created /\ taker \notin cancelled /\ order[taker].side \in Side
             /\ taker \notin stop[order[taker].side]
  <2>1. taker \in Created /\ taker \notin cancelled /\ \A l \in Limit : ~Linked(taker, l)
    BY <1>4 DEF TakerInv, Linked
  <2>2. order[taker].side \in Side
    BY <2>1, CreatedFacts
  <2> QED
    BY <1>4, <2>1, <2>2 DEF AsideInv, Matching
<1>5. CASE KillOrder
  <2>1. /\ pc = "match" /\ reply' = [status |-> "NOT_MATCHED", order |-> taker] /\ pc' = "idle"
        /\ taker \in cancelled' /\ UNCHANGED <<order, queue, stop>>
    BY <1>5 DEF KillOrder, NoMatch, Return, bookVars
  <2>2. reply'.status = "NOT_MATCHED" /\ reply'.order = taker
    BY <2>1
  <2> QED
    BY <1>4, <2>1, <2>2 DEF ReplyInv, ReplyTruthful, Linked
<1>6. CASE RestOrder
  <2>1. /\ pc = "match" /\ reply' = [status |-> "ACCEPTED", order |-> taker] /\ pc' = "idle"
        /\ UNCHANGED cancelled
    BY <1>6 DEF RestOrder, NoMatch, Return
  <2>2. \E l \in Limit : \E j \in DOMAIN queue'[l] : queue'[l][j] = taker
    BY <1>6, RestLinks
  <2>3. reply'.status = "ACCEPTED" /\ reply'.order = taker
    BY <2>1
  <2> QED
    BY <1>4, <2>1, <2>2, <2>3 DEF ReplyInv, ReplyTruthful, Linked
<1>7. CASE LeaveLevel
  <2>1. CASE qty[taker] = 0
    <3>1. /\ pc = "fill" /\ reply' = [status |-> "MATCHED", order |-> taker] /\ pc' = "idle"
          /\ UNCHANGED <<order, queue, stop, qty>>
      BY <1>7, <2>1 DEF LeaveLevel, Return, bookVars
    <3>2. reply'.status = "MATCHED" /\ reply'.order = taker
      BY <3>1
    <3> QED
      BY <1>4, <2>1, <3>1, <3>2 DEF ReplyInv, ReplyTruthful, Linked
  <2>2. CASE qty[taker] # 0
    BY <1>2, <1>7, <2>2 DEF LeaveLevel
  <2> QED
    BY <2>1, <2>2
<1>8. ASSUME NEW id \in Ref, NEW req \in Request, ModifyOrder(id, req)
      PROVE  ReplyInv'
  <2>1. PICK n : n = objects + 1
    OBVIOUS
  <2>2. /\ Create(req, id) /\ reply' = [status |-> "MODIFIED", order |-> n] /\ pc' = "idle"
        /\ cancelled' = cancelled \cup {index[id]}
    BY <1>8, <2>1 DEF ModifyOrder
  <2>3. id \in Created /\ index[id] \in Created
    BY <1>8, ModifyEffect
  <2>4. n \notin Created /\ order'[n].side = req.side
    BY <2>1, <2>2, <2>3, CreateEffect
  <2>5. n \notin cancelled'
    BY <2>2, <2>3, <2>4 DEF CreatedInv
  <2>6. n \in stop'[req.side] \/ \E l \in Limit : \E j \in DOMAIN queue'[l] : queue'[l][j] = n
    BY <1>8, <2>1, ModifyLinks
  <2>7. reply'.status = "MODIFIED" /\ reply'.order = n
    BY <2>2
  <2> QED
    BY <2>2, <2>4, <2>5, <2>6, <2>7 DEF ReplyInv, ReplyTruthful, Linked
<1>9. CASE \/ \E id \in Ref : CancelOrder(id) \/ ModifyNotFound(id)
           \/ CheckDateOrders
           \/ Expire
  <2>1. /\ reply'.status \in {"NONE", "CANCELLED", "NOT_FOUND"}
        /\ pc' = "expire" => reply'.status = "NONE"
    BY <1>9 DEF CancelOrder, ModifyNotFound, CheckDateOrders, Expire, ExpireOrder, ExpireDone, ReplyInv
  <2> QED
    BY <1>1, <2>1
<1>10. CASE Tick \/ UNCHANGED vars
  <2>1. UNCHANGED <<pc, reply, qty, order, cancelled, stop, queue>>
    BY <1>10 DEF Tick, vars, bookVars
  <2> QED
    BY <2>1 DEF ReplyInv, ReplyTruthful, Linked
<1>11. CASE \/ \E req \in Request : AddOrder(req)
            \/ \E p \in Price : MatchSkip(p) \/ MatchEnter(p)
            \/ ResolveOrders
  BY <1>2, <1>11 DEF AddOrder, MatchSkip, MatchEnter, ResolveOrders
<1> QED
  BY <1>3, <1>5, <1>6, <1>7, <1>8, <1>9, <1>10, <1>11 DEF Next, Submit, Match

-----------------------------------------------------------------------------
(* Quantities in sum *)

(* What an order has got, and the orders of a side. *)
Got == [r \in Ref |-> order[r].qty - qty[r]]
Party(s) == {r \in Created : order[r].side = s}

(* Both are finite and sums over them are defined. *)
LEMMA PartyFacts ==
    ASSUME TypeOK, NEW s \in Side
    PROVE  /\ IsFiniteSet(Party(s))
           /\ \A r \in Ref : Got[r] \in Int /\ Got[r] = order[r].qty - qty[r]
           /\ \A r \in Party(s) : r \in Ref /\ Got[r] \in Int
           /\ SumOver(Got, Party(s)) \in Int
<1>1. objects \in Nat /\ Created \subseteq Ref
  BY BookAssumption DEF TypeOK, Created, Ref
<1>2. IsFiniteSet(Created)
  BY <1>1, FS_Interval DEF Created
<1>3. IsFiniteSet(Party(s)) /\ Party(s) \subseteq Ref
  BY <1>1, <1>2, FS_Subset DEF Party
<1>4. ASSUME NEW r \in Ref
      PROVE  Got[r] \in Int /\ Got[r] = order[r].qty - qty[r]
  <2>1. order[r].qty \in Int /\ qty[r] \in Int
    BY DEF TypeOK, OrderRecord
  <2> QED
    BY <2>1 DEF Got
<1> QED
  BY <1>3, <1>4, SumType

(* What a step does to the sum of a side: nothing, unless it is a match;    *)
(* then the taker's side and the maker's side get the same.                 *)
LEMMA FilledStep ==
    ASSUME BookInv, Regular', [Next]_vars, ~ResolveOrders, NEW s \in Side
    PROVE  Filled(s)' = Filled(s)
<1> USE DEF BookInv
<1>1. TypeOK'
  BY BookShape, TypeStep
<1>2. \A x \in Created : x \in Created' /\ order'[x] = order[x] /\ qty'[x] = qty[x] /\ x \in Ref
  BY ObjectKept
<1>3. \A x \in Created' : x \notin Created => x = objects + 1 /\ qty'[x] = order'[x].qty
  BY MadeObject
<1>4. /\ IsFiniteSet(Party(s))
      /\ \A x \in Party(s) : x \in Created /\ Got[x] \in Int /\ Got'[x] = Got[x]
  <2>1. \A x \in Ref : Got[x] = order[x].qty - qty[x] /\ Got'[x] = order'[x].qty - qty'[x]
    BY DEF Got
  <2> QED
    BY <1>2, <2>1, PartyFacts DEF Party
<1>5. Filled(s) = SumOver(Got, Party(s)) /\ Filled(s)' = SumOver(Got', Party(s)')
  BY DEF Filled, Got, Party
<1>6. CASE Party(s)' = Party(s)
  BY <1>4, <1>5, <1>6, SumSame
<1>7. CASE Party(s)' # Party(s)
  <2>1. PICK n \in Party(s)' : n \notin Party(s)
    BY <1>2, <1>7 DEF Party
  <2>2. n \in Created' /\ n \notin Created /\ Party(s)' = Party(s) \cup {n}
    BY <1>2, <1>3, <2>1 DEF Party
  <2>3. Got'[n] = 0
    <3>1. n \in Ref /\ qty'[n] = order'[n].qty /\ qty'[n] \in Int
      BY <1>1, <1>3, <2>2, BookAssumption DEF Created, Ref, TypeOK
    <3> QED
      BY <3>1 DEF Got
  <2>4. SumOver(Got', Party(s) \cup {n}) = SumOver(Got, Party(s)) + Got'[n]
    BY <1>4, <2>1, <2>3, SumInsert
  <2>5. SumOver(Got, Party(s)) \in Int
    BY PartyFacts
  <2> QED
    BY <1>5, <2>2, <2>3, <2>4, <2>5
<1> QED
  BY <1>6, <1>7

LEMMA FilledResolve ==
    ASSUME BookInv, SideInv, Regular', ResolveOrders, NEW s \in Side
    PROVE  Filled(s)' = Filled(s) + (qty[taker] - qty'[taker])
<1> USE DEF BookInv
<1>1. TypeOK'
  BY BookShape, TypeStep DEF Next, Match
<1>2. UNCHANGED <<objects, order>>
  BY DEF ResolveOrders
<1>3. PICK m \in Ref :
           /\ m \in Created /\ m # taker /\ taker \in Ref /\ taker \in Created
           /\ parent[m] = <<Opposite(TakerSide), level>> /\ parent[m] \in Limit
           /\ \A x \in Ref : x # m /\ x # taker => qty'[x] = qty[x]
           /\ qty[m] - qty'[m] = qty[taker] - qty'[taker]
  BY ResolveEffect
<1>4. order[m].side = Opposite(TakerSide) /\ TakerSide \in Side
  <2>1. \E p \in Price : parent[m] = <<order[m].side, p>>
    BY <1>3, BookAssumption DEF SideInv
  <2> QED
    BY <1>3, <2>1, CreatedFacts DEF TakerSide
<1>5. Party(s)' = Party(s)
  BY <1>2 DEF Party, Created
<1>6. PICK x \in Party(s) : /\ x \in {m, taker}
                            /\ \A y \in Party(s) : y # x => y \notin {m, taker}
  BY <1>3, <1>4 DEF Party, Side, Opposite, TakerSide
<1>7. /\ IsFiniteSet(Party(s)) /\ SumOver(Got, Party(s)) \in Int
      /\ \A y \in Party(s) : Got[y] \in Int /\ (y # x => Got'[y] = Got[y])
      /\ Got'[x] \in Int
      /\ Got'[x] = Got[x] + (qty[taker] - qty'[taker])
  <2>1. \A y \in Ref : /\ Got[y] = order[y].qty - qty[y] /\ Got'[y] = order[y].qty - qty'[y]
                       /\ order[y].qty \in Int /\ qty[y] \in Int /\ qty'[y] \in Int
    BY <1>1, <1>2 DEF Got, TypeOK, OrderRecord
  <2>2. IsFiniteSet(Party(s)) /\ SumOver(Got, Party(s)) \in Int /\ \A y \in Party(s) : y \in Ref
    BY PartyFacts
  <2>3. \A y \in Party(s) : Got[y] \in Int /\ (y # x => Got'[y] = Got[y])
    BY <1>3, <1>6, <2>1, <2>2
  <2>4. qty[x] - qty'[x] = qty[taker] - qty'[taker]
    BY <1>3, <1>6
  <2> QED
    BY <1>3, <1>6, <2>1, <2>2, <2>3, <2>4
<1>8. SumOver(Got', Party(s)) = SumOver(Got, Party(s)) - Got[x] + Got'[x]
  BY <1>7, SumChange
<1>9. Filled(s) = SumOver(Got, Party(s)) /\ Filled(s)' = SumOver(Got', Party(s)')
  BY DEF Filled, Got, Party
<1>10. qty[taker] \in Int /\ qty'[taker] \in Int
  BY <1>1, <1>3 DEF TypeOK
<1> QED
  BY <1>5, <1>7, <1>8, <1>9, <1>10

(* A volume that covers a level still does when an order is taken out with  *)
(* its whole quantity, and when one is put in.                              *)
LEMMA CoverTake ==
    ASSUME NEW f, NEW O, IsFiniteSet(O), \A x \in O : f[x] \in Nat, NEW r \in O,
           NEW v \in Nat, v >= SumOver(f, O)
    PROVE  Decrease(v, f[r]) \in Nat /\ Decrease(v, f[r]) >= SumOver(f, O \ {r})
<1>1. \A x \in O : f[x] \in Int
  OBVIOUS
<1>2. SumOver(f, O) = f[r] + SumOver(f, O \ {r}) /\ SumOver(f, O \ {r}) \in Int
  BY <1>1, SumRemove
<1> QED
  BY <1>2 DEF Decrease

LEMMA CoverPut ==
    ASSUME NEW f, NEW g, NEW O, IsFiniteSet(O), \A x \in O : f[x] \in Nat /\ g[x] = f[x],
           NEW n, n \notin O, g[n] \in Nat, NEW P, P \subseteq O \cup {n},
           NEW v \in Nat, v >= SumOver(f, O)
    PROVE  v + g[n] >= SumOver(g, P)
<1> DEFINE Q == O \cup {n}
<1>1. SumOver(g, Q) = SumOver(f, O) + g[n]
  <2>1. g[n] \in Int /\ \A x \in O : f[x] \in Int /\ g[x] = f[x]
    OBVIOUS
  <2> QED
    BY <2>1, SumInsert
<1>2. IsFiniteSet(Q)
  BY FS_AddElement
<1>3. SumOver(g, P) <= SumOver(g, Q)
  <2>1. P \subseteq Q /\ (\A x \in Q : g[x] \in Nat) /\ \A x \in P : g[x] \in Nat /\ g[x] <= g[x]
    OBVIOUS
  <2> HIDE DEF Q
  <2> QED
    BY <1>2, <2>1, SumMonotone
<1>4. SumOver(g, P) \in Int /\ SumOver(f, O) \in Int
  <2>1. IsFiniteSet(P) /\ (\A x \in P : g[x] \in Int) /\ \A x \in O : f[x] \in Int
    BY <1>2, FS_Subset
  <2> QED
    BY <2>1, SumType
<1> HIDE DEF Q
<1> QED
  BY <1>1, <1>3, <1>4


(* The orders of a level. *)
LEMMA OrdersFacts ==
    ASSUME TypeOK, NaturalInv, ParentInv, NEW l \in Limit
    PROVE  /\ IsFiniteSet(Orders(l)) /\ volume[l] \in Nat /\ SumOver(qty, Orders(l)) \in Int
           /\ Orders(l) \subseteq Created
           /\ \A x \in Orders(l) : x \in Ref /\ qty[x] \in Nat
<1>1. Orders(l) \subseteq Created /\ objects \in Nat /\ Created \subseteq Ref
  BY BookAssumption DEF Orders, ParentInv, TypeOK, Created, Ref
<1>2. IsFiniteSet(Orders(l))
  BY <1>1, FS_Interval, FS_Subset DEF Created
<1>3. volume[l] \in Nat /\ \A x \in Orders(l) : x \in Ref /\ qty[x] \in Nat
  BY <1>1 DEF TypeOK, NaturalInv
<1>4. SumOver(qty, Orders(l)) \in Int
  <2>1. \A x \in Orders(l) : qty[x] \in Int
    BY <1>3
  <2> QED
    BY <1>2, <2>1, SumType
<1> QED
  BY <1>1, <1>2, <1>3, <1>4

(* Nothing joins the level and no quantity grows. *)
LEMMA CoverLess ==
    ASSUME TypeOK, NaturalInv, ParentInv, TypeOK', NaturalInv', ParentInv',
           NEW l \in Limit, Covered(l),
           Orders(l)' \subseteq Orders(l), volume'[l] = volume[l],
           \A x \in Orders(l) : qty'[x] <= qty[x]
    PROVE  Covered(l)'
<1>1. /\ IsFiniteSet(Orders(l)) /\ volume[l] \in Nat /\ SumOver(qty, Orders(l)) \in Int
      /\ \A x \in Orders(l) : x \in Ref /\ qty[x] \in Nat
  BY OrdersFacts
<1>2. \A x \in Orders(l)' : qty'[x] \in Nat /\ qty'[x] <= qty[x]
  BY <1>1 DEF TypeOK, NaturalInv
<1>3. SumOver(qty', Orders(l)') <= SumOver(qty, Orders(l))
  BY <1>1, <1>2, SumMonotone
<1>4. SumOver(qty', Orders(l)') \in Int
  <2>1. IsFiniteSet(Orders(l)') /\ \A x \in Orders(l)' : qty'[x] \in Int
    BY <1>1, <1>2, FS_Subset
  <2> QED
    BY <2>1, SumType
<1> QED
  BY <1>1, <1>3, <1>4 DEF Covered

(* Unlinking takes an order out of its level, which holds it once. *)
LEMMA UnlinkOrders ==
    ASSUME TypeOK, TimePriority, NEW h \in Limit, NEW r
    PROVE  LET u == Unlink(queue[h], r) IN
           {u[i] : i \in DOMAIN u} \subseteq Orders(h) \ {r}
<1>1. queue[h] \in Seq(Ref)
  BY DEF TypeOK
<1>2. NoRepeat(queue[h])
  <2> SUFFICES ASSUME NEW i \in DOMAIN queue[h], NEW j \in DOMAIN queue[h],
                      queue[h][i] = queue[h][j], i # j
               PROVE  FALSE
    BY DEF NoRepeat
  <2>1. i \in Nat /\ j \in Nat /\ queue[h][i] \in Nat
    <3>1. i \in Nat /\ j \in Nat /\ queue[h][i] \in Ref
      BY <1>1
    <3> QED
      BY <3>1, BookAssumption DEF Ref
  <2>2. i < j \/ j < i
    BY <2>1
  <2>3. queue[h][i] < queue[h][j] \/ queue[h][j] < queue[h][i]
    BY <2>2 DEF TimePriority
  <2> QED
    BY <2>1, <2>3
<1> DEFINE u == Unlink(queue[h], r)
<1>3. \A j \in DOMAIN u : u[j] # r /\ \E i \in DOMAIN queue[h] : u[j] = queue[h][i]
  BY <1>1, <1>2, UnlinkNoRepeat, UnlinkFacts
<1> HIDE DEF u
<1> QED
  BY <1>3 DEF Orders, u

(* A match only takes quantity away, and a maker that is removed has none   *)
(* left to be taken off the volume.                                         *)
LEMMA CoverResolve ==
    ASSUME BookInv, BookInv', Regular', TimePriority, ResolveOrders,
           NEW l \in Limit, Covered(l)
    PROVE  Covered(l)'
<1> USE DEF BookInv
<1>1. PICK m \in Ref :
           /\ m = Head(walk) /\ m \in Created /\ m # taker /\ taker \in Ref /\ parent[m] \in Limit
           /\ \A x \in Ref : x # m /\ x # taker => qty'[x] = qty[x]
           /\ qty[m] - qty'[m] = qty[taker] - qty'[taker]
           /\ qty'[m] # qty[m] => qty'[m] < qty[m]
  BY ResolveEffect
<1>2. \A x \in Orders(l) : qty'[x] <= qty[x]
  <2>1. \A x \in Orders(l) : x \in Ref /\ qty[x] \in Nat /\ x # taker
    BY OrdersFacts DEF ResolveOrders, TakerInv, Orders
  <2>2. qty'[m] \in Nat /\ qty[m] \in Nat
    BY DEF TypeOK, NaturalInv
  <2>3. qty'[m] <= qty[m]
    BY <1>1, <2>2
  <2>4. ASSUME NEW x \in Orders(l)
        PROVE  qty'[x] <= qty[x]
    <3>1. CASE x = m
      BY <2>3, <3>1
    <3>2. CASE x # m
      BY <1>1, <2>1, <3>2
    <3> QED
      BY <3>1, <3>2
  <2> QED
    BY <2>4
<1>3. IF qty'[m] = 0 THEN RemoveLimitOrder(m, 0) ELSE UNCHANGED <<queue, volume>>
  BY <1>1 DEF ResolveOrders
<1>4. volume'[l] = volume[l]
  <2>1. volume \in [Limit -> Nat]
    BY DEF TypeOK, NaturalInv
  <2>2. \A v \in Nat : Decrease(v, 0) = v
    BY DEF Decrease
  <2> QED
    BY <1>1, <1>3, <2>1, <2>2 DEF RemoveLimitOrder
<1>5. Orders(l)' \subseteq Orders(l)
  <2>1. CASE UNCHANGED queue
    BY <2>1 DEF Orders
  <2>2. CASE queue' = [queue EXCEPT ![parent[m]] = Unlink(queue[parent[m]], m)]
    <3>1. \A j \in DOMAIN queue'[l] : \E i \in DOMAIN queue[l] : queue'[l][j] = queue[l][i]
      BY <1>1, <2>2, UnlinkLinks
    <3> QED
      BY <3>1 DEF Orders
  <2> QED
    BY <1>3, <2>1, <2>2 DEF RemoveLimitOrder
<1> QED
  BY <1>2, <1>4, <1>5, CoverLess

(* cancel_order takes the quantity of the order off its level. *)
LEMMA CoverCancel ==
    ASSUME BookInv, BookInv', TimePriority, NEW id \in Ref, NEW sent, CancelEntry(id, sent),
           UNCHANGED qty, NEW l \in Limit, Covered(l)
    PROVE  Covered(l)'
<1> USE DEF BookInv
<1>1. PICK r \in Ref : r = index[id] /\ r # 0
  BY DEF CancelEntry, TypeOK
<1>2. EntrySound(id, r) /\ parent[r] \in Limit /\ qty[r] \in Nat
  BY <1>1, EntryOf, EntryFacts DEF TypeOK, NaturalInv
<1>3. \A x \in Orders(l) : qty'[x] <= qty[x]
  BY OrdersFacts
<1>4. CASE UNCHANGED <<queue, volume>>
  BY <1>3, <1>4, CoverLess DEF Orders
<1>5. CASE RemoveLimitOrder(r, qty[r]) /\ l # parent[r]
  <2>1. queue'[l] = queue[l] /\ volume'[l] = volume[l]
    BY <1>2, <1>5 DEF RemoveLimitOrder, TypeOK
  <2>2. Orders(l)' = Orders(l)
    BY <2>1 DEF Orders
  <2> QED
    BY <1>3, <2>1, <2>2, CoverLess
<1>6. CASE RemoveLimitOrder(r, qty[r]) /\ l = parent[r]
  <2> DEFINE u == Unlink(queue[l], r)
             O == Orders(l) \ {r}
  <2>1. queue'[l] = u /\ volume'[l] = Decrease(volume[l], qty[r])
    BY <1>2, <1>6 DEF RemoveLimitOrder, TypeOK
  <2>2. Orders(l)' \subseteq O
    <3>1. {u[i] : i \in DOMAIN u} \subseteq O
      BY UnlinkOrders
    <3> HIDE DEF u, O
    <3> QED
      BY <2>1, <3>1 DEF Orders
  <2>3. r \in Orders(l)
    BY <1>2, <1>6 DEF EntrySound, Linked, Orders
  <2>4. /\ IsFiniteSet(Orders(l)) /\ volume[l] \in Nat
        /\ \A x \in Orders(l) : qty[x] \in Nat
    BY OrdersFacts
  <2>5. volume'[l] \in Nat /\ volume'[l] >= SumOver(qty, O)
    BY <2>1, <2>3, <2>4, CoverTake DEF Covered
  <2>6. IsFiniteSet(O) /\ \A x \in O : qty[x] \in Nat
    BY <2>4, FS_Subset
  <2>7. \A x \in Orders(l)' : qty[x] \in Nat /\ qty[x] <= qty[x]
    BY <2>2, <2>4
  <2> HIDE DEF O, u
  <2>8. SumOver(qty, Orders(l)') <= SumOver(qty, O)
    BY <2>2, <2>6, <2>7, SumMonotone
  <2>9. SumOver(qty, O) \in Int /\ SumOver(qty, Orders(l)') \in Int
    <3>1. (\A x \in O : qty[x] \in Int) /\ \A x \in Orders(l)' : qty[x] \in Int
      BY <2>6, <2>7
    <3>2. IsFiniteSet(Orders(l)')
      BY <2>2, <2>6, FS_Subset
    <3> QED
      BY <2>6, <3>1, <3>2, SumType
  <2> QED
    BY <2>5, <2>8, <2>9 DEF Covered
<1> QED
  BY <1>1, <1>4, <1>5, <1>6 DEF CancelEntry

(* add_limit_order adds the quantity of the order to its level. *)
LEMMA CoverRest ==
    ASSUME BookInv, BookInv', RestOrder, NEW l \in Limit, Covered(l)
    PROVE  Covered(l)'
<1> USE DEF BookInv
<1>1. /\ taker \in Created /\ taker \in Ref /\ qty' = qty /\ taker \notin Orders(l)
      /\ AddLimitOrder(taker, TakerSide, qty[taker], <<TakerSide, order[taker].price>>, queue, volume)
  BY CreatedFacts DEF RestOrder, NoMatch, TakerInv, Orders
<1>2. PICK s \in Side, p \in Price : s = TakerSide /\ p = order[taker].price
  BY <1>1, CreatedFacts DEF TakerSide
<1>3. PICK h \in Limit : /\ queue' = [queue EXCEPT ![h] = IF tree[s][p] # NoLimit
                                                          THEN Append(@, taker) ELSE <<taker>>]
                         /\ volume' = [volume EXCEPT ![h] = @ + qty[taker]]
  <2>1. Home(s, <<s, p>>) = <<s, p>> /\ <<s, p>> \in Limit
    BY HomeFacts
  <2> QED
    BY <1>1, <1>2, <2>1 DEF AddLimitOrder
<1>4. queue \in [Limit -> Seq(Ref)] /\ volume \in [Limit -> Nat] /\ qty[taker] \in Nat
  BY <1>1 DEF TypeOK, NaturalInv
<1>5. /\ IsFiniteSet(Orders(l)) /\ volume[l] \in Nat
      /\ \A x \in Orders(l) : qty[x] \in Nat /\ qty'[x] = qty[x]
  BY <1>1, OrdersFacts
<1>6. CASE l # h
  <2>1. queue'[l] = queue[l] /\ volume'[l] = volume[l]
    BY <1>3, <1>4, <1>6
  <2>2. Orders(l)' = Orders(l)
    BY <2>1 DEF Orders
  <2> QED
    BY <1>1, <2>1, <2>2 DEF Covered
<1>7. CASE l = h
  <2>1. /\ queue'[l] \in {Append(queue[l], taker), <<taker>>}
        /\ volume'[l] = volume[l] + qty[taker]
    BY <1>3, <1>4, <1>7
  <2>2. \A j \in DOMAIN queue'[l] :
            queue'[l][j] = taker \/ \E i \in DOMAIN queue[l] : queue'[l][j] = queue[l][i]
    <3>1. CASE queue'[l] = Append(queue[l], taker)
      BY <1>1, <1>4, <3>1, AppendElements
    <3>2. CASE queue'[l] = <<taker>>
      BY <3>2
    <3> QED
      BY <2>1, <3>1, <3>2
  <2>3. Orders(l)' \subseteq Orders(l) \cup {taker}
    BY <2>2 DEF Orders
  <2>4. volume[l] >= SumOver(qty, Orders(l))
    BY DEF Covered
  <2>5. volume[l] + qty'[taker] >= SumOver(qty', Orders(l)')
    <3>1. qty'[taker] \in Nat
      BY <1>1, <1>4
    <3> QED
      BY <1>1, <1>5, <2>3, <2>4, <3>1, CoverPut
  <2> QED
    BY <1>1, <2>1, <2>5 DEF Covered
<1> QED
  BY <1>6, <1>7

(* modify_order does both. *)
LEMMA CoverModify ==
    ASSUME BookInv, BookInv', Regular', TimePriority,
           NEW id \in Ref, NEW req \in Request, ModifyOrder(id, req), NEW l \in Limit, Covered(l)
    PROVE  Covered(l)'
<1> USE DEF BookInv
<1>1. PICK r \in Ref : r = index[id] /\ r # 0
  BY DEF ModifyOrder, TypeOK
<1>2. EntrySound(id, r) /\ parent[r] \in Limit /\ qty[r] \in Nat /\ id \in Created
  BY <1>1, EntryOf, EntryFacts, ModifyEffect DEF TypeOK, NaturalInv
<1>3. PICK n \in Ref : /\ n = objects + 1 /\ n \notin Created
                       /\ \A x \in Ref : x # n => qty'[x] = qty[x]
  BY <1>2, CreateEffect DEF ModifyOrder
<1>4. /\ qty'[n] = req.qty /\ qty'[n] \in Nat
  BY <1>3 DEF ModifyOrder, Create, TypeOK, NaturalInv
<1>5. /\ IsFiniteSet(Orders(l)) /\ volume[l] \in Nat /\ n \notin Orders(l)
      /\ \A x \in Orders(l) : x \in Ref /\ qty[x] \in Nat /\ qty'[x] = qty[x]
  BY <1>3, OrdersFacts
<1>6. CASE queue'[l] = queue[l] /\ volume'[l] = volume[l]
  <2>1. Orders(l)' = Orders(l)
    BY <1>6 DEF Orders
  <2> QED
    BY <1>5, <1>6, <2>1, CoverLess
<1>7. CASE ~HasParam(r, {"STOP"})
  <2>1. PICK s \in Side, p \in Price : /\ s = order[r].side /\ parent[r] = <<s, p>>
                                       /\ tree[s][p] = <<s, p>> /\ s = req.side
    <3>1. order[r].side \in Side /\ req.side = order[r].side
      BY <1>1, <1>2, ModifyEffect
    <3> QED
      BY <1>2, <3>1 DEF EntrySound
  <2> DEFINE h == <<s, p>>
  <2>2. h \in Limit /\ Home(s, h) = h /\ h[2] = p /\ tree[s][p] = h /\ parent[r] = h /\ h # NoLimit
    BY <2>1, HomeFacts, BookAssumption
  <2> HIDE DEF h
  <2>3. AddLimitOrder(n, s, req.qty, h, [queue EXCEPT ![h] = Unlink(@, r)],
                      [volume EXCEPT ![h] = Decrease(@, qty[r])])
    BY <1>1, <1>3, <1>7, <2>1, <2>2 DEF ModifyOrder
  <2>4. /\ queue' = [[queue EXCEPT ![h] = Unlink(@, r)] EXCEPT ![h] = Append(@, n)]
        /\ volume' = [[volume EXCEPT ![h] = Decrease(@, qty[r])] EXCEPT ![h] = @ + req.qty]
    BY <2>2, <2>3 DEF AddLimitOrder
  <2>5. queue \in [Limit -> Seq(Ref)] /\ volume \in [Limit -> Nat]
    BY DEF TypeOK, NaturalInv
  <2>6. CASE l # h
    BY <1>6, <2>2, <2>4, <2>5, <2>6
  <2>7. CASE l = h
    <3> DEFINE u == Unlink(queue[l], r)
               O == Orders(l) \ {r}
               v == Decrease(volume[l], qty[r])
    <3>1. queue'[l] = Append(u, n) /\ volume'[l] = v + req.qty
      BY <2>2, <2>4, <2>5, <2>7
    <3>2. {u[i] : i \in DOMAIN u} \subseteq O
      BY UnlinkOrders
    <3>3. u \in Seq(Ref)
      BY <2>5, UnlinkFacts
    <3>4. r \in Orders(l)
      BY <1>2, <2>2, <2>7 DEF EntrySound, Linked, Orders
    <3>5. v \in Nat /\ v >= SumOver(qty, O)
      BY <1>5, <3>4, CoverTake DEF Covered
    <3>6. IsFiniteSet(O) /\ n \notin O /\ \A x \in O : qty[x] \in Nat /\ qty'[x] = qty[x]
      BY <1>5, FS_Subset
    <3> HIDE DEF u, O, v
    <3>7. \A j \in DOMAIN queue'[l] :
              queue'[l][j] = n \/ \E i \in DOMAIN u : queue'[l][j] = u[i]
      BY <3>1, <3>3, AppendElements
    <3>8. Orders(l)' \subseteq O \cup {n}
      BY <3>2, <3>7 DEF Orders
    <3>9. v + qty'[n] >= SumOver(qty', Orders(l)')
      BY <1>4, <3>5, <3>6, <3>8, CoverPut
    <3> QED
      BY <1>4, <3>1, <3>9 DEF Covered
  <2> QED
    BY <2>6, <2>7
<1> QED
  BY <1>1, <1>6, <1>7 DEF ModifyOrder, bookVars

(* Every step keeps every level covered. *)
LEMMA VolumeStep ==
    ASSUME BookInv, BookInv', Regular', TimePriority, VolumesCover, [Next]_vars
    PROVE  VolumesCover'
<1> SUFFICES ASSUME NEW l \in Limit
             PROVE  Covered(l)'
  BY DEF VolumesCover, Covered
<1>1. Covered(l)
  BY DEF VolumesCover, Covered
<1>2. CASE UNCHANGED <<queue, volume>> /\ ~ResolveOrders
  <2>1. \A x \in Orders(l) : x \in Created /\ qty[x] \in Nat
    BY OrdersFacts DEF BookInv
  <2>2. \A x \in Orders(l) : qty'[x] <= qty[x]
    <3>1. \A x \in Orders(l) : qty'[x] = qty[x]
      BY <1>2, <2>1, ObjectKept
    <3> QED
      BY <2>1, <3>1
  <2>3. Orders(l)' = Orders(l) /\ volume'[l] = volume[l]
    BY <1>2 DEF Orders
  <2> QED
    BY <1>1, <2>2, <2>3, CoverLess DEF BookInv
<1>3. CASE ResolveOrders
  BY <1>1, <1>3, CoverResolve
<1>4. ASSUME NEW id \in Ref, NEW sent, CancelEntry(id, sent), UNCHANGED qty
      PROVE  Covered(l)'
  BY <1>1, <1>4, CoverCancel
<1>5. ASSUME NEW r \in Ref, ExpireOrder(r)
      PROVE  Covered(l)'
  <2>1. r \in Created
    BY <1>5 DEF ExpireOrder, Earliest, BookInv, CreatedInv
  <2>2. PICK id \in Ref : id = order[r].id
    BY <2>1, CreatedFacts DEF BookInv
  <2>3. UNCHANGED qty /\ (CancelEntry(id, outbox) \/ UNCHANGED <<queue, volume>>)
    BY <1>5, <2>2 DEF ExpireOrder
  <2>4. ~ResolveOrders
    BY <1>5 DEF ExpireOrder, ResolveOrders
  <2> QED
    BY <1>2, <1>4, <2>3, <2>4
<1>6. ASSUME NEW id \in Ref, CancelOrder(id)
      PROVE  Covered(l)'
  <2>1. UNCHANGED qty /\ (CancelEntry(id, << >>) \/ UNCHANGED <<queue, volume>>) /\ ~ResolveOrders
    BY <1>6 DEF CancelOrder, ResolveOrders
  <2> QED
    BY <1>2, <1>4, <2>1
<1>7. CASE RestOrder
  BY <1>1, <1>7, CoverRest
<1>8. ASSUME NEW id \in Ref, NEW req \in Request, ModifyOrder(id, req)
      PROVE  Covered(l)'
  BY <1>1, <1>8, CoverModify
<1>9. CASE \/ \E req \in Request : AddStopOrder(req) \/ AddOrder(req)
           \/ \E id \in Ref : ModifyNotFound(id)
           \/ CheckDateOrders
           \/ \E p \in Price : MatchSkip(p) \/ MatchEnter(p)
           \/ KillOrder
           \/ LeaveLevel
           \/ ExpireDone
           \/ Tick
           \/ UNCHANGED vars
  <2>1. UNCHANGED <<queue, volume>>
    BY <1>9 DEF AddStopOrder, AddOrder, ModifyNotFound, CheckDateOrders, MatchSkip, MatchEnter,
                KillOrder, LeaveLevel, ExpireDone, Tick, vars, bookVars
  <2> QED
    BY <1>2, <1>3, <2>1
<1> QED
  BY <1>3, <1>5, <1>6, <1>7, <1>8, <1>9 DEF Next, Submit, Match, Expire

-----------------------------------------------------------------------------
(* The theorems *)

(* Both invariants hold as long as modifications have kept the side of      *)
(* their order and no order has come for a negative quantity.               *)
THEOREM DetailInvariant == Spec => [](Regular => BookInv /\ DetailInv)
<1>1. Init => DetailInv
  BY DEF Init, DetailInv, FreshInv, SideInv, TakerLatest, Matching, CrossInv, TimePriority, AsideInv,
         StopSetAside, WholeInv, AllOrNothing, OwnIdInv, ReplyInv, ReplyTruthful, Created, Side
<1>2. ShapeInv /\ (Regular => BookInv /\ DetailInv) /\ [Next]_vars
          => (Regular => BookInv /\ DetailInv)'
  <2> SUFFICES ASSUME ShapeInv, Regular => BookInv /\ DetailInv, [Next]_vars, Regular'
               PROVE  BookInv' /\ DetailInv'
    OBVIOUS
  <2>0. BookInv /\ DetailInv
    BY RegularBefore
  <2> USE DEF DetailInv
  <2>1. BookInv'
    BY <2>0, BookStep
  <2>2. FreshInv' /\ SideInv' /\ TakerLatest' /\ CrossInv' /\ TimePriority'
    <3>1. TakerFree
      BY <2>0 DEF BookInv, TakerInv, TakerFree, Matching
    <3> QED
      BY <2>0, <3>1, BookShape, FreshStep, SideStep, ReachStep, TimeStep
  <2>3. AsideInv' /\ WholeInv' /\ OwnIdInv' /\ ReplyInv'
    BY <2>0, <2>1, ShapeStep, AsideStep, WholeStep, OwnIdStep, ReplyStep
  <2> QED
    BY <2>1, <2>2, <2>3
<1>3. Init => (Regular => BookInv /\ DetailInv)
  BY <1>1, BookInit
<1> QED
  BY <1>2, <1>3, BookShapes, PTL DEF Spec

(* The orders of a level stand in order of arrival, whatever is filled,     *)
(* cancelled or modified out of its middle.                                 *)
THEOREM BookTimePriority == Spec => []TimePriority
<1> DEFINE Known == TakerLatest /\ CrossInv /\ TakerFree /\ TimePriority
<1>1. Init => Known
  BY DEF Init, TakerLatest, CrossInv, TakerFree, TimePriority, Matching
<1>2. ShapeInv /\ Known /\ [Next]_vars => Known'
  BY ReachStep, FreeStep, TimeStep
<1> QED
  BY <1>1, <1>2, BookShapes, PTL DEF Spec

-----------------------------------------------------------------------------
(* Cancelled orders leave the lists, whatever clients send *)

(* Whatever a list holds has that list's Limit as its parent. *)
PlacedInv == \A l \in Limit : \A i \in DOMAIN queue[l] : parent[queue[l][i]] = l

(* The order being matched is not cancelled. *)
OutInv == CancelledIsOut /\ (Matching => taker \notin cancelled)

(* Order n joins the lists qu at the Limit h. *)
Joins(n, h, qu) ==
    /\ parent' = [parent EXCEPT ![n] = h]
    /\ \A m \in Limit : \A i \in DOMAIN queue'[m] :
           \/ m = h /\ queue'[m][i] = n
           \/ i \in DOMAIN qu[m] /\ queue'[m][i] = qu[m][i]

(* add_limit_order puts one order into one list, and names that list's      *)
(* Limit as its parent.                                                     *)
LEMMA AddPlaces ==
    ASSUME TypeOK, NEW n \in Ref, NEW s \in Side, NEW q, NEW l \in Limit,
           NEW qu \in [Limit -> Seq(Ref)], NEW vo, AddLimitOrder(n, s, q, l, qu, vo)
    PROVE  \E h \in Limit : Joins(n, h, qu)
<1>1. l[2] \in Price
  BY DEF Limit
<1>2. PICK h \in Limit : h = Home(s, l)
  <2>1. Home(s, l) \in Limit
    BY <1>1 DEF Home, TypeOK
  <2> QED
    BY <2>1
<1>3. /\ parent' = [parent EXCEPT ![n] = h]
      /\ queue' = [qu EXCEPT ![h] = IF tree[s][l[2]] # NoLimit THEN Append(@, n) ELSE <<n>>]
  BY <1>2 DEF AddLimitOrder
<1>4. ASSUME NEW m \in Limit, NEW i \in DOMAIN queue'[m]
      PROVE  \/ m = h /\ queue'[m][i] = n
             \/ i \in DOMAIN qu[m] /\ queue'[m][i] = qu[m][i]
  <2>1. queue'[m] = qu[m] \/ (m = h /\ queue'[m] = Append(qu[m], n)) \/ (m = h /\ queue'[m] = <<n>>)
    BY <1>2, <1>3
  <2>2. qu[m] \in Seq(Ref)
    OBVIOUS
  <2>3. CASE queue'[m] = qu[m]
    BY <1>4, <2>3
  <2>4. CASE m = h /\ queue'[m] = <<n>>
    <3>1. i = 1 /\ queue'[m][1] = n
      BY <1>4, <2>4
    <3> QED
      BY <2>4, <3>1
  <2>5. CASE m = h /\ queue'[m] = Append(qu[m], n)
    <3>1. i \in 1 .. Len(qu[m]) + 1
      BY <1>4, <2>2, <2>5
    <3>2. i = Len(qu[m]) + 1 => queue'[m][i] = n
      BY <2>2, <2>5
    <3>3. i \in 1 .. Len(qu[m]) => i \in DOMAIN qu[m] /\ queue'[m][i] = qu[m][i]
      BY <2>2, <2>5
    <3> QED
      BY <2>2, <2>5, <3>1, <3>2, <3>3
  <2> QED
    BY <2>1, <2>3, <2>4, <2>5
<1> QED
  BY <1>3, <1>4 DEF Joins

(* An order unlinked from its parent is in no list any more. *)
LEMMA UnlinkedOut ==
    ASSUME TypeOK, PlacedInv, TimePriority, NEW r \in Ref, NEW k \in Limit, parent[r] \in {k},
           NEW qu, qu \in {[queue EXCEPT ![k] = Unlink(queue[k], r)]}
    PROVE  /\ qu \in [Limit -> Seq(Ref)]
           /\ \A l \in Limit : \A i \in DOMAIN qu[l] :
                  qu[l][i] # r /\ \E j \in DOMAIN queue[l] : qu[l][i] = queue[l][j]
<1>1. queue \in [Limit -> Seq(Ref)] /\ queue[k] \in Seq(Ref) /\ Ref \subseteq Nat
  BY BookAssumption DEF TypeOK, Ref
<1>2. PICK s \in Seq(Ref) : s = Unlink(queue[k], r)
  BY <1>1, UnlinkFacts
<1>3. NoRepeat(queue[k])
  <2>1. \A i, j \in DOMAIN queue[k] : i < j => queue[k][i] < queue[k][j]
    BY DEF TimePriority
  <2>2. ASSUME NEW i \in DOMAIN queue[k], NEW j \in DOMAIN queue[k], queue[k][i] = queue[k][j]
        PROVE  i = j
    <3>1. i \in Nat /\ j \in Nat /\ queue[k][i] \in Ref /\ queue[k][j] \in Ref
      BY <1>1
    <3>2. queue[k][i] \in Nat /\ queue[k][j] \in Nat
      BY <1>1, <3>1
    <3> QED
      BY <2>1, <2>2, <3>1, <3>2
  <2> QED
    BY <2>2 DEF NoRepeat
<1>4. \A j \in DOMAIN s : s[j] # r
  BY <1>1, <1>2, <1>3, UnlinkNoRepeat
<1>5. \A j \in DOMAIN s : \E i \in DOMAIN queue[k] : s[j] = queue[k][i]
  BY <1>1, <1>2, UnlinkFacts
<1>6. qu = [queue EXCEPT ![k] = s]
  BY <1>2
<1>7. ASSUME NEW l \in Limit, NEW i \in DOMAIN qu[l]
      PROVE  qu[l][i] # r /\ \E j \in DOMAIN queue[l] : qu[l][i] = queue[l][j]
  <2>1. CASE l = k
    <3>1. qu[l] = s
      BY <1>1, <1>6, <2>1
    <3> QED
      BY <1>4, <1>5, <1>7, <2>1, <3>1
  <2>2. CASE l # k
    <3>1. qu[l] = queue[l]
      BY <1>1, <1>6, <2>2
    <3>2. parent[queue[l][i]] = l
      BY <1>7, <3>1 DEF PlacedInv
    <3>3. queue[l][i] # r
      BY <2>2, <3>2
    <3> QED
      BY <1>7, <3>1, <3>3
  <2> QED
    BY <2>1, <2>2
<1> QED
  BY <1>1, <1>2, <1>6, <1>7

(* What a modification of an order that lies in a level does to the lists:  *)
(* the old order leaves them, the new object joins one.                     *)
LEMMA ModifyPlaces ==
    ASSUME ShapeInv, PlacedInv, TimePriority, NEW id \in Ref, NEW req \in Request,
           ModifyOrder(id, req), ~HasParam(index[id], {"STOP"})
    PROVE  \E h \in Limit :
               /\ parent' = [parent EXCEPT ![objects + 1] = h]
               /\ \A l \in Limit : \A i \in DOMAIN queue'[l] :
                      \/ l = h /\ queue'[l][i] = objects + 1
                      \/ /\ queue'[l][i] # index[id]
                         /\ \E j \in DOMAIN queue[l] : queue'[l][i] = queue[l][j]
<1> USE DEF ShapeInv
<1>1. PICK r \in Ref : r = index[id] /\ parent[r] \in Limit
  BY HeldFacts DEF ModifyOrder
<1>2. PICK k \in Limit : k = parent[r]
  BY <1>1
<1>3. PICK qu : qu = [queue EXCEPT ![k] = Unlink(queue[k], r)]
  OBVIOUS
<1>4. /\ qu \in [Limit -> Seq(Ref)]
      /\ \A l \in Limit : \A i \in DOMAIN qu[l] :
             qu[l][i] # r /\ \E j \in DOMAIN queue[l] : qu[l][i] = queue[l][j]
  <2>1. TypeOK /\ parent[r] \in {k} /\ qu \in {[queue EXCEPT ![k] = Unlink(queue[k], r)]}
    BY <1>2, <1>3
  <2> QED
    BY <2>1, UnlinkedOut
<1>5. PICK n \in Ref : n = objects + 1
  BY CreateFacts DEF ModifyOrder
<1>6. PICK s \in Side : s = req.side
  BY BookAssumption DEF OrderRequest
<1>7. \E q : \E vo : AddLimitOrder(n, s, q, k, qu, vo)
  <2>1. AddLimitOrder(n, s, req.qty, k, qu, [volume EXCEPT ![k] = Decrease(@, qty[r])])
    BY <1>1, <1>2, <1>3, <1>5, <1>6 DEF ModifyOrder
  <2> QED
    BY <2>1
<1>8. PICK h \in Limit : Joins(n, h, qu)
  <2>1. TypeOK /\ qu \in [Limit -> Seq(Ref)] /\ n \in Ref /\ s \in Side /\ k \in Limit
    BY <1>4
  <2>2. PICK q, vo : AddLimitOrder(n, s, q, k, qu, vo)
    BY <1>7
  <2> QED
    BY <2>1, <2>2, AddPlaces
<1>9. ASSUME NEW l \in Limit, NEW i \in DOMAIN queue'[l]
      PROVE  \/ l = h /\ queue'[l][i] = n
             \/ queue'[l][i] # r /\ \E j \in DOMAIN queue[l] : queue'[l][i] = queue[l][j]
  BY <1>4, <1>8 DEF Joins
<1>10. parent' = [parent EXCEPT ![objects + 1] = h]
  BY <1>5, <1>8 DEF Joins
<1>11. \A l \in Limit : \A i \in DOMAIN queue'[l] :
           \/ l = h /\ queue'[l][i] = objects + 1
           \/ /\ queue'[l][i] # index[id]
              /\ \E j \in DOMAIN queue[l] : queue'[l][i] = queue[l][j]
  BY <1>1, <1>5, <1>9
<1> QED
  BY <1>10, <1>11

(* A step keeps every order with its list, and takes the orders it cancels  *)
(* out of them, triggered stop orders excepted.                             *)
LEMMA OutStep ==
    ASSUME ShapeInv, TakerFree, TimePriority, PlacedInv, OutInv, [Next]_vars
    PROVE  PlacedInv' /\ OutInv'
<1> USE DEF ShapeInv
<1>1. queue \in [Limit -> Seq(Ref)] /\ parent \in [Ref -> Limit \cup {NoLimit}] /\ objects + 1 \notin Created
  BY BookAssumption DEF TypeOK, Created
<1>2. \A l \in Limit : \A i \in DOMAIN queue[l] : queue[l][i] \in Created /\ queue[l][i] \in Ref
  BY CreatedFacts DEF MatchedInv
<1>3. \A x \in Created : params'[x] = params[x]
  BY ParamsStay
<1>4. cancelled \subseteq Created
  BY DEF CreatedInv
<1> DEFINE Leaves(x) == \/ "STOP" \in params[x]
                        \/ \A l \in Limit : \A i \in DOMAIN queue'[l] : queue'[l][i] # x
           FromOld(l, i) == \E j \in DOMAIN queue[l] : queue'[l][i] = queue[l][j]
(* Nothing joins a list. *)
<1>5. ASSUME UNCHANGED parent, \A l \in Limit : \A i \in DOMAIN queue'[l] : FromOld(l, i),
             \A x \in cancelled' : x \in cancelled \/ (x \in Created /\ Leaves(x))
      PROVE  PlacedInv' /\ CancelledIsOut'
  <2>1. PlacedInv'
    BY <1>5 DEF PlacedInv
  <2>2. ASSUME NEW x \in cancelled', "STOP" \notin params'[x], NEW l \in Limit, NEW i \in DOMAIN queue'[l]
        PROVE  queue'[l][i] # x
    <3>1. x \in Created /\ "STOP" \notin params[x]
      BY <1>3, <1>4, <1>5, <2>2
    <3>2. CASE x \in cancelled
      BY <1>5, <3>1, <3>2 DEF OutInv, CancelledIsOut, Linked
    <3> QED
      BY <1>5, <3>1, <3>2
  <2> QED
    BY <2>1, <2>2 DEF CancelledIsOut, Linked
(* An order that is in no list joins one. *)
<1>6. ASSUME NEW n \in Ref, NEW h \in Limit, n \notin cancelled', parent' = [parent EXCEPT ![n] = h],
             \A l \in Limit : \A i \in DOMAIN queue[l] : queue[l][i] # n,
             \A l \in Limit : \A i \in DOMAIN queue'[l] : (l = h /\ queue'[l][i] = n) \/ FromOld(l, i),
             \A x \in cancelled' : x \in cancelled \/ (x \in Created /\ Leaves(x))
      PROVE  PlacedInv' /\ CancelledIsOut'
  <2>1. ASSUME NEW l \in Limit, NEW i \in DOMAIN queue'[l]
        PROVE  parent'[queue'[l][i]] = l
    <3>1. CASE l = h /\ queue'[l][i] = n
      BY <1>1, <1>6, <3>1
    <3>2. ASSUME NEW j \in DOMAIN queue[l], queue'[l][i] = queue[l][j]
          PROVE  parent'[queue'[l][i]] = l
      <4>1. parent[queue[l][j]] = l /\ queue[l][j] # n /\ queue[l][j] \in Ref
        BY <1>2, <1>6 DEF PlacedInv
      <4> QED
        BY <1>1, <1>6, <3>2, <4>1
    <3> QED
      BY <1>6, <2>1, <3>1, <3>2
  <2>2. ASSUME NEW x \in cancelled', "STOP" \notin params'[x], NEW l \in Limit, NEW i \in DOMAIN queue'[l]
        PROVE  queue'[l][i] # x
    <3>1. x \in Created /\ "STOP" \notin params[x] /\ x # n
      BY <1>3, <1>4, <1>6, <2>2
    <3>2. CASE x \in cancelled
      BY <1>6, <2>2, <3>1, <3>2 DEF OutInv, CancelledIsOut, Linked
    <3> QED
      BY <1>6, <2>2, <3>1, <3>2
  <2> QED
    BY <2>1, <2>2 DEF PlacedInv, CancelledIsOut, Linked
<1>7. ASSUME UNCHANGED <<parent, queue, cancelled>>
      PROVE  PlacedInv' /\ CancelledIsOut'
  BY <1>5, <1>7
<1> HIDE DEF FromOld, Leaves
<1>8. ASSUME NEW id \in Ref, NEW sent, CancelEntry(id, sent), UNCHANGED parent
      PROVE  PlacedInv' /\ CancelledIsOut'
  <2>1. PICK r \in Ref : r = index[id] /\ r \in Created /\ parent[r] \in Limit
    BY <1>8, HeldFacts, CreatedFacts DEF CancelEntry
  <2>2. cancelled' = cancelled \cup {r}
    BY <1>8, <2>1 DEF CancelEntry
  <2>3. CASE HasParam(r, {"STOP"})
    <3>1. UNCHANGED queue /\ "STOP" \in params[r]
      BY <1>8, <2>1, <2>3 DEF CancelEntry, HasParam
    <3> QED
      BY <1>5, <1>8, <2>1, <2>2, <3>1 DEF FromOld, Leaves
  <2>4. CASE ~HasParam(r, {"STOP"})
    <3>1. PICK k \in Limit : k = parent[r]
      BY <2>1
    <3>2. queue' = [queue EXCEPT ![k] = Unlink(queue[k], r)]
      BY <1>8, <2>1, <2>4, <3>1 DEF CancelEntry, RemoveLimitOrder
    <3>3. \A l \in Limit : \A i \in DOMAIN queue'[l] : queue'[l][i] # r /\ FromOld(l, i)
      <4>1. TypeOK /\ parent[r] \in {k} /\ queue' \in {[queue EXCEPT ![k] = Unlink(queue[k], r)]}
        BY <3>1, <3>2
      <4> QED
        BY <4>1, UnlinkedOut DEF FromOld
    <3>4. Leaves(r)
      BY <3>3 DEF Leaves
    <3> QED
      BY <1>5, <1>8, <2>1, <2>2, <3>3, <3>4
  <2> QED
    BY <2>3, <2>4
<1>9. ASSUME NEW id \in Ref, CancelOrder(id)
      PROVE  PlacedInv' /\ CancelledIsOut'
  BY <1>7, <1>8, <1>9 DEF CancelOrder
<1>10. ASSUME NEW r \in Ref, ExpireOrder(r)
       PROVE  PlacedInv' /\ CancelledIsOut'
  <2>1. PICK id \in Ref : id = order[r].id
    BY <1>10, CreatedFacts DEF ExpireOrder, Earliest, CreatedInv
  <2> QED
    BY <1>7, <1>8, <1>10, <2>1 DEF ExpireOrder
<1>11. ASSUME ResolveOrders
       PROVE  PlacedInv' /\ CancelledIsOut'
  <2>1. PICK m \in Ref : m = Head(walk) /\ parent[m] \in Limit
    BY <1>11, HeadOfWalk, CreatedFacts DEF ResolveOrders
  <2>2. PICK k \in Limit : k = parent[m]
    BY <2>1
  <2>3. UNCHANGED <<parent, cancelled>> /\ (UNCHANGED queue \/ queue' = [queue EXCEPT ![k] = Unlink(queue[k], m)])
    BY <1>11, <2>1, <2>2 DEF ResolveOrders, RemoveLimitOrder
  <2>4. CASE queue' = [queue EXCEPT ![k] = Unlink(queue[k], m)]
    <3>1. \A l \in Limit : \A i \in DOMAIN queue'[l] : FromOld(l, i)
      BY <2>4, UnlinkLinks DEF FromOld
    <3> QED
      BY <1>5, <2>3, <3>1
  <2> QED
    BY <1>7, <2>3, <2>4
<1>12. ASSUME KillOrder
       PROVE  PlacedInv' /\ CancelledIsOut'
  <2>1. UNCHANGED <<parent, queue>> /\ cancelled' = cancelled \cup {taker} /\ Matching
    BY <1>12 DEF KillOrder, NoMatch, bookVars, Matching
  <2>2. taker \in Created /\ Leaves(taker)
    BY <2>1 DEF TakerFree, MatchedInv, Matching, Leaves
  <2>3. \A l \in Limit : \A i \in DOMAIN queue'[l] : FromOld(l, i)
    BY <2>1 DEF FromOld
  <2> QED
    BY <1>5, <2>1, <2>2, <2>3
<1>13. ASSUME RestOrder
       PROVE  PlacedInv' /\ CancelledIsOut'
  <2>1. taker \in Created /\ taker \in Ref /\ Matching /\ UNCHANGED cancelled
    BY <1>13, TodoHeld, CreatedFacts DEF RestOrder, NoMatch, Matching
  <2>2. TakerSide \in Side /\ <<TakerSide, order[taker].price>> \in Limit
    BY <2>1, CreatedFacts DEF TakerSide, Limit
  <2>3. PICK s \in Side, k \in Limit : AddLimitOrder(taker, s, qty[taker], k, queue, volume)
    BY <1>13, <2>2 DEF RestOrder
  <2>4. PICK h \in Limit : Joins(taker, h, queue)
    <3>1. TypeOK
      OBVIOUS
    <3> QED
      BY <1>1, <2>1, <2>3, <3>1, AddPlaces
  <2>5. \A l \in Limit : \A i \in DOMAIN queue[l] : queue[l][i] # taker
    BY <2>1 DEF TakerFree
  <2>6. taker \notin cancelled
    BY <2>1 DEF OutInv
  <2>7. \A l \in Limit : \A i \in DOMAIN queue'[l] : (l = h /\ queue'[l][i] = taker) \/ FromOld(l, i)
    BY <2>4 DEF FromOld, Joins
  <2> QED
    BY <1>6, <2>1, <2>4, <2>5, <2>6, <2>7 DEF Joins
<1>14. ASSUME NEW id \in Ref, NEW req \in Request, ModifyOrder(id, req)
       PROVE  PlacedInv' /\ CancelledIsOut'
  <2>1. PICK r \in Ref : r = index[id] /\ r \in Created /\ cancelled' = cancelled \cup {r}
    BY <1>14, HeldFacts, CreatedFacts DEF ModifyOrder
  <2>2. CASE HasParam(r, {"STOP"})
    <3>1. UNCHANGED <<parent, queue>> /\ "STOP" \in params[r]
      BY <1>14, <2>1, <2>2 DEF ModifyOrder, bookVars, HasParam
    <3> QED
      BY <1>5, <2>1, <3>1 DEF FromOld, Leaves
  <2>3. CASE ~HasParam(r, {"STOP"})
    <3>1. PICK n \in Ref : n = objects + 1
      BY <1>14, CreateFacts DEF ModifyOrder
    <3>2. PICK h \in Limit :
             /\ parent' = [parent EXCEPT ![n] = h]
             /\ \A l \in Limit : \A i \in DOMAIN queue'[l] :
                    \/ l = h /\ queue'[l][i] = n
                    \/ queue'[l][i] # r /\ FromOld(l, i)
      <4>1. ~HasParam(index[id], {"STOP"})
        BY <2>1, <2>3
      <4>2. PICK h \in Limit :
               /\ parent' = [parent EXCEPT ![objects + 1] = h]
               /\ \A l \in Limit : \A i \in DOMAIN queue'[l] :
                      \/ l = h /\ queue'[l][i] = objects + 1
                      \/ queue'[l][i] # index[id] /\ FromOld(l, i)
        BY <1>14, <4>1, ModifyPlaces DEF FromOld
      <4> QED
        BY <2>1, <3>1, <4>2
    <3>3. n \notin cancelled' /\ n # r /\ \A l \in Limit : \A i \in DOMAIN queue[l] : queue[l][i] # n
      BY <1>1, <1>2, <1>4, <2>1, <3>1
    <3>4. Leaves(r)
      BY <3>2, <3>3 DEF Leaves
    <3> QED
      BY <1>6, <2>1, <3>2, <3>3, <3>4
  <2> QED
    BY <2>2, <2>3
<1>15. PlacedInv' /\ CancelledIsOut'
  <2>1. CASE \/ \E req \in Request : AddStopOrder(req) \/ AddOrder(req)
             \/ \E id \in Ref : ModifyNotFound(id)
             \/ CheckDateOrders \/ LeaveLevel \/ ExpireDone \/ Tick
             \/ \E p \in Price : MatchSkip(p) \/ MatchEnter(p)
             \/ UNCHANGED vars
    <3>1. UNCHANGED <<parent, queue, cancelled>>
      BY <2>1 DEF AddStopOrder, AddOrder, ModifyNotFound, CheckDateOrders, MatchSkip, MatchEnter,
                  LeaveLevel, ExpireDone, Tick, vars, bookVars
    <3> QED
      BY <1>7, <3>1
  <2> QED
    BY <1>9, <1>10, <1>11, <1>12, <1>13, <1>14, <2>1 DEF Next, Submit, Match, Expire
<1>16. ASSUME Matching'
       PROVE  taker' \notin cancelled'
  <2>1. (UNCHANGED cancelled /\ taker' = objects + 1) \/ (UNCHANGED cancelled /\ Matching /\ taker' = taker)
    BY <1>16 DEF Matching, Next, Submit, Match, Expire, AddStopOrder, AddOrder, CancelOrder,
       ModifyNotFound, ModifyOrder, CheckDateOrders, MatchSkip, MatchEnter, KillOrder, RestOrder,
       ResolveOrders, LeaveLevel, Return, ExpireOrder, ExpireDone, Tick, vars, matchVars
  <2> QED
    BY <1>1, <1>4, <2>1 DEF OutInv
<1> QED
  BY <1>15, <1>16 DEF OutInv

(* Whatever clients send, an order that has been cancelled, replaced or     *)
(* killed rests nowhere, unless it has the STOP bit.                        *)
THEOREM BookCancelledIsOut == Spec => []CancelledIsOut
<1> DEFINE Known == TakerLatest /\ CrossInv /\ TakerFree /\ TimePriority /\ PlacedInv /\ OutInv
<1>1. Init => Known
  BY DEF Init, TakerLatest, CrossInv, TakerFree, TimePriority, Matching, PlacedInv, OutInv,
         CancelledIsOut
<1>2. ShapeInv /\ Known /\ [Next]_vars => Known'
  BY ReachStep, FreeStep, TimeStep, OutStep
<1>3. Known => CancelledIsOut
  BY DEF OutInv
<1> QED
  BY <1>1, <1>2, <1>3, BookShapes, PTL DEF Spec

-----------------------------------------------------------------------------
(* What holds as long as the requests are Regular *)

(* As long as modifications keep the side and quantities are not negative,  *)
(* a pending stop order has not traded, is in no level, and no request      *)
(* finds it through the index.                                              *)
THEOREM BookStopSetAside == Spec => [](Regular => StopSetAside)
<1>1. (Regular => BookInv /\ DetailInv) => (Regular => StopSetAside)
  BY DEF DetailInv, AsideInv
<1> QED
  BY <1>1, DetailInvariant, PTL

(* Under the same condition match_order fills an all-or-nothing order whole *)
(* or not at all, and never leaves it in a level.                           *)
THEOREM BookAllOrNothing == Spec => [](Regular => AllOrNothing)
<1>1. (Regular => BookInv /\ DetailInv) => (Regular => AllOrNothing)
  BY DEF DetailInv, WholeInv
<1> QED
  BY <1>1, DetailInvariant, PTL

(* Under the same condition the status add_order and modify_order return    *)
(* says where the order is.                                                 *)
THEOREM BookReplyTruthful == Spec => [](Regular => ReplyTruthful)
<1>1. (Regular => BookInv /\ DetailInv) => (Regular => ReplyTruthful)
  BY DEF DetailInv, ReplyInv
<1> QED
  BY <1>1, DetailInvariant, PTL

(* resolve_orders takes the same quantity from the taker and from one maker *)
(* of the other side at a price the taker accepts, and nothing else changes *)
(* the quantity of an order, as long as quantities have not been negative   *)
(* and modifications have kept the side of their order.                     *)
THEOREM BookFairExchange == Spec => FairExchange
<1> DEFINE Fair(m) ==
             /\ order[m].side = Opposite(TakerSide)
             /\ qty[m] - qty'[m] = qty[taker] - qty'[taker]
             /\ qty'[m] < qty[m]
             /\ \E p \in Price : parent[m] = <<order[m].side, p>>
                                 /\ Accepts(TakerSide, order[taker].price, p)
<1>1. ASSUME BookInv, DetailInv, Regular, [Next]_vars, NEW m \in Created, m # taker, qty'[m] # qty[m]
      PROVE  Fair(m)
  <2> USE <1>1 DEF BookInv, DetailInv
  <2>1. ResolveOrders /\ m = Head(walk) /\ m \in Ref
    BY <1>1, ObjectKept
  <2>2. /\ taker \in Created /\ parent[m] = <<Opposite(TakerSide), level>> /\ level \in Price
        /\ qty[m] - qty'[m] = qty[taker] - qty'[taker]
        /\ qty'[m] < qty[m]
    BY <1>1, <2>1, ResolveEffect
  <2>3. PICK p \in Price : parent[m] = <<order[m].side, p>>
    <3>1. parent[m] # NoLimit
      BY <2>1, ResolveEffect, BookAssumption
    <3> QED
      BY <2>1, <3>1 DEF SideInv
  <2>4. order[m].side = Opposite(TakerSide) /\ p = level
    BY <2>2, <2>3
  <2>5. Crosses(TakerSide, order[taker].price, level)
    BY <2>1 DEF CrossInv, ResolveOrders
  <2>6. Accepts(TakerSide, order[taker].price, level)
    <3>1. order[taker].price \in Int /\ level \in Int
      BY <2>2, CreatedFacts, BookAssumption
    <3> QED
      BY <2>5, <3>1 DEF Crosses, Accepts
  <2> QED
    BY <2>2, <2>3, <2>4, <2>6
<1>2. (Regular => BookInv /\ DetailInv) /\ [Next]_vars
          => [\A m \in Created : Regular /\ m # taker /\ qty'[m] # qty[m] => Fair(m)]_vars
  BY <1>1
<1> QED
  BY <1>2, DetailInvariant, PTL DEF Spec, FairExchange

(* In a behaviour in which modifications keep the side and quantities are   *)
(* not negative, a taker without AON takes from the head of the best level  *)
(* that holds an order, step by step.                                       *)
THEOREM BookPricePriority == Spec /\ []Regular => PricePriority
<1> DEFINE Best(m) ==
             \E p \in Price :
                 LET l == tree[Opposite(TakerSide)][p] IN
                 /\ l # NoLimit /\ queue[l] # << >> /\ Head(queue[l]) = m
                 /\ \A q \in Price :
                     /\ tree[Opposite(TakerSide)][q] # NoLimit
                     /\ Before(Opposite(TakerSide), q, p)
                     => queue[tree[Opposite(TakerSide)][q]] = << >>
<1>1. ASSUME BookInv, DetailInv, Regular', [Next]_vars, NEW m \in Created,
             qty'[m] < qty[m], m # taker, "AON" \notin params[taker]
      PROVE  Best(m)
  <2> USE <1>1 DEF BookInv, DetailInv
  <2>1. m \in Ref
    BY CreatedFacts
  <2>2. qty'[m] # qty[m]
    <3>1. qty[m] \in Nat
      BY <2>1 DEF NaturalInv
    <3> QED
      BY <1>1, <3>1
  <2>3. ResolveOrders /\ m = Head(walk)
    BY <1>1, <2>1, <2>2, ObjectKept
  <2>4. pc = "fill" /\ qty[taker] > 0 /\ walk # << >> /\ level \in Price /\ LevelOf(level) # NoLimit
    BY <2>3 DEF ResolveOrders, WalkInv
  <2>5. walk = queue[LevelOf(level)]
    BY <1>1, <2>4 DEF SweepInv
  <2>6. ASSUME NEW q \in Price, tree[Opposite(TakerSide)][q] # NoLimit,
               Before(Opposite(TakerSide), q, level)
        PROVE  queue[LevelOf(q)] = << >>
    <3>1. TakerSide \in Side /\ order[taker].price \in Int /\ level \in Int /\ q \in Int
      <4>1. taker \in Created
        BY <2>4 DEF TakerInv
      <4> QED
        BY <2>4, <4>1, CreatedFacts, BookAssumption DEF TakerSide
    <3>2. Crosses(TakerSide, order[taker].price, level) /\ \A x \in todo : Before(Opposite(TakerSide), level, x)
      BY <2>4 DEF CrossInv
    <3>3. q # level /\ q \notin todo
      BY <2>6, <3>1, <3>2 DEF Before
    <3>4. Crosses(TakerSide, order[taker].price, q)
      BY <2>6, <3>1, <3>2 DEF Before, Crosses, Opposite, Side
    <3>5. q \in Levels(Opposite(TakerSide)) \ todo
      BY <2>6, <3>3 DEF Levels
    <3> QED
      BY <1>1, <2>4, <3>3, <3>4, <3>5 DEF SweepInv
  <2> QED
    BY <2>3, <2>4, <2>5, <2>6 DEF LevelOf
<1>2. (Regular => BookInv /\ DetailInv) /\ Regular /\ Regular' /\ [Next]_vars
          => [\A m \in Created : qty'[m] < qty[m] /\ m # taker /\ "AON" \notin params[taker] => Best(m)]_vars
  BY <1>1
<1> QED
  BY <1>2, DetailInvariant, PTL DEF Spec, PricePriority

(* check_date_orders cancels by id and yet only orders that are due: the id *)
(* it takes from a dated order finds that order or none.                    *)
THEOREM BookExpirySound == Spec => ExpirySound
<1> DEFINE MayExpire(r) ==
             HasParam(r, {"GFD"}) \/ (HasParam(r, {"GTD"}) /\ order[r].expire_time - OneHour < clock)
           Known == TakerLatest /\ CrossInv /\ OwnIdInv
<1>1. ASSUME ShapeInv, OwnIdInv, [Next]_vars, pc = "expire", NEW x \in cancelled' \ cancelled
      PROVE  MayExpire(x)
  <2> USE <1>1 DEF ShapeInv
  <2>1. (\E r \in Ref : ExpireOrder(r)) \/ UNCHANGED cancelled
    BY <1>1 DEF Next, Submit, AddStopOrder, AddOrder, CancelOrder, ModifyNotFound, ModifyOrder,
                CheckDateOrders, Match, MatchSkip, MatchEnter, KillOrder, RestOrder, NoMatch,
                ResolveOrders, LeaveLevel, Expire, ExpireDone, Tick, vars
  <2>2. PICK r \in Ref : ExpireOrder(r)
    BY <1>1, <2>1
  <2>3. r \in date /\ Due(r)
    BY <2>2 DEF ExpireOrder, Earliest
  <2>4. r \in Created /\ order[r].id = r /\ HasParam(r, Dated)
    BY <2>3 DEF OwnIdInv, CreatedInv
  <2>5. CancelEntry(r, outbox)
    BY <1>1, <2>2, <2>4 DEF ExpireOrder
  <2>6. cancelled' = cancelled \cup {index[r]} /\ index[r] # 0
    BY <2>5 DEF CancelEntry
  <2>7. x = r
    BY <1>1, <2>6 DEF OwnIdInv
  <2>8. order[r].expire_time \in Int /\ clock \in Int /\ OneHour \in Int
    BY BookAssumption DEF TypeOK, OrderRecord
  <2>9. HasParam(r, {"GFD"}) \/ HasParam(r, {"GTD"})
    BY <2>4 DEF HasParam, Dated
  <2> QED
    BY <2>3, <2>7, <2>8, <2>9 DEF Due
<1>2. ShapeInv /\ Known /\ [Next]_vars
          => [pc = "expire" => \A r \in cancelled' \ cancelled : MayExpire(r)]_vars
  BY <1>1
<1>3. Init => Known
  BY DEF Init, TakerLatest, CrossInv, OwnIdInv, Matching
<1>4. ShapeInv /\ Known /\ [Next]_vars => Known'
  BY ShapeStep, ReachStep, OwnIdStep
<1> QED
  BY <1>2, <1>3, <1>4, BookShapes, PTL DEF Spec, ExpirySound

(* What buyers have received is what sellers have delivered, at every step  *)
(* of a match: resolve_orders neither makes nor loses quantity, and no      *)
(* other operation changes what an order has got, as long as modifications  *)
(* have kept the side of their order (Conservation) and quantities have not *)
(* been negative.                                                           *)
THEOREM BookConservation == Spec => [](NoneNegative => Conservation)
<1>1. Init => FilledEven
  <2> SUFFICES ASSUME Init
               PROVE  FilledEven
    OBVIOUS
  <2>1. Created = {}
    BY DEF Init, Created
  <2>2. \A s \in Side : {r \in Created : order[r].side = s} = {}
    BY <2>1
  <2>3. Filled("BUY") = 0 /\ Filled("SELL") = 0
    BY <2>2, SumEmpty DEF Filled, Side
  <2> QED
    BY <2>3 DEF FilledEven
<1>2. /\ ShapeInv /\ (Regular => BookInv /\ DetailInv) /\ (Regular => FilledEven) /\ [Next]_vars
      => (Regular => FilledEven)'
  <2> SUFFICES ASSUME ShapeInv, Regular => BookInv /\ DetailInv, Regular => FilledEven, [Next]_vars,
                      Regular'
               PROVE  Filled("BUY")' = Filled("SELL")'
    BY DEF FilledEven
  <2>0. BookInv /\ DetailInv /\ FilledEven
    BY RegularBefore
  <2>1. "BUY" \in Side /\ "SELL" \in Side /\ Filled("BUY") = Filled("SELL")
    BY <2>0 DEF Side, FilledEven
  <2>2. CASE ResolveOrders
    BY <2>0, <2>1, <2>2, FilledResolve DEF DetailInv
  <2>3. CASE ~ResolveOrders
    BY <2>0, <2>1, <2>3, FilledStep
  <2> QED
    BY <2>2, <2>3
<1>3. (Regular => FilledEven) => (NoneNegative => Conservation)
  BY DEF FilledEven, Regular, Conservation
<1> QED
  BY <1>1, <1>2, <1>3, BookShapes, DetailInvariant, PTL DEF Spec

(* The volume an all-or-nothing order is compared with is never less than   *)
(* what its level holds, although fills do not lower it, as long as no      *)
(* order has come for a negative quantity (VolumeCovers) and modifications  *)
(* have kept the side of their order.                                       *)
THEOREM BookVolumeCovers == Spec => [](SidesKept => VolumeCovers)
<1>1. Init => VolumesCover
  <2> SUFFICES ASSUME Init, NEW l \in Limit
               PROVE  volume[l] >= SumOver(qty, Orders(l))
    BY DEF VolumesCover, Covered
  <2>1. Orders(l) = {} /\ volume[l] = 0
    BY DEF Init, Orders
  <2>2. SumOver(qty, {}) = 0
    BY SumEmpty
  <2> QED
    BY <2>1, <2>2
<1>2. /\ ShapeInv /\ (Regular => BookInv /\ DetailInv) /\ (Regular => VolumesCover) /\ [Next]_vars
      => (Regular => VolumesCover)'
  <2> SUFFICES ASSUME ShapeInv, Regular => BookInv /\ DetailInv, Regular => VolumesCover, [Next]_vars,
                      Regular'
               PROVE  VolumesCover'
    OBVIOUS
  <2>1. BookInv /\ DetailInv /\ VolumesCover /\ BookInv'
    BY RegularBefore, BookStep
  <2> QED
    BY <2>1, VolumeStep DEF DetailInv
<1>3. (Regular => VolumesCover) => (SidesKept => VolumeCovers)
  BY DEF VolumesCover, Regular, VolumeCovers
<1> QED
  BY <1>1, <1>2, <1>3, BookShapes, DetailInvariant, PTL DEF Spec
=============================================================================
