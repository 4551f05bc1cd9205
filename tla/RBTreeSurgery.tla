--------------------------- MODULE RBTreeSurgery ----------------------------
(***************************************************************************)
(* Proofs about RBTree for every finite set of keys.  The argument is      *)
(* about the links themselves: D gives every node the set of the nodes     *)
(* below it and H its number of black nodes on a path down, and each piece *)
(* of surgery says how D and H change at the few nodes it touches.  That   *)
(* functions D and H exist is part of the invariant; that D is Below is    *)
(* proved once.                                                            *)
(***************************************************************************)
EXTENDS RBTree, FiniteSetTheorems, WellFoundedInduction, TLAPS

-----------------------------------------------------------------------------
(* Sides *)

OnSide(d, x, k) == IF d = "left" THEN x < k ELSE k < x

LEMMA SideFacts ==
    /\ \A d \in Dir : Other(d) \in Dir /\ Other(d) # d /\ Other(Other(d)) = d
    /\ \A d, e \in Dir : e = d \/ e = Other(d)
    /\ \A k, n \in Int : Toward(k, n) \in Dir
    /\ \A d \in Dir, x, y \in Int : OnSide(d, x, y) <=> OnSide(Other(d), y, x)
    /\ \A d \in Dir, x, y \in Int : OnSide(d, x, y) => x # y /\ ~OnSide(Other(d), x, y) /\ Toward(x, y) = d
    /\ \A d \in Dir, x, y \in Int : x # y => OnSide(Toward(x, y), x, y)
    /\ \A d \in Dir, x, y, z \in Int : OnSide(d, x, y) /\ OnSide(d, y, z) => OnSide(d, x, z)
BY DEF Dir, Other, Toward, OnSide

-----------------------------------------------------------------------------
(* Search trees *)

TreeRecord ==
    [root: Node, child: [Dir -> [Key -> Node]], parent: [Node -> Node], black: [Node -> BOOLEAN]]

(* t links the nodes N into a search tree, and D[n] are the nodes below n,  *)
(* itself included.                                                         *)
Shape(t, N, D) ==
    /\ t \in TreeRecord /\ N \subseteq Key
    /\ D \in [Node -> SUBSET Key]
    /\ D[Nil] = {}
    /\ \A k \in Key : D[k] = {k} \cup D[t.child["left"][k]] \cup D[t.child["right"][k]]
    /\ \A k \in Key, d \in Dir : \A x \in D[t.child[d][k]] : OnSide(d, x, k)
    /\ \A k \in Key, d \in Dir : t.child[d][k] # Nil => t.parent[t.child[d][k]] = k
    /\ \A k \in Key \ N, d \in Dir : t.child[d][k] = Nil
    /\ D[t.root] = N
    /\ t.root # Nil => t.parent[t.root] = Nil

(* Types of what a tree holds. *)
LEMMA TreeTypes ==
    ASSUME NEW t \in TreeRecord
    PROVE  /\ t.root \in Node
           /\ \A d \in Dir, k \in Key : t.child[d][k] \in Node
           /\ \A n \in Node : t.parent[n] \in Node /\ t.black[n] \in BOOLEAN
           /\ Node = Key \cup {Nil} /\ Nil \notin Key /\ Key \subseteq Int /\ IsFiniteSet(Key)
BY TreeAssumption DEF TreeRecord, Node

(* What the children of a node are. *)
LEMMA Children ==
    ASSUME NEW t, NEW N, NEW D, Shape(t, N, D), NEW k \in Key
    PROVE  /\ k \in D[k] /\ D[k] \subseteq Key
           /\ \A d \in Dir :
                /\ t.child[d][k] \in Node /\ k \notin D[t.child[d][k]]
                /\ D[t.child[d][k]] \subseteq D[k] /\ D[t.child[d][k]] # D[k]
                /\ t.child[d][k] # Nil => t.child[d][k] \in Key /\ t.child[d][k] \in D[t.child[d][k]]
                /\ D[k] = {k} \cup D[t.child[d][k]] \cup D[t.child[Other(d)][k]]
                /\ D[t.child[d][k]] \cap D[t.child[Other(d)][k]] = {}
<1>1. /\ t \in TreeRecord /\ D \in [Node -> SUBSET Key]
      /\ D[k] = {k} \cup D[t.child["left"][k]] \cup D[t.child["right"][k]]
      /\ \A d \in Dir : \A x \in D[t.child[d][k]] : OnSide(d, x, k)
      /\ \A n \in Key : n \in D[n]
  BY DEF Shape
<1>2. /\ \A d \in Dir : t.child[d][k] \in Node
      /\ Node = Key \cup {Nil} /\ Nil \notin Key /\ Key \subseteq Int
  BY <1>1, TreeTypes
<1>3. ASSUME NEW d \in Dir
      PROVE  /\ D[t.child[d][k]] \subseteq Key /\ k \notin D[t.child[d][k]]
             /\ D[t.child[d][k]] \cap D[t.child[Other(d)][k]] = {}
  <2>1. PICK o \in Dir : o = Other(d)
    BY SideFacts
  <2>2. D[t.child[d][k]] \subseteq Key /\ D[t.child[o][k]] \subseteq Key
    BY <1>1, <1>2
  <2>3. /\ \A x \in D[t.child[d][k]] : OnSide(d, x, k) /\ x \in Int
        /\ \A x \in D[t.child[o][k]] : OnSide(o, x, k) /\ k \in Int
    BY <1>1, <1>2, <2>2
  <2>4. \A x \in Int : ~(OnSide(d, x, k) /\ OnSide(o, x, k)) /\ ~OnSide(d, k, k)
    BY <1>2, <2>1, SideFacts
  <2> QED
    BY <1>2, <2>1, <2>2, <2>3, <2>4
<1>4. \A d \in Dir : D[k] = {k} \cup D[t.child[d][k]] \cup D[t.child[Other(d)][k]]
  BY <1>1 DEF Dir, Other
<1>5. ASSUME NEW d \in Dir
      PROVE  /\ D[t.child[d][k]] \subseteq D[k] /\ D[t.child[d][k]] # D[k]
             /\ t.child[d][k] # Nil => t.child[d][k] \in Key /\ t.child[d][k] \in D[t.child[d][k]]
  <2>1. PICK c \in Node : c = t.child[d][k]
    BY <1>2
  <2>2. c # Nil => c \in Key /\ c \in D[c]
    BY <1>1, <1>2
  <2>3. D[c] \subseteq D[k] /\ k \in D[k] /\ k \notin D[c]
    BY <1>3, <1>4, <2>1
  <2> QED
    BY <2>1, <2>2, <2>3
<1>6. k \in D[k] /\ D[k] \subseteq Key
  BY <1>1, <1>2
<1> QED
  BY <1>2, <1>3, <1>4, <1>5, <1>6

(* Among sets of subsets of a finite set there is a least one. *)
LEMMA LeastSubset ==
    ASSUME NEW S, IsFiniteSet(S), NEW B, B \subseteq SUBSET S, B # {}
    PROVE  \E T \in B : \A U \in SUBSET T : U # T => U \notin B
<1>1. IsWellFoundedOn(StrictSubsetOrdering(S), SUBSET S)
  BY FS_StrictSubsetOrderingWellFounded, FS_FiniteSubsetsOfFinite
<1>2. PICK T \in B : \A U \in B : ~(<<U, T>> \in StrictSubsetOrdering(S))
  BY <1>1, WFMin
<1>3. ASSUME NEW U \in SUBSET T, U # T, U \in B
      PROVE  FALSE
  <2>1. <<U, T>> \in (SUBSET S) \X (SUBSET S)
    BY <1>3
  <2>2. <<U, T>> \in StrictSubsetOrdering(S)
    BY <2>1, <1>3 DEF StrictSubsetOrdering
  <2> QED
    BY <1>2, <1>3, <2>2
<1> QED
  BY <1>3

(* A set of nodes has one whose children are not in the set. *)
LEMMA Lowest ==
    ASSUME NEW t, NEW N, NEW D, Shape(t, N, D), NEW S, S \subseteq Key, S # {}
    PROVE  \E n \in S : \A d \in Dir : t.child[d][n] \notin S
<1> DEFINE B == {D[n] : n \in S}
<1>0. \A n \in S : D[n] \subseteq Key
  BY Children
<1>1. IsFiniteSet(Key) /\ B \subseteq SUBSET Key /\ B # {}
  BY <1>0, TreeAssumption
<1>2. PICK T \in B : \A U \in SUBSET T : U # T => U \notin B
  <2> HIDE DEF B
  <2> QED
    BY <1>1, LeastSubset
<1>3. PICK n \in S : T = D[n]
  BY <1>2
<1>4. ASSUME NEW d \in Dir, t.child[d][n] \in S
      PROVE  FALSE
  <2>1. D[t.child[d][n]] \in B
    BY <1>4
  <2>2. D[t.child[d][n]] \subseteq D[n] /\ D[t.child[d][n]] # D[n]
    BY Children
  <2> HIDE DEF B
  <2> QED
    BY <1>2, <1>3, <2>1, <2>2
<1> QED
  BY <1>4

(* A set of nodes has one whose parent is not in the set. *)
LEMMA Highest ==
    ASSUME NEW t, NEW N, NEW D, Shape(t, N, D), NEW S, S \subseteq Key, S # {}
    PROVE  \E n \in S : \A k \in S, d \in Dir : t.child[d][k] # n
<1> DEFINE B == {Key \ D[n] : n \in S}
<1>1. IsFiniteSet(Key) /\ B \subseteq SUBSET Key /\ B # {}
  BY TreeAssumption
<1>2. PICK T \in B : \A U \in SUBSET T : U # T => U \notin B
  <2> HIDE DEF B
  <2> QED
    BY <1>1, LeastSubset
<1>3. PICK n \in S : T = Key \ D[n]
  BY <1>2
<1>4. ASSUME NEW k \in S, NEW d \in Dir, t.child[d][k] = n
      PROVE  FALSE
  <2>1. Key \ D[k] \in B
    OBVIOUS
  <2>2. D[n] \subseteq D[k] /\ D[n] # D[k] /\ D[k] \subseteq Key /\ D[n] \subseteq Key
    BY <1>4, Children
  <2> HIDE DEF B
  <2> QED
    BY <1>2, <1>3, <2>1, <2>2
<1> QED
  BY <1>4

(* A child knows its parent. *)
LEMMA ChildParent ==
    ASSUME NEW t, NEW N, NEW D, Shape(t, N, D), NEW k \in Key, NEW d \in Dir, t.child[d][k] # Nil
    PROVE  t.parent[t.child[d][k]] = k
BY DEF Shape

(* What is below a node that is below x is below x. *)
LEMMA BelowBelow ==
    ASSUME NEW t, NEW N, NEW D, Shape(t, N, D), NEW x \in Key, NEW y \in D[x]
    PROVE  y \in Key /\ D[y] \subseteq D[x]
<1> DEFINE Bad == {k \in Key : y \in D[k] /\ ~(D[y] \subseteq D[k])}
<1>1. y \in Key
  BY Children
<1>2. ASSUME Bad # {}
      PROVE  FALSE
  <2>1. PICK k \in Bad : \A d \in Dir : t.child[d][k] \notin Bad
    BY <1>2, Lowest
  <2>2. k \in Key /\ y \in D[k] /\ ~(D[y] \subseteq D[k])
    OBVIOUS
  <2>3. PICK d \in Dir : y \in D[t.child[d][k]]
    <3>1. D[k] = {k} \cup D[t.child["left"][k]] \cup D[t.child["right"][k]]
      BY <2>2 DEF Shape
    <3> QED
      BY <2>2, <3>1 DEF Dir
  <2>4. PICK c : c = t.child[d][k]
    OBVIOUS
  <2>5. c \in Key /\ D[c] \subseteq D[k]
    <3>1. c \in Node /\ D[c] \subseteq D[k] /\ D[Nil] = {}
      BY <2>2, <2>4, Children DEF Shape
    <3> QED
      BY <2>3, <2>4, <3>1 DEF Node
  <2>6. c \notin Bad
    BY <2>1, <2>4
  <2> QED
    BY <2>2, <2>3, <2>4, <2>5, <2>6
<1>3. x \notin Bad
  BY <1>2
<1> QED
  BY <1>1, <1>3

(* No two nodes are below each other. *)
LEMMA BelowOnce ==
    ASSUME NEW t, NEW N, NEW D, Shape(t, N, D), NEW x \in Key, NEW y \in D[x], x \in D[y]
    PROVE  x = y
<1> SUFFICES ASSUME x # y
             PROVE  FALSE
  OBVIOUS
<1>1. PICK d \in Dir : y \in D[t.child[d][x]]
  <2>1. D[x] = {x} \cup D[t.child["left"][x]] \cup D[t.child["right"][x]]
    BY DEF Shape
  <2> QED
    BY <2>1 DEF Dir
<1>2. PICK c \in Node : c = t.child[d][x]
  BY Children
<1>3. c \in Key /\ x \notin D[c]
  <2>1. x \notin D[c] /\ D[Nil] = {}
    BY <1>2, Children DEF Shape
  <2> QED
    BY <1>1, <1>2, <2>1 DEF Node
<1>4. D[y] \subseteq D[c]
  BY <1>1, <1>2, <1>3, BelowBelow
<1> QED
  BY <1>3, <1>4

(* Every node below y but y has a parent, and that is below y too. *)
LEMMA ParentBelow ==
    ASSUME NEW t, NEW N, NEW D, Shape(t, N, D), NEW y \in Key, NEW n \in D[y], n # y
    PROVE  /\ n \in Key /\ t.parent[n] \in D[y]
           /\ \E d \in Dir : t.child[d][t.parent[n]] = n
<1> DEFINE Bad == {k \in Key : /\ n \in D[k] /\ n # k
                               /\ ~(t.parent[n] \in D[k] /\ \E d \in Dir : t.child[d][t.parent[n]] = n)}
<1>1. n \in Key
  BY Children
<1>2. ASSUME Bad # {}
      PROVE  FALSE
  <2>1. PICK k \in Bad : \A d \in Dir : t.child[d][k] \notin Bad
    BY <1>2, Lowest
  <2>2. k \in Key /\ n \in D[k] /\ n # k
    OBVIOUS
  <2>3. PICK d \in Dir : n \in D[t.child[d][k]]
    <3>1. D[k] = {k} \cup D[t.child["left"][k]] \cup D[t.child["right"][k]]
      BY <2>2 DEF Shape
    <3> QED
      BY <2>2, <3>1 DEF Dir
  <2>4. PICK c : c = t.child[d][k]
    OBVIOUS
  <2>5. c \in Key /\ D[c] \subseteq D[k] /\ k \in D[k]
    <3>1. c \in Node /\ D[c] \subseteq D[k] /\ D[Nil] = {} /\ k \in D[k]
      BY <2>2, <2>4, Children DEF Shape
    <3> QED
      BY <2>3, <2>4, <3>1 DEF Node
  <2>6. c \notin Bad
    BY <2>1, <2>4
  <2>7. CASE c = n
    <3>1. t.parent[n] = k
      <4>1. t.child[d][k] # Nil
        BY <2>4, <2>5, TreeAssumption
      <4> HIDE DEF Bad
      <4>2. t.parent[t.child[d][k]] = k
        BY <2>2, <4>1, ChildParent
      <4> QED
        BY <2>4, <2>7, <4>2
    <3> QED
      BY <2>1, <2>4, <2>5, <2>7, <3>1
  <2>8. CASE c # n
    BY <2>1, <2>3, <2>4, <2>5, <2>6, <2>8
  <2> QED
    BY <2>7, <2>8
<1>3. y \notin Bad
  BY <1>2
<1> QED
  BY <1>1, <1>3

(* Of two nodes above z one is above the other. *)
LEMMA Comparable ==
    ASSUME NEW t, NEW N, NEW D, Shape(t, N, D), NEW x \in Key, NEW y \in Key, NEW z \in D[x], z \in D[y]
    PROVE  x \in D[y] \/ y \in D[x]
<1> DEFINE Bad == {k \in Key : z \in D[k] /\ k \notin D[y] /\ y \notin D[k]}
<1>2. ASSUME Bad # {}
      PROVE  FALSE
  <2>1. PICK k \in Bad : \A d \in Dir : t.child[d][k] \notin Bad
    BY <1>2, Lowest
  <2>2. k \in Key /\ z \in D[k] /\ k \notin D[y] /\ y \notin D[k] /\ z # k
    OBVIOUS
  <2>3. PICK d \in Dir : z \in D[t.child[d][k]]
    <3>1. D[k] = {k} \cup D[t.child["left"][k]] \cup D[t.child["right"][k]]
      BY <2>2 DEF Shape
    <3> QED
      BY <2>2, <3>1 DEF Dir
  <2>4. PICK c : c = t.child[d][k]
    OBVIOUS
  <2>5. c \in Key /\ D[c] \subseteq D[k] /\ c \in D[c]
    <3>1. c \in Node /\ D[c] \subseteq D[k] /\ D[Nil] = {} /\ (c # Nil => c \in D[c])
      BY <2>2, <2>4, Children DEF Shape
    <3> QED
      BY <2>3, <2>4, <3>1 DEF Node
  <2>6. c \in D[y] /\ c # y
    BY <2>1, <2>2, <2>3, <2>4, <2>5
  <2>7. t.parent[c] = k
    BY <2>2, <2>4, <2>5, TreeAssumption DEF Shape
  <2>8. k \in D[y]
    BY <2>6, <2>7, ParentBelow
  <2> QED
    BY <2>2, <2>8
<1>3. x \notin Bad
  BY <1>2
<1> QED
  BY <1>3

(* The nodes below q are an interval of the tree's nodes. *)
LEMMA Convex ==
    ASSUME NEW t, NEW N, NEW D, Shape(t, N, D), NEW q \in N, NEW z \in N, z \notin D[q]
    PROVE  \E d \in Dir : \A x \in D[q] : OnSide(d, z, x)
<1>0. N \subseteq Key /\ t.root \in Node /\ D[t.root] = N /\ D[Nil] = {}
  BY TreeTypes DEF Shape
<1> DEFINE S == {k \in Key : q \in D[k] /\ z \in D[k]}
<1>1. S # {}
  BY <1>0 DEF Node
<1>2. PICK a \in S : \A d \in Dir : t.child[d][a] \notin S
  BY <1>1, Lowest
<1>3. a \in Key /\ q \in D[a] /\ z \in D[a] /\ a # q
  OBVIOUS
<1>4. PICK e \in Dir : q \in D[t.child[e][a]]
  <2>1. D[a] = {a} \cup D[t.child["left"][a]] \cup D[t.child["right"][a]]
    BY <1>3 DEF Shape
  <2> QED
    BY <1>3, <2>1 DEF Dir
<1>5. PICK c : c = t.child[e][a]
  OBVIOUS
<1>6. PICK f : f = t.child[Other(e)][a]
  OBVIOUS
<1>7. Other(e) \in Dir
  BY SideFacts
<1>8. c \in Key
  <2>1. c \in Node
    BY <1>3, <1>5, Children
  <2> QED
    BY <1>0, <1>4, <1>5, <2>1 DEF Node
<1>9. /\ D[a] = {a} \cup D[c] \cup D[f] /\ D[q] \subseteq D[c]
      /\ \A x \in D[c] : OnSide(e, x, a) /\ x \in Int
      /\ \A x \in D[f] : OnSide(Other(e), x, a) /\ x \in Int
  <2>1. D[q] \subseteq D[c]
    BY <1>4, <1>5, <1>8, BelowBelow
  <2>2. D[a] = {a} \cup D[c] \cup D[f] /\ D[a] \subseteq Key
    BY <1>3, <1>5, <1>6, Children
  <2>3. (\A x \in D[c] : OnSide(e, x, a)) /\ (\A x \in D[f] : OnSide(Other(e), x, a))
    BY <1>3, <1>5, <1>6, <1>7 DEF Shape
  <2> QED
    BY <2>1, <2>2, <2>3, TreeAssumption
<1>10. z \notin D[c]
  <2>1. c \notin S
    BY <1>2, <1>5
  <2> QED
    BY <1>4, <1>5, <1>8, <2>1
<1>11. a \in Int /\ (z = a \/ OnSide(Other(e), z, a))
  BY <1>3, <1>9, <1>10, TreeAssumption
<1>12. \A x \in D[q] : OnSide(Other(e), a, x) /\ x \in Int
  BY <1>9, <1>11, SideFacts
<1>13. \A x \in D[q] : OnSide(Other(e), z, x)
  <2>1. z \in Int
    BY <1>0, TreeAssumption
  <2> QED
    BY <1>7, <1>11, <1>12, <2>1, SideFacts
<1> QED
  BY <1>7, <1>13

(* The nodes below a node, and its children, are nodes; the root is above   *)
(* all, and every other node hangs from its parent.                         *)
LEMMA NodeFacts ==
    ASSUME NEW t, NEW N, NEW D, Shape(t, N, D), NEW n \in N
    PROVE  /\ n \in Key /\ D[n] \subseteq N /\ t.root \in N /\ t.root # Nil
           /\ \A d \in Dir : t.child[d][n] \in N \cup {Nil}
           /\ n # t.root => t.parent[n] \in N /\ \E d \in Dir : t.child[d][t.parent[n]] = n
<1>1. t.root \in Node /\ D[t.root] = N /\ D[Nil] = {} /\ N \subseteq Key
  BY TreeTypes DEF Shape
<1>2. t.root \in Key /\ t.root # Nil
  BY <1>1, TreeAssumption DEF Node
<1>3. t.root \in N
  BY <1>1, <1>2, Children
<1>4. D[n] \subseteq N
  BY <1>1, <1>2, BelowBelow
<1>5. ASSUME NEW d \in Dir, t.child[d][n] # Nil
      PROVE  t.child[d][n] \in N
  <2>1. t.child[d][n] \in D[t.child[d][n]] /\ D[t.child[d][n]] \subseteq D[n]
    BY <1>1, <1>5, Children
  <2> QED
    BY <1>4, <2>1
<1>6. n # t.root => t.parent[n] \in N /\ \E d \in Dir : t.child[d][t.parent[n]] = n
  BY <1>1, <1>2, ParentBelow
<1> QED
  BY <1>1, <1>2, <1>3, <1>4, <1>5, <1>6

LEMMA ChildNode ==
    ASSUME NEW t, NEW N, NEW D, Shape(t, N, D), NEW n \in N, NEW d \in Dir
    PROVE  t.child[d][n] \in N \cup {Nil}
BY NodeFacts

(* Where a node hangs. *)
LEMMA Slot ==
    ASSUME NEW t, NEW N, NEW D, Shape(t, N, D), NEW n \in N
    PROVE  /\ n = t.root => t.parent[n] = Nil /\ \A k \in Key, e \in Dir : t.child[e][k] # n
           /\ n # t.root => t.parent[n] \in N /\ \E e \in Dir : t.child[e][t.parent[n]] = n
           /\ \A k \in Key, e \in Dir :
                t.child[e][k] = n => k = t.parent[n] /\ t.child[Other(e)][k] # n
<1>1. n \in Key /\ n # Nil /\ n \in D[n]
  <2>1. n \in Key
    BY NodeFacts
  <2> QED
    BY <2>1, Children, TreeAssumption
<1>2. ASSUME NEW k \in Key, NEW e \in Dir, t.child[e][k] = n
      PROVE  k = t.parent[n] /\ t.child[Other(e)][k] # n
  <2>1. k = t.parent[n]
    BY <1>1, <1>2, ChildParent
  <2>2. D[t.child[e][k]] \cap D[t.child[Other(e)][k]] = {}
    BY Children
  <2> QED
    BY <1>1, <1>2, <2>1, <2>2
<1>3. ASSUME n = t.root
      PROVE  t.parent[n] = Nil /\ \A k \in Key, e \in Dir : t.child[e][k] # n
  <2>1. t.parent[n] = Nil
    BY <1>1, <1>3 DEF Shape
  <2> QED
    BY <1>2, <2>1, TreeAssumption
<1>4. n # t.root => t.parent[n] \in N /\ \E e \in Dir : t.child[e][t.parent[n]] = n
  BY NodeFacts
<1> QED
  BY <1>2, <1>3, <1>4

LEMMA OnlySlot ==
    ASSUME NEW t, NEW N, NEW D, Shape(t, N, D), NEW n \in N, NEW k \in Key, NEW e \in Dir,
           t.child[e][k] = n
    PROVE  k = t.parent[n] /\ t.child[Other(e)][k] # n
BY Slot

(* The root of a tree with nodes is one of them and nobody's child. *)
LEMMA RootSlot ==
    ASSUME NEW t, NEW N, NEW D, Shape(t, N, D), N # {}
    PROVE  /\ t.root \in N /\ t.root # Nil /\ t.parent[t.root] = Nil
           /\ \A k \in Key, e \in Dir : t.child[e][k] # t.root
<1>1. t.root \in N /\ t.root # Nil
  BY NodeFacts
<1> QED
  BY <1>1, Slot

-----------------------------------------------------------------------------
(* Surgery *)

(* A tree with the links of t where it matters is the same tree. *)
LEMMA SameLinks ==
    ASSUME NEW t, NEW N, NEW D, Shape(t, N, D), NEW u \in TreeRecord,
           u.root = t.root, u.child = t.child, \A k \in Key : u.parent[k] = t.parent[k]
    PROVE  Shape(u, N, D)
<1>1. /\ t \in TreeRecord /\ t.root \in Node
      /\ \A d \in Dir, k \in Key : t.child[d][k] \in Node
      /\ Node = Key \cup {Nil} /\ Nil \notin Key
  BY TreeTypes DEF Shape
<1>2. \A k \in Key, d \in Dir : t.child[d][k] # Nil => u.parent[t.child[d][k]] = k
  BY <1>1, ChildParent
<1>3. t.root # Nil => u.parent[t.root] = Nil
  BY <1>1 DEF Shape
<1> QED
  BY <1>2, <1>3 DEF Shape

(* The links of u are those of t. *)
Repainted(t, u) ==
    u \in TreeRecord /\ u.root = t.root /\ u.child = t.child /\ u.parent = t.parent

Painted(t, u, n, b) ==
    Repainted(t, u) /\ u.black[n] = b /\ \A x \in Node : x # n => u.black[x] = t.black[x]

LEMMA PaintFacts ==
    ASSUME NEW t \in TreeRecord, NEW n \in Node, NEW b \in BOOLEAN
    PROVE  Painted(t, Paint(t, n, b), n, b)
BY DEF Paint, TreeRecord, Painted, Repainted

(* Painting two nodes, and three. *)
TwoPainted(t, v, n, b, m, e) ==
    /\ Repainted(t, v) /\ v.black[n] = b /\ v.black[m] = e
    /\ \A x \in Node : x # n /\ x # m => v.black[x] = t.black[x]

LEMMA PaintTwo ==
    ASSUME NEW t \in TreeRecord, NEW n \in Node, NEW b \in BOOLEAN, NEW m \in Node, NEW e \in BOOLEAN,
           n # m, NEW v, v = Paint(Paint(t, n, b), m, e)
    PROVE  TwoPainted(t, v, n, b, m, e)
<1>1. PICK u : u = Paint(t, n, b)
  OBVIOUS
<1>2. Painted(t, u, n, b)
  BY <1>1, PaintFacts
<1>3. u \in TreeRecord
  BY <1>2 DEF Painted, Repainted
<1>4. Painted(u, v, m, e)
  BY <1>1, <1>3, PaintFacts
<1> QED
  BY <1>2, <1>4 DEF Painted, Repainted, TwoPainted

LEMMA PaintBlackRed ==
    ASSUME NEW t \in TreeRecord, NEW n \in Node, NEW m \in Node, n # m,
           NEW v, v = Paint(Paint(t, n, TRUE), m, FALSE)
    PROVE  TwoPainted(t, v, n, TRUE, m, FALSE)
<1>1. PICK b \in BOOLEAN, e \in BOOLEAN : b = TRUE /\ e = FALSE
  OBVIOUS
<1>2. v = Paint(Paint(t, n, b), m, e)
  BY <1>1
<1>3. TwoPainted(t, v, n, b, m, e)
  BY <1>2, PaintTwo
<1> QED
  BY <1>1, <1>3

LEMMA PaintThree ==
    ASSUME NEW t \in TreeRecord, NEW n \in Node, NEW b \in BOOLEAN, NEW m \in Node, NEW e \in BOOLEAN,
           NEW l \in Node, NEW f \in BOOLEAN, n # m, n # l, m # l, NEW u,
           u = Paint(Paint(Paint(t, n, b), m, e), l, f)
    PROVE  /\ Repainted(t, u) /\ u.black[n] = b /\ u.black[m] = e /\ u.black[l] = f
           /\ \A x \in Node : x # n /\ x # m /\ x # l => u.black[x] = t.black[x]
<1>1. PICK v : v = Paint(Paint(t, n, b), m, e)
  OBVIOUS
<1>2. TwoPainted(t, v, n, b, m, e)
  BY <1>1, PaintTwo
<1>3. Painted(v, u, l, f)
  BY <1>1, <1>2, PaintFacts DEF Repainted, TwoPainted
<1> QED
  BY <1>2, <1>3 DEF Painted, Repainted, TwoPainted

(* u is t with one link set: a child, a parent or the root. *)
ChildSet(t, u, d, n, v) ==
    /\ u \in TreeRecord /\ u.root = t.root /\ u.parent = t.parent /\ u.black = t.black
    /\ u.child[d][n] = v
    /\ \A e \in Dir, k \in Key : e # d \/ k # n => u.child[e][k] = t.child[e][k]

ParentSet(t, u, n, v) ==
    /\ u \in TreeRecord /\ u.root = t.root /\ u.child = t.child /\ u.black = t.black
    /\ u.parent[n] = v
    /\ \A x \in Node : x # n => u.parent[x] = t.parent[x]

RootSet(t, u, v) ==
    /\ u \in TreeRecord /\ u.root = v /\ u.child = t.child /\ u.black = t.black
    /\ u.parent = t.parent

LEMMA SetChild ==
    ASSUME NEW t \in TreeRecord, NEW d \in Dir, NEW n \in Key, NEW v \in Node
    PROVE  ChildSet(t, WithChild(t, d, n, v), d, n, v)
<1>3. PICK u : u = WithChild(t, d, n, v)
  OBVIOUS
<1>4. PICK ch \in [Dir -> [Key -> Node]] : ch = t.child
  BY DEF TreeRecord
<1>5. u = [t EXCEPT !.child = [ch EXCEPT ![d] = [ch[d] EXCEPT ![n] = v]]]
  BY <1>3, <1>4 DEF WithChild
<1>6. PICK cv \in [Dir -> [Key -> Node]] : cv = [ch EXCEPT ![d] = [ch[d] EXCEPT ![n] = v]]
  BY <1>4
<1>7. /\ cv[d][n] = v
      /\ \A e \in Dir, k \in Key : e # d \/ k # n => cv[e][k] = ch[e][k]
  BY <1>4, <1>6
<1>8. u = [t EXCEPT !.child = cv]
  BY <1>5, <1>6
<1>9. u \in TreeRecord /\ u.parent = t.parent /\ u.black = t.black /\ u.root = t.root /\ u.child = cv
  BY <1>6, <1>8 DEF TreeRecord
<1>10. ChildSet(t, u, d, n, v)
  BY <1>4, <1>7, <1>9 DEF ChildSet
<1> QED
  BY <1>3, <1>10

LEMMA SetParent ==
    ASSUME NEW t \in TreeRecord, NEW n \in Node, NEW v \in Node
    PROVE  ParentSet(t, WithParent(t, n, v), n, v)
BY DEF TreeRecord, WithParent, ParentSet

LEMMA SetRoot ==
    ASSUME NEW t \in TreeRecord, NEW v \in Node
    PROVE  RootSet(t, WithRoot(t, v), v)
BY DEF TreeRecord, WithRoot, RootSet

(* Rehang sets the root or one child. *)
LEMMA RehangFacts ==
    ASSUME NEW t \in TreeRecord, NEW n \in Key, NEW v \in Node, NEW p \in Node, p = t.parent[n],
           NEW e \in Dir, e = IF t.child["left"][p] = n THEN "left" ELSE "right"
    PROVE  /\ p = Nil => RootSet(t, Rehang(t, n, v), v)
           /\ p # Nil => ChildSet(t, Rehang(t, n, v), e, p, v)
<1>2. CASE p = Nil
  <2>1. Rehang(t, n, v) = WithRoot(t, v)
    BY <1>2 DEF Rehang
  <2> QED
    BY <1>2, <2>1, SetRoot
<1>3. CASE p # Nil
  <2>1. p \in Key
    BY <1>3 DEF Node
  <2>2. Rehang(t, n, v) = WithChild(t, e, p, v)
    BY <1>3 DEF Rehang
  <2> QED
    BY <1>3, <2>1, <2>2, SetChild
<1> QED
  BY <1>2, <1>3

(* c is n's child on side d. *)
ChildIs(t, d, n, c) == c = t.child[d][n]

(* The links of u are those of t after a rotation around n in direction d.  *)
Rotated(t, u, n, c, m, d) ==
    /\ c = t.child[Other(d)][n] /\ m = t.child[d][c]
    /\ u.child[Other(d)][n] = m /\ u.child[d][n] = t.child[d][n]
    /\ u.child[d][c] = n /\ u.child[Other(d)][c] = t.child[Other(d)][c]
    /\ \A k \in Key \ {n, c}, e \in Dir :
            u.child[e][k] = IF t.child[e][k] = n THEN c ELSE t.child[e][k]
    /\ u.root = IF t.root = n THEN c ELSE t.root
    /\ u.parent[c] = t.parent[n] /\ u.parent[n] = c /\ (m # Nil => u.parent[m] = n)
    /\ \A x \in Node \ {n, c} : x # m \/ m = Nil => u.parent[x] = t.parent[x]

(* The three nodes of a rotation. *)
LEMMA RotateNodes ==
    ASSUME NEW t, NEW N, NEW D, Shape(t, N, D), NEW n \in N, NEW d \in Dir,
           NEW c, c = t.child[Other(d)][n], c # Nil, NEW m, m = t.child[d][c]
    PROVE  /\ n \in Key /\ c \in Key /\ c \in N /\ m \in Node /\ n # c /\ m # n /\ m # c
           /\ t.parent[n] \in Node /\ t.parent[n] # n /\ t.parent[n] # c
           /\ t.child[d][n] # n /\ t.child[d][n] # c
           /\ t.child[Other(d)][c] # n /\ t.child[Other(d)][c] # c
<1>1. n \in Key /\ N \subseteq Key /\ Other(d) \in Dir /\ Nil \notin Key /\ Node = Key \cup {Nil}
  BY SideFacts, TreeTypes DEF Shape
<1>2. /\ c \in Key /\ c \in D[c] /\ n \notin D[c] /\ D[c] \subseteq D[n] /\ n \in D[n]
      /\ D[c] \cap D[t.child[d][n]] = {} /\ n \notin D[t.child[d][n]]
  <2>1. Other(Other(d)) = d
    BY SideFacts
  <2> QED
    BY <1>1, <2>1, Children
<1>3. c \in N
  BY <1>1, NodeFacts
<1>4. m \in Node /\ c \notin D[m] /\ D[m] \subseteq D[c] /\ (m # Nil => m \in D[m])
  BY <1>2, Children
<1>5. t.child[Other(d)][c] # n /\ t.child[Other(d)][c] # c
  <2>1. PICK x \in Node : x = t.child[Other(d)][c]
    BY <1>1, <1>2, Children
  <2>2. c \notin D[x] /\ D[x] \subseteq D[c] /\ (x # Nil => x \in D[x])
    BY <1>1, <1>2, <2>1, Children
  <2> QED
    BY <1>1, <1>2, <2>1, <2>2
<1>6. t.child[d][n] # n /\ t.child[d][n] # c
  <2>1. PICK x \in Node : x = t.child[d][n]
    BY <1>1, Children
  <2>2. x # Nil => x \in D[x]
    BY <1>1, <2>1, Children
  <2> QED
    BY <1>1, <1>2, <2>1, <2>2
<1>7. t.parent[n] \in Node /\ t.parent[n] # n /\ t.parent[n] # c
  <2>1. PICK p \in Node : p = t.parent[n]
    BY <1>1, TreeTypes DEF Shape
  <2>2. CASE n = t.root
    BY <1>1, <1>2, <2>1, <2>2, Slot
  <2>3. CASE n # t.root
    <3>1. p \in N /\ \E e \in Dir : t.child[e][p] = n
      BY <2>1, <2>3, Slot
    <3>2. PICK e \in Dir : t.child[e][p] = n
      BY <3>1
    <3>3. p \in Key /\ p \notin D[n]
      BY <1>1, <3>1, <3>2, Children
    <3> QED
      BY <1>2, <2>1, <3>3
  <2> QED
    BY <2>2, <2>3
<1> QED
  BY <1>1, <1>2, <1>3, <1>4, <1>5, <1>6, <1>7

(* rotate_left and rotate_right *)
LEMMA RotateLinks ==
    ASSUME NEW t, NEW N, NEW D, Shape(t, N, D), NEW n \in N, NEW d \in Dir,
           NEW c, ChildIs(t, Other(d), n, c), c # Nil, NEW m, ChildIs(t, d, c, m),
           NEW u, u = Rotate(t, n, d)
    PROVE  u \in TreeRecord /\ Rotated(t, u, n, c, m, d) /\ u.black = t.black
<1>0. c = t.child[Other(d)][n] /\ m = t.child[d][c]
  BY DEF ChildIs
<1>1. /\ n \in Key /\ c \in Key /\ m \in Node /\ n # c /\ m # n /\ m # c
      /\ t.parent[n] \in Node /\ t.parent[n] # n /\ t.parent[n] # c
      /\ Other(d) \in Dir /\ Other(d) # d /\ t \in TreeRecord /\ Node = Key \cup {Nil} /\ Nil \notin Key
  <2>1. t \in TreeRecord
    BY DEF Shape
  <2> QED
    BY <1>0, <2>1, RotateNodes, SideFacts, TreeTypes
<1>2. PICK p \in Node : p = t.parent[n]
  BY <1>1
<1>3. PICK o \in Dir : o = Other(d) /\ o # d
  BY <1>1
<1>4. PICK a : a = WithChild(t, o, n, m)
  OBVIOUS
<1>5. /\ a \in TreeRecord /\ a.root = t.root /\ a.parent = t.parent /\ a.black = t.black
      /\ a.child[o][n] = m
      /\ \A e \in Dir, k \in Key : e # o \/ k # n => a.child[e][k] = t.child[e][k]
  <2>1. ChildSet(t, a, o, n, m)
    BY <1>1, <1>4, SetChild
  <2> QED
    BY <2>1 DEF ChildSet
<1>6. PICK b : b = WithParent(a, c, p)
  OBVIOUS
<1>7. /\ b \in TreeRecord /\ b.root = t.root /\ b.child = a.child /\ b.black = t.black
      /\ b.parent[c] = p /\ \A x \in Node : x # c => b.parent[x] = t.parent[x]
  <2>1. ParentSet(a, b, c, p)
    BY <1>1, <1>5, <1>6, SetParent
  <2> QED
    BY <1>5, <2>1 DEF ParentSet
<1>8. PICK s : s = Adopt(b, m, n)
  OBVIOUS
<1>9. /\ s \in TreeRecord /\ s.root = t.root /\ s.child = a.child /\ s.black = t.black
      /\ s.parent[c] = p /\ (m # Nil => s.parent[m] = n)
      /\ \A x \in Node : x # c /\ (x # m \/ m = Nil) => s.parent[x] = t.parent[x]
  <2>1. CASE m = Nil
    BY <1>7, <1>8, <2>1 DEF Adopt
  <2>2. CASE m # Nil
    <3>1. ParentSet(b, s, m, n)
      BY <1>1, <1>7, <1>8, <2>2, SetParent DEF Adopt
    <3> QED
      BY <1>1, <1>7, <2>2, <3>1 DEF ParentSet
  <2> QED
    BY <2>1, <2>2
<1>10. PICK v : v = Rehang(s, n, c)
  OBVIOUS
<1>11. /\ v \in TreeRecord /\ v.parent = s.parent /\ v.black = t.black
       /\ v.root = IF t.root = n THEN c ELSE t.root
       /\ \A k \in Key, e \in Dir : k # n =>
            v.child[e][k] = IF t.child[e][k] = n THEN c ELSE t.child[e][k]
       /\ \A e \in Dir : v.child[e][n] = a.child[e][n]
  <2>1. s.parent[n] = p /\ c \in Node
    BY <1>1, <1>2, <1>9
  <2>2. PICK q \in Dir : q = IF s.child["left"][p] = n THEN "left" ELSE "right"
    BY DEF Dir
  <2>5. /\ v \in TreeRecord /\ v.parent = s.parent /\ v.black = s.black
        /\ p = Nil => v.root = c /\ v.child = s.child
        /\ p # Nil =>
             /\ v.root = s.root
             /\ v.child[q][p] = c
             /\ \A f \in Dir, k \in Key : f # q \/ k # p => v.child[f][k] = s.child[f][k]
    <3>1. (p = Nil => RootSet(s, v, c)) /\ (p # Nil => ChildSet(s, v, q, p, c))
      BY <1>1, <1>9, <1>10, <2>1, <2>2, RehangFacts
    <3> QED
      BY <3>1 DEF RootSet, ChildSet
  <2>3. CASE n = t.root
    <3>1. p = Nil /\ \A k \in Key, e \in Dir : t.child[e][k] # n
      BY <1>2, <2>3, Slot
    <3>2. v.child = a.child /\ v.root = c /\ v.black = t.black
      BY <1>9, <2>5, <3>1
    <3>3. \A k \in Key, e \in Dir : k # n => a.child[e][k] = t.child[e][k] /\ t.child[e][k] # n
      BY <1>5, <3>1
    <3>4. \A k \in Key, e \in Dir : k # n =>
            v.child[e][k] = IF t.child[e][k] = n THEN c ELSE t.child[e][k]
      BY <3>2, <3>3
    <3> QED
      BY <2>5, <2>3, <3>2, <3>4
  <2>4. CASE n # t.root
    <3>1. PICK e \in Dir : p \in N /\ t.child[e][p] = n
      BY <1>2, <2>4, Slot
    <3>2. p \in Key /\ p # Nil /\ p # n
      BY <1>1, <1>2, <3>1, NodeFacts
    <3>3. t.child[Other(e)][p] # n /\ \A k \in Key, f \in Dir : t.child[f][k] = n => k = p
      BY <1>2, <3>1, <3>2, Slot
    <3>4. \A f \in Dir : s.child[f][p] = t.child[f][p]
      BY <1>5, <1>9, <3>2
    <3>5. \A f \in Dir : f = e \/ f = Other(e)
      BY SideFacts
    <3>6. e = q
      BY <2>2, <3>1, <3>3, <3>4, <3>5 DEF Dir, Other
    <3>7. /\ v.child[e][p] = c
          /\ \A f \in Dir, k \in Key : f # e \/ k # p => v.child[f][k] = s.child[f][k]
      BY <2>5, <3>2, <3>6
    <3>8. ASSUME NEW k \in Key, NEW f \in Dir, k # n
          PROVE  v.child[f][k] = IF t.child[f][k] = n THEN c ELSE t.child[f][k]
      <4>1. CASE k = p /\ f = e
        BY <3>1, <3>7, <4>1
      <4>2. CASE k = p /\ f # e
        BY <3>3, <3>4, <3>5, <3>7, <4>2
      <4>3. CASE k # p
        <5>1. v.child[f][k] = s.child[f][k] /\ t.child[f][k] # n
          BY <3>3, <3>7, <4>3
        <5> QED
          BY <1>5, <1>9, <3>8, <5>1
      <4> QED
        BY <4>1, <4>2, <4>3
    <3>9. \A f \in Dir : v.child[f][n] = a.child[f][n]
      BY <1>1, <1>9, <3>2, <3>7
    <3> QED
      BY <1>9, <2>5, <2>4, <3>2, <3>8, <3>9
  <2> QED
    BY <2>3, <2>4
<1>12. PICK w : w = WithChild(v, d, c, n)
  OBVIOUS
<1>13. /\ w \in TreeRecord /\ w.root = v.root /\ w.parent = v.parent /\ w.black = t.black
       /\ w.child[d][c] = n
       /\ \A e \in Dir, k \in Key : e # d \/ k # c => w.child[e][k] = v.child[e][k]
  <2>1. ChildSet(v, w, d, c, n)
    BY <1>1, <1>11, <1>12, SetChild
  <2> QED
    BY <1>11, <2>1 DEF ChildSet
<1>14. u = WithParent(w, n, c)
  <2>1. b = WithParent(WithChild(t, Other(d), n, m), c, t.parent[n])
    BY <1>2, <1>3, <1>4, <1>6
  <2>2. u = WithParent(WithChild(Rehang(Adopt(b, m, n), n, c), d, c, n), n, c)
    BY <1>0, <2>1 DEF Rotate
  <2> QED
    BY <1>8, <1>10, <1>12, <2>2
<1>15. /\ u \in TreeRecord /\ u.root = w.root /\ u.child = w.child /\ u.black = w.black
       /\ u.parent[n] = c /\ \A x \in Node : x # n => u.parent[x] = w.parent[x]
  <2>1. ParentSet(w, u, n, c)
    BY <1>1, <1>13, <1>14, SetParent
  <2> QED
    BY <2>1 DEF ParentSet
<1>16. /\ u.child[o][n] = m /\ u.child[d][n] = t.child[d][n] /\ u.child[d][c] = n
       /\ \A e \in Dir : v.child[e][c] = t.child[e][c]
  <2>1. ASSUME NEW e \in Dir
        PROVE  v.child[e][c] = t.child[e][c]
    <3>1. t.child[e][c] # n
      BY <1>1, Slot
    <3> QED
      BY <1>1, <1>11, <3>1
  <2> QED
    BY <1>1, <1>3, <1>5, <1>11, <1>13, <1>15, <2>1
<1>17. u.child[o][c] = t.child[o][c]
  BY <1>1, <1>3, <1>13, <1>15, <1>16
<1>18. \A k \in Key \ {n, c}, e \in Dir :
          u.child[e][k] = IF t.child[e][k] = n THEN c ELSE t.child[e][k]
  BY <1>11, <1>13, <1>15
<1>19. /\ u.parent[c] = p /\ u.parent[n] = c /\ (m # Nil => u.parent[m] = n)
       /\ \A x \in Node \ {n, c} : x # m \/ m = Nil => u.parent[x] = t.parent[x]
  BY <1>1, <1>9, <1>11, <1>13, <1>15
<1> QED
  BY <1>0, <1>2, <1>3, <1>11, <1>13, <1>15, <1>16, <1>17, <1>18, <1>19 DEF Rotated

(* A rotation changes what is below n and c, and nothing else. *)
RotatedBelow(t, D, n, c, m, d) ==
    [x \in Node |-> IF x = c THEN D[n]
                    ELSE IF x = n THEN {n} \cup D[t.child[d][n]] \cup D[m]
                    ELSE D[x]]

(* A rotation of a search tree gives a search tree of the same nodes. *)
LEMMA RotateShape ==
    ASSUME NEW t, NEW N, NEW D, Shape(t, N, D), NEW n \in N, NEW d \in Dir,
           NEW c, c # Nil, NEW m,
           NEW u \in TreeRecord, Rotated(t, u, n, c, m, d)
    PROVE  Shape(u, N, RotatedBelow(t, D, n, c, m, d))
<1> DEFINE E == RotatedBelow(t, D, n, c, m, d)
<1>1. /\ t \in TreeRecord /\ N \subseteq Key /\ D \in [Node -> SUBSET Key] /\ D[Nil] = {}
      /\ D[t.root] = N
  BY DEF Shape
<1>2. /\ t.root \in Node /\ Node = Key \cup {Nil} /\ Nil \notin Key /\ Key \subseteq Int
      /\ \A f \in Dir, k \in Key : t.child[f][k] \in Node
  BY <1>1, TreeTypes
<1>3. PICK o \in Dir : o = Other(d) /\ o # d /\ c = t.child[o][n] /\ m = t.child[d][c]
  BY SideFacts DEF Rotated
<1>4. /\ n \in Key /\ c \in Key /\ c \in N /\ m \in Node /\ n # c /\ m # n /\ m # c
      /\ t.parent[n] # n /\ t.parent[n] # c
      /\ t.child[d][n] # n /\ t.child[d][n] # c
      /\ t.child[o][c] # n /\ t.child[o][c] # c
  BY <1>3, RotateNodes
<1>5. PICK a \in Node : a = t.child[d][n] /\ a # n /\ a # c
  BY <1>2, <1>4
<1>6. PICK b \in Node : b = t.child[o][c] /\ b # n /\ b # c
  BY <1>2, <1>4
<1>7. /\ E \in [Node -> SUBSET Key] /\ E[c] = D[n] /\ E[n] = {n} \cup D[a] \cup D[m]
      /\ \A x \in Node : x # n /\ x # c => E[x] = D[x]
  <2>1. D[a] \subseteq Key /\ D[m] \subseteq Key /\ D[n] \subseteq Key
    BY <1>1, <1>2, <1>4
  <2> QED
    <3>1. E = [x \in Node |-> IF x = c THEN D[n] ELSE IF x = n THEN {n} \cup D[a] \cup D[m] ELSE D[x]]
      BY <1>5 DEF RotatedBelow
    <3>2. \A x \in Node : E[x] = IF x = c THEN D[n] ELSE IF x = n THEN {n} \cup D[a] \cup D[m] ELSE D[x]
      BY <3>1
    <3>3. \A x \in Node : E[x] \subseteq Key
      BY <1>1, <1>4, <2>1, <3>2
    <3>4. n \in Node /\ c \in Node /\ n # c
      BY <1>2, <1>4
    <3> QED
      BY <3>1, <3>2, <3>3, <3>4
<1>8. /\ u.child[o][n] = m /\ u.child[d][n] = a /\ u.child[d][c] = n /\ u.child[o][c] = b
      /\ \A k \in Key, f \in Dir : k # n /\ k # c =>
            u.child[f][k] = IF t.child[f][k] = n THEN c ELSE t.child[f][k]
      /\ u.root = IF t.root = n THEN c ELSE t.root
      /\ u.parent[c] = t.parent[n] /\ u.parent[n] = c /\ (m # Nil => u.parent[m] = n)
      /\ \A x \in Node : x # n /\ x # c /\ (x # m \/ m = Nil) => u.parent[x] = t.parent[x]
  BY <1>3, <1>5, <1>6 DEF Rotated
<1>9. /\ D[n] = {n} \cup D[a] \cup D[c] /\ D[a] \cap D[c] = {} /\ c \in D[c]
      /\ D[c] = {c} \cup D[m] \cup D[b] /\ D[m] \cap D[b] = {}
      /\ (a # Nil => a \in D[a]) /\ (b # Nil => b \in D[b]) /\ (m # Nil => m \in D[m])
  <2>1. Other(o) = d
    BY <1>3, SideFacts
  <2>2. /\ D[n] = {n} \cup D[t.child[d][n]] \cup D[t.child[o][n]]
        /\ D[t.child[d][n]] \cap D[t.child[o][n]] = {}
        /\ t.child[d][n] # Nil => t.child[d][n] \in D[t.child[d][n]]
    BY <1>3, <1>4, Children
  <2>3. \A k \in Key, f \in Dir :
          /\ D[k] = {k} \cup D[t.child[f][k]] \cup D[t.child[Other(f)][k]]
          /\ D[t.child[f][k]] \cap D[t.child[Other(f)][k]] = {}
          /\ t.child[f][k] # Nil => t.child[f][k] \in D[t.child[f][k]]
    BY Children
  <2>4. c \in D[c]
    BY <1>4, Children
  <2> QED
    <3>1. D[n] = {n} \cup D[a] \cup D[c] /\ D[a] \cap D[c] = {} /\ (a # Nil => a \in D[a])
      BY <1>3, <1>5, <2>2
    <3>2. /\ D[c] = {c} \cup D[t.child[d][c]] \cup D[t.child[o][c]]
          /\ D[t.child[d][c]] \cap D[t.child[o][c]] = {}
          /\ t.child[d][c] # Nil => t.child[d][c] \in D[t.child[d][c]]
          /\ t.child[o][c] # Nil => t.child[o][c] \in D[t.child[o][c]]
      BY <1>3, <1>4, <2>3
    <3>3. /\ D[c] = {c} \cup D[m] \cup D[b] /\ D[m] \cap D[b] = {}
          /\ (b # Nil => b \in D[b]) /\ (m # Nil => m \in D[m])
      BY <1>3, <1>6, <3>2
    <3> QED
      BY <2>4, <3>1, <3>3
<1>10. /\ \A x \in D[a] : OnSide(d, x, n)
       /\ \A x \in D[c] : OnSide(o, x, n)
       /\ \A x \in D[m] : OnSide(d, x, c)
       /\ \A x \in D[b] : OnSide(o, x, c)
  BY <1>3, <1>4, <1>5, <1>6 DEF Shape
<1>11. \A k \in Key, f \in Dir : k # n => t.child[f][k] # c
  <2>1. \A k \in Key, f \in Dir : t.child[f][k] = c => k = t.parent[c]
    BY <1>4, Slot
  <2> QED
    BY <1>3, <1>4, <2>1
<1>12. \A k \in Key, f \in Dir : k # c /\ m # Nil => t.child[f][k] # m
  <2>1. m # Nil => m \in N /\ t.child[d][c] = m
    BY <1>1, <1>3, <1>4, NodeFacts
  <2>2. m # Nil => \A k \in Key, f \in Dir : t.child[f][k] = m => k = t.parent[m]
    BY <2>1, Slot
  <2> QED
    BY <1>4, <2>1, <2>2
<1>13. \A k \in Key, f \in Dir : k # n /\ k # c => E[u.child[f][k]] = D[t.child[f][k]]
  <2> HIDE DEF E
  <2>1. ASSUME NEW k \in Key, NEW f \in Dir, k # n, k # c
        PROVE  E[u.child[f][k]] = D[t.child[f][k]]
    <3>1. PICK x \in Node : x = t.child[f][k]
      BY <1>2
    <3>2. x # c /\ u.child[f][k] = IF x = n THEN c ELSE x
      BY <1>8, <1>11, <2>1, <3>1
    <3> QED
      BY <1>7, <3>1, <3>2
  <2> QED
    BY <2>1
<1>14. ASSUME NEW k \in Key
       PROVE  E[k] = {k} \cup E[u.child["left"][k]] \cup E[u.child["right"][k]]
  <2>1. E[k] = {k} \cup E[u.child[d][k]] \cup E[u.child[o][k]]
    <3>1. CASE k = n
      BY <1>4, <1>5, <1>7, <1>8, <3>1
    <3>2. CASE k = c
      <4>1. E[b] = D[b]
        BY <1>6, <1>7
      <4>2. E[c] = {c} \cup E[n] \cup E[b]
        <5> HIDE DEF E
        <5> QED
          BY <1>7, <1>9, <4>1
      <4> QED
        BY <1>8, <3>2, <4>2
    <3>3. CASE k # n /\ k # c
      <4>1. D[k] = {k} \cup D[t.child[d][k]] \cup D[t.child[o][k]]
        BY <1>3, Children
      <4> HIDE DEF E
      <4> QED
        BY <1>2, <1>7, <1>13, <3>3, <4>1
    <3> QED
      BY <3>1, <3>2, <3>3
  <2>2. (d = "left" /\ o = "right") \/ (d = "right" /\ o = "left")
    BY <1>3 DEF Dir, Other
  <2> HIDE DEF E
  <2> QED
    BY <2>1, <2>2
<1>15. ASSUME NEW k \in Key, NEW f \in Dir, NEW x \in E[u.child[f][k]]
       PROVE  OnSide(f, x, k)
  <2> HIDE DEF E
  <2>1. f = d \/ f = o
    BY <1>3, SideFacts
  <2>2. CASE k = n
    <3>1. E[a] = D[a] /\ E[m] = D[m]
      BY <1>4, <1>5, <1>7
    <3>2. CASE f = d
      BY <1>8, <1>10, <1>15, <2>2, <3>1, <3>2
    <3>3. CASE f = o
      <4>1. x \in D[m]
        BY <1>8, <1>15, <2>2, <3>1, <3>3
      <4>2. x \in D[c]
        BY <1>9, <4>1
      <4> QED
        BY <1>10, <2>2, <3>3, <4>2
    <3> QED
      BY <2>1, <3>2, <3>3
  <2>3. CASE k = c
    <3>1. CASE f = o
      BY <1>6, <1>7, <1>8, <1>10, <1>15, <2>3, <3>1
    <3>2. CASE f = d
      <4>1. x \in {n} \cup D[a] \cup D[m]
        BY <1>7, <1>8, <1>15, <2>3, <3>2
      <4>2. OnSide(d, n, c) /\ n \in Int /\ c \in Int
        <5>1. OnSide(o, c, n) /\ n \in Int /\ c \in Int /\ Other(o) = d
          BY <1>2, <1>3, <1>4, <1>9, <1>10, SideFacts
        <5> QED
          BY <5>1, SideFacts
      <4>3. x \in D[a] => x \in Int
        BY <1>1, <1>2, <1>5
      <4> QED
        BY <1>10, <2>3, <3>2, <4>1, <4>2, <4>3, SideFacts
    <3> QED
      BY <2>1, <3>1, <3>2
  <2>4. CASE k # n /\ k # c
    <3>1. x \in D[t.child[f][k]]
      BY <1>13, <1>15, <2>4
    <3> QED
      BY <3>1 DEF Shape
  <2> QED
    BY <2>2, <2>3, <2>4
<1>16. ASSUME NEW k \in Key, NEW f \in Dir, u.child[f][k] # Nil
       PROVE  u.parent[u.child[f][k]] = k
  <2> HIDE DEF E
  <2>1. f = d \/ f = o
    BY <1>3, SideFacts
  <2>2. CASE k = n
    <3>1. a # Nil => t.parent[a] = n /\ (a # m \/ m = Nil)
      <4>1. a # Nil => t.parent[a] = n
        BY <1>4, <1>5, ChildParent
      <4> QED
        BY <1>4, <1>9, <4>1
    <3> QED
      BY <1>5, <1>8, <1>16, <2>1, <2>2, <3>1
  <2>3. CASE k = c
    <3>1. b # Nil => t.parent[b] = c /\ (b # m \/ m = Nil)
      <4>1. b # Nil => t.parent[b] = c
        BY <1>4, <1>6, ChildParent
      <4> QED
        BY <1>4, <1>9, <4>1
    <3> QED
      BY <1>6, <1>8, <1>16, <2>1, <2>3, <3>1
  <2>4. CASE k # n /\ k # c
    <3>1. PICK x \in Node : x = t.child[f][k]
      BY <1>2
    <3>2. x # Nil => t.parent[x] = k
      BY <3>1, ChildParent
    <3>3. x # c /\ (x # m \/ m = Nil)
      BY <1>11, <1>12, <2>4, <3>1
    <3> QED
      BY <1>2, <1>4, <1>8, <1>16, <2>4, <3>1, <3>2, <3>3
  <2> QED
    BY <2>2, <2>3, <2>4
<1>17. \A k \in Key \ N, f \in Dir : u.child[f][k] = Nil
  <2>1. \A k \in Key \ N, f \in Dir : t.child[f][k] = Nil /\ k # n /\ k # c
    BY <1>4 DEF Shape
  <2> QED
    BY <1>2, <1>4, <1>8, <2>1
<1>18. E[u.root] = N /\ u.parent[u.root] = Nil
  <2> HIDE DEF E
  <2>1. CASE t.root = n
    <3>1. t.parent[n] = Nil
      BY <2>1, Slot
    <3> QED
      BY <1>1, <1>7, <1>8, <2>1, <3>1
  <2>2. CASE t.root # n
    <3>2. t.parent[t.root] = Nil /\ \A k \in Key, f \in Dir : t.child[f][k] # t.root
      BY RootSlot
    <3>3. t.root # c /\ (t.root # m \/ m = Nil)
      BY <1>3, <1>4, <3>2
    <3>4. PICK r \in Node : r = t.root /\ r # n /\ r # c /\ (r # m \/ m = Nil)
      BY <1>2, <2>2, <3>3
    <3>5. u.root = r
      BY <1>8, <2>2, <3>4
    <3>6. E[r] = D[r] /\ D[r] = N
      BY <1>1, <1>7, <3>4
    <3>7. u.parent[r] = t.parent[r] /\ t.parent[r] = Nil
      BY <1>8, <3>2, <3>4
    <3> QED
      BY <3>5, <3>6, <3>7
  <2> QED
    BY <2>1, <2>2
<1>19. E[Nil] = {}
  BY <1>1, <1>2, <1>4, <1>7
<1> HIDE DEF E
<1>20. Shape(u, N, E)
  BY <1>1, <1>7, <1>14, <1>15, <1>16, <1>17, <1>18, <1>19 DEF Shape
<1> QED
  BY <1>20 DEF E

(* A rotation is seen from the links alone. *)
LEMMA RotatedSame ==
    ASSUME NEW t, NEW q, NEW u, NEW n, NEW c, NEW m, NEW d, Rotated(q, u, n, c, m, d),
           NEW root, NEW child, NEW parent, t.root = root, t.child = child, t.parent = parent,
           q.root = root, q.child = child, q.parent = parent
    PROVE  Rotated(t, u, n, c, m, d)
  BY DEF Rotated

(* Painting and then rotating: the links are those of a rotation of t. *)
LEMMA RotateRepainted ==
    ASSUME NEW t, NEW N, NEW D, Shape(t, N, D), NEW n \in N, NEW d \in Dir,
           NEW c, c = t.child[Other(d)][n], c # Nil, NEW m, m = t.child[d][c],
           NEW q \in TreeRecord, q.root = t.root, q.child = t.child, q.parent = t.parent,
           NEW u, u = Rotate(q, n, d)
    PROVE  /\ u \in TreeRecord /\ Rotated(t, u, n, c, m, d) /\ u.black = q.black
           /\ Shape(u, N, RotatedBelow(t, D, n, c, m, d))
<1>1. Shape(q, N, D)
  BY SameLinks
<1>2. ChildIs(q, Other(d), n, c) /\ ChildIs(q, d, c, m)
  BY DEF ChildIs
<1>3. u \in TreeRecord /\ Rotated(q, u, n, c, m, d) /\ u.black = q.black
  BY <1>1, <1>2, RotateLinks
<1>4. Rotated(t, u, n, c, m, d)
  BY <1>3, RotatedSame
<1>5. Shape(u, N, RotatedBelow(t, D, n, c, m, d))
  BY <1>3, <1>4, RotateShape
<1> QED
  BY <1>3, <1>4, <1>5

-----------------------------------------------------------------------------
(* Colours *)

Ink(t, n) == IF t.black[n] THEN 1 ELSE 0

(* H[n] is the number of black nodes on every path down from n; under the   *)
(* child d of p, when p is a node, one is missing.                          *)
Missing(k, f, p, d) == IF k = p /\ f = d THEN 1 ELSE 0

Heights(t, N, H, p, d) ==
    /\ H \in [Node -> Nat] /\ H[Nil] = 0
    /\ \A k \in N, f \in Dir : H[k] = Ink(t, k) + H[t.child[f][k]] + Missing(k, f, p, d)

(* No red node has a red child, but x may be one and y may have one; x may  *)
(* be a red root.                                                           *)
Reds(t, N, x, y) ==
    /\ t.black[Nil]
    /\ t.black[t.root] \/ t.root = x
    /\ \A k \in N, f \in Dir :
        ~t.black[k] /\ ~t.black[t.child[f][k]] => t.child[f][k] = x \/ k = y

(* In u the nodes n and c have exchanged their colours. *)
Exchanged(t, u, n, c) ==
    /\ u.black[n] = t.black[c] /\ u.black[c] = t.black[n]
    /\ \A x \in Node : x # n /\ x # c => u.black[x] = t.black[x]

(* A rotation with a red child that takes over n's colour leaves the black  *)
(* nodes on every path as many as they were.                                *)
LEMMA RotateHeights ==
    ASSUME NEW t, NEW N, NEW D, Shape(t, N, D), NEW n \in N, NEW d \in Dir,
           NEW c, c # Nil, NEW m,
           NEW u \in TreeRecord, Rotated(t, u, n, c, m, d), Exchanged(t, u, n, c), ~t.black[c],
           NEW H, NEW p, NEW s, Heights(t, N, H, p, s), p # c, p # n \/ s = d
    PROVE  Heights(u, N, [H EXCEPT ![n] = H[c], ![c] = H[n]], p, s)
<1> DEFINE G == [H EXCEPT ![n] = H[c], ![c] = H[n]]
<1>1. /\ t \in TreeRecord /\ N \subseteq Key
  BY DEF Shape
<1>2. /\ Node = Key \cup {Nil} /\ Nil \notin Key
      /\ \A f \in Dir, k \in Key : t.child[f][k] \in Node
  BY <1>1, TreeTypes
<1>3. PICK o \in Dir : o = Other(d) /\ o # d /\ c = t.child[o][n] /\ m = t.child[d][c]
  BY SideFacts DEF Rotated
<1>4. /\ n \in Key /\ c \in Key /\ c \in N /\ m \in Node /\ n # c /\ m # n /\ m # c
      /\ t.child[d][n] # n /\ t.child[d][n] # c
      /\ t.child[o][c] # n /\ t.child[o][c] # c
  BY <1>3, RotateNodes
<1>5. PICK a \in Node : a = t.child[d][n] /\ a # n /\ a # c
  BY <1>2, <1>4
<1>6. PICK b \in Node : b = t.child[o][c] /\ b # n /\ b # c
  BY <1>2, <1>4
<1>7. /\ u.child[o][n] = m /\ u.child[d][n] = a /\ u.child[d][c] = n /\ u.child[o][c] = b
      /\ \A k \in Key, f \in Dir : k # n /\ k # c =>
            u.child[f][k] = IF t.child[f][k] = n THEN c ELSE t.child[f][k]
  BY <1>3, <1>5, <1>6 DEF Rotated
<1>8. H \in [Node -> Nat] /\ H[Nil] = 0
  BY DEF Heights
<1>9. /\ G \in [Node -> Nat] /\ G[Nil] = 0 /\ G[n] = H[c] /\ G[c] = H[n]
      /\ \A x \in Node : x # n /\ x # c => G[x] = H[x]
  BY <1>2, <1>4, <1>8
<1> HIDE DEF G
<1>10. Ink(u, n) = 0 /\ Ink(u, c) = Ink(t, n) /\ Ink(t, c) = 0 /\ Ink(t, n) \in {0, 1}
  BY DEF Ink, Exchanged
<1>11. \A f \in Dir : Missing(c, f, p, s) = 0 /\ Missing(n, o, p, s) = 0 /\ Missing(n, d, p, s) \in {0, 1}
  BY <1>3 DEF Missing
<1>12. /\ H[n] = Ink(t, n) + H[a] + Missing(n, d, p, s)
       /\ H[n] = Ink(t, n) + H[c] + Missing(n, o, p, s)
       /\ H[c] = Ink(t, c) + H[m] + Missing(c, d, p, s)
       /\ H[c] = Ink(t, c) + H[b] + Missing(c, o, p, s)
  BY <1>3, <1>4, <1>5, <1>6 DEF Heights
<1>13. H[n] \in Nat /\ H[c] \in Nat /\ H[a] \in Nat /\ H[m] \in Nat /\ H[b] \in Nat
  BY <1>2, <1>4, <1>8
<1>14. /\ G[n] = Ink(u, n) + H[a] + Missing(n, d, p, s)
       /\ G[n] = Ink(u, n) + H[m] + Missing(n, o, p, s)
       /\ G[c] = Ink(u, c) + H[c] + Missing(c, d, p, s)
       /\ G[c] = Ink(u, c) + H[b] + Missing(c, o, p, s)
  BY <1>9, <1>10, <1>11, <1>12, <1>13
<1>15. ASSUME NEW k \in N, NEW f \in Dir
       PROVE  G[k] = Ink(u, k) + G[u.child[f][k]] + Missing(k, f, p, s)
  <2>1. f = d \/ f = o
    BY <1>3, SideFacts
  <2>2. CASE k = n
    BY <1>4, <1>5, <1>7, <1>9, <1>14, <2>1, <2>2
  <2>3. CASE k = c
    BY <1>6, <1>7, <1>9, <1>14, <2>1, <2>3
  <2>4. CASE k # n /\ k # c
    <3>1. PICK x \in Node : x = t.child[f][k]
      BY <1>1, <1>2
    <3>2. x # c
      <4>1. \A j \in Key, e \in Dir : t.child[e][j] = c => j = t.parent[c]
        BY <1>4, Slot
      <4> QED
        BY <1>1, <1>3, <1>4, <2>4, <3>1, <4>1
    <3>3. G[u.child[f][k]] = H[x]
      BY <1>1, <1>7, <1>9, <2>4, <3>1, <3>2
    <3>4. H[k] = Ink(t, k) + H[x] + Missing(k, f, p, s)
      BY <3>1 DEF Heights
    <3>5. Ink(u, k) = Ink(t, k) /\ G[k] = H[k]
      BY <1>1, <1>2, <1>9, <2>4 DEF Ink, Exchanged
    <3> QED
      BY <3>3, <3>4, <3>5
  <2> QED
    BY <2>2, <2>3, <2>4
<1>16. Heights(u, N, G, p, s)
  BY <1>9, <1>15 DEF Heights
<1> QED
  BY <1>16 DEF G

(* When n's other child and c's children are black, such a rotation puts    *)
(* nothing red under something red but n under c.                           *)
LEMMA RotateReds ==
    ASSUME NEW t, NEW N, NEW D, Shape(t, N, D), NEW n \in N, NEW d \in Dir,
           NEW c, c # Nil, NEW m,
           NEW u \in TreeRecord, Rotated(t, u, n, c, m, d), Exchanged(t, u, n, c), ~t.black[c],
           t.black[t.child[d][n]], t.black[m], t.black[n] \/ t.black[t.child[Other(d)][c]],
           NEW x, Reds(t, N, x, Nil), x # n, t.black[n] \/ x = c
    PROVE  Reds(u, N, IF t.black[n] THEN x ELSE n, Nil)
<1> DEFINE y == IF t.black[n] THEN x ELSE n
<1>1. t \in TreeRecord /\ N \subseteq Key
  BY DEF Shape
<1>2. /\ Node = Key \cup {Nil} /\ Nil \notin Key /\ t.root \in Node
      /\ \A f \in Dir, k \in Key : t.child[f][k] \in Node
      /\ \A k \in Node : t.black[k] \in BOOLEAN
  BY <1>1, TreeTypes
<1>3. PICK o \in Dir : o = Other(d) /\ o # d /\ c = t.child[o][n] /\ m = t.child[d][c]
  BY SideFacts DEF Rotated
<1>4. /\ n \in Key /\ c \in Key /\ c \in N /\ m \in Node /\ n # c /\ m # n /\ m # c
      /\ t.child[d][n] # n /\ t.child[d][n] # c
      /\ t.child[o][c] # n /\ t.child[o][c] # c
  BY <1>3, RotateNodes
<1>5. PICK a \in Node : a = t.child[d][n] /\ a # n /\ a # c
  BY <1>2, <1>4
<1>6. PICK b \in Node : b = t.child[o][c] /\ b # n /\ b # c
  BY <1>2, <1>4
<1>7. /\ u.child[o][n] = m /\ u.child[d][n] = a /\ u.child[d][c] = n /\ u.child[o][c] = b
      /\ \A k \in Key, f \in Dir : k # n /\ k # c =>
            u.child[f][k] = IF t.child[f][k] = n THEN c ELSE t.child[f][k]
      /\ u.root = IF t.root = n THEN c ELSE t.root
  BY <1>3, <1>5, <1>6 DEF Rotated
<1>8. /\ u.black[n] = FALSE /\ u.black[c] = t.black[n]
      /\ \A z \in Node : z # n /\ z # c => u.black[z] = t.black[z]
  BY <1>2, <1>4 DEF Exchanged
<1>9. /\ t.black[Nil] /\ (t.black[t.root] \/ t.root = x)
      /\ \A k \in N, f \in Dir :
            ~t.black[k] /\ ~t.black[t.child[f][k]] => t.child[f][k] = x
  BY <1>1, <1>2 DEF Reds
<1>10. u.black[Nil]
  BY <1>2, <1>4, <1>8, <1>9
<1>11. u.black[u.root] \/ u.root = y
  <2>1. CASE t.root = n
    BY <1>7, <1>8, <1>9, <2>1
  <2>2. CASE t.root # n
    <3>1. t.root # c
      <4>1. \A k \in Key, f \in Dir : t.child[f][k] # t.root
        BY RootSlot
      <4> QED
        BY <1>3, <1>4, <4>1
    <3> QED
      BY <1>2, <1>7, <1>8, <1>9, <2>2, <3>1
  <2> QED
    BY <2>1, <2>2
<1>12. ASSUME NEW k \in N, NEW f \in Dir, ~u.black[k], ~u.black[u.child[f][k]]
       PROVE  u.child[f][k] = y \/ k = Nil
  <2>1. f = d \/ f = o
    BY <1>3, SideFacts
  <2>2. CASE k = n
    BY <1>4, <1>5, <1>7, <1>8, <1>12, <2>1, <2>2
  <2>3. CASE k = c
    <3>1. ~t.black[n] /\ t.black[b]
      BY <1>3, <1>6, <1>8, <1>12, <2>3
    <3> QED
      BY <1>6, <1>7, <1>8, <1>12, <2>1, <2>3, <3>1
  <2>4. CASE k # n /\ k # c
    <3>1. PICK z \in Node : z = t.child[f][k]
      BY <1>1, <1>2
    <3>2. z # c
      <4>1. \A j \in Key, e \in Dir : t.child[e][j] = c => j = t.parent[c]
        BY <1>4, Slot
      <4> QED
        BY <1>1, <1>3, <1>4, <2>4, <3>1, <4>1
    <3>3. ~t.black[k] /\ u.child[f][k] = IF z = n THEN c ELSE z
      BY <1>1, <1>2, <1>7, <1>8, <1>12, <2>4, <3>1
    <3>4. CASE z = n
      <4>1. ~t.black[n]
        BY <1>8, <1>12, <3>3, <3>4
      <4>3. ~t.black[k] /\ ~t.black[t.child[f][k]]
        BY <3>1, <3>3, <3>4, <4>1
      <4>2. t.child[f][k] = x
        BY <1>9, <4>3
      <4> QED
        BY <3>1, <3>4, <4>2
    <3>5. CASE z # n
      <4>1. ~t.black[z]
        BY <1>8, <1>12, <3>2, <3>3, <3>5
      <4>2. z = x
        BY <1>9, <3>1, <3>3, <4>1
      <4> QED
        BY <3>2, <3>3, <3>5, <4>2
    <3> QED
      BY <3>4, <3>5
  <2> QED
    BY <2>2, <2>3, <2>4
<1> HIDE DEF y
<1>13. Reds(u, N, y, Nil)
  BY <1>10, <1>11, <1>12 DEF Reds
<1> QED
  BY <1>13 DEF y

(* The last rotation of rebalance_delete: the black sibling c takes n's     *)
(* place and colour, n and c's red outer child b become black, and no path  *)
(* is short of a black node any more.                                       *)
LEMMA RotateRaises ==
    ASSUME NEW t, NEW N, NEW D, Shape(t, N, D), NEW n \in N, NEW d \in Dir,
           NEW c, c # Nil, NEW m,
           NEW b, ChildIs(t, Other(d), c, b),
           NEW u \in TreeRecord, Rotated(t, u, n, c, m, d),
           t.black[c], ~t.black[b], u.black[n], u.black[c] = t.black[n], u.black[b],
           \A x \in Node : x \notin {n, c, b} => u.black[x] = t.black[x],
           NEW H, Heights(t, N, H, n, d), Reds(t, N, Nil, Nil)
    PROVE  (\E G : Heights(u, N, G, Nil, d)) /\ Reds(u, N, Nil, Nil)
<1> DEFINE G == [x \in Node |-> IF x = n THEN H[c] ELSE IF x = c THEN H[n]
                               ELSE IF x = b THEN H[b] + 1 ELSE H[x]]
<1>1. t \in TreeRecord /\ N \subseteq Key
  BY DEF Shape
<1>2. /\ Node = Key \cup {Nil} /\ Nil \notin Key /\ t.root \in Node
      /\ \A f \in Dir, k \in Key : t.child[f][k] \in Node
      /\ \A k \in Node : t.black[k] \in BOOLEAN /\ u.black[k] \in BOOLEAN
  BY <1>1, TreeTypes
<1>3. PICK o \in Dir : o = Other(d) /\ o # d /\ c = t.child[o][n] /\ m = t.child[d][c]
  BY SideFacts DEF Rotated
<1>4. /\ n \in Key /\ c \in Key /\ c \in N /\ m \in Node /\ n # c /\ m # n /\ m # c
      /\ t.child[d][n] # n /\ t.child[d][n] # c
      /\ t.child[o][c] # n /\ t.child[o][c] # c
  BY <1>3, RotateNodes
<1>5. PICK a \in Node : a = t.child[d][n] /\ a # n /\ a # c
  BY <1>2, <1>4
<1>6. /\ t.black[Nil] /\ t.black[t.root]
      /\ \A k \in N, f \in Dir : ~t.black[k] => t.black[t.child[f][k]]
      /\ \A k \in N, f \in Dir : H[k] = Ink(t, k) + H[t.child[f][k]] + Missing(k, f, n, d)
      /\ H \in [Node -> Nat] /\ H[Nil] = 0
  <2>1. \A k \in N, f \in Dir :
          ~t.black[k] /\ ~t.black[t.child[f][k]] => t.child[f][k] = Nil \/ k = Nil
    BY DEF Reds
  <2>2. t.black[Nil] /\ (t.black[t.root] \/ t.root = Nil)
    BY DEF Reds
  <2>3. \A k \in N : k # Nil
    BY <1>1, <1>2
  <2> QED
    BY <2>1, <2>2, <2>3 DEF Heights
<1>7. b = t.child[o][c] /\ b \in N /\ b \in Key /\ b # n /\ b # c
  <2>1. b = t.child[o][c] /\ b # Nil
    BY <1>3, <1>6 DEF ChildIs
  <2>2. b \in N
    BY <1>3, <1>4, <2>1, NodeFacts
  <2> QED
    BY <1>1, <1>4, <2>1, <2>2
<1>8. /\ u.child[o][n] = m /\ u.child[d][n] = a /\ u.child[d][c] = n /\ u.child[o][c] = b
      /\ \A k \in Key, f \in Dir : k # n /\ k # c =>
            u.child[f][k] = IF t.child[f][k] = n THEN c ELSE t.child[f][k]
      /\ u.root = IF t.root = n THEN c ELSE t.root
  BY <1>3, <1>5, <1>7 DEF Rotated
<1>9. /\ G \in [Node -> Nat] /\ G[Nil] = 0 /\ G[n] = H[c] /\ G[c] = H[n] /\ G[b] = H[b] + 1
      /\ \A x \in Node : x # n /\ x # c /\ x # b => G[x] = H[x]
  <2>1. n \in Node /\ c \in Node /\ b \in Node /\ Nil \in Node /\ n # Nil /\ b # Nil
    BY <1>2, <1>4, <1>7
  <2>2. H[n] \in Nat /\ H[c] \in Nat /\ H[b] + 1 \in Nat /\ \A x \in Node : H[x] \in Nat
    BY <1>6, <2>1
  <2>3. G \in [Node -> Nat]
    BY <2>2
  <2> QED
    BY <1>4, <1>6, <1>7, <2>1, <2>3
<1> HIDE DEF G
<1>10. a # b /\ m # b
  <2>0. \A x \in N : \A k \in Key, f \in Dir :
            t.child[f][k] = x => k = t.parent[x] /\ t.child[Other(f)][k] # x
    BY Slot
  <2>1. \A k \in Key, f \in Dir : t.child[f][k] = b => k = t.parent[b] /\ t.child[Other(f)][k] # b
    BY <1>7, <2>0
  <2>2. n # t.parent[b] /\ t.child[Other(o)][c] # b /\ Other(o) = d
    <3>1. t.parent[b] = c /\ t.child[Other(o)][c] # b
      BY <1>4, <1>7, <2>1
    <3>2. Other(o) = d
      BY <1>3, SideFacts
    <3> QED
      BY <1>4, <3>1, <3>2
  <2> QED
    BY <1>3, <1>4, <1>5, <2>1, <2>2
<1>11. ASSUME NEW k \in Key, NEW f \in Dir, k # n, k # c
       PROVE  t.child[f][k] # c /\ t.child[f][k] # b
  <2>0. \A x \in N : \A j \in Key, e \in Dir : t.child[e][j] = x => j = t.parent[x]
    BY Slot
  <2>1. \A j \in Key, e \in Dir : t.child[e][j] = c => j = t.parent[c]
    BY <1>4, <2>0
  <2>2. \A j \in Key, e \in Dir : t.child[e][j] = b => j = t.parent[b]
    BY <1>7, <2>0
  <2>3. t.parent[c] = n
    BY <1>3, <1>4, <2>1
  <2>4. t.parent[b] = c
    BY <1>4, <1>7, <2>2
  <2> QED
    BY <1>11, <2>1, <2>2, <2>3, <2>4
<1>12. Ink(t, c) = 1 /\ Ink(t, b) = 0 /\ Ink(u, n) = 1 /\ Ink(u, b) = 1 /\ Ink(u, c) = Ink(t, n) /\ Ink(t, n) \in {0, 1}
  BY DEF Ink
<1>13. /\ Missing(n, d, n, d) = 1 /\ Missing(n, o, n, d) = 0
       /\ \A k \in N, f \in Dir : (k # n => Missing(k, f, n, d) = 0) /\ Missing(k, f, Nil, d) = 0
  BY <1>1, <1>2, <1>3 DEF Missing
<1>14. /\ H[n] = Ink(t, n) + H[a] + Missing(n, d, n, d)
       /\ H[n] = Ink(t, n) + H[c] + Missing(n, o, n, d)
       /\ H[c] = Ink(t, c) + H[m] + Missing(c, d, n, d)
       /\ H[c] = Ink(t, c) + H[b] + Missing(c, o, n, d)
  <2>1. t.child[d][n] = a /\ t.child[o][n] = c /\ t.child[d][c] = m /\ t.child[o][c] = b
    BY <1>3, <1>5, <1>7
  <2> QED
    BY <1>4, <1>6, <2>1
<1>15. H[n] \in Nat /\ H[c] \in Nat /\ H[a] \in Nat /\ H[m] \in Nat /\ H[b] \in Nat
  BY <1>2, <1>4, <1>6, <1>7
<1>16. /\ G[n] = 1 + H[a] /\ G[n] = 1 + H[m]
       /\ G[c] = Ink(t, n) + G[n] /\ G[c] = Ink(t, n) + G[b]
  <2>1. Missing(c, d, n, d) = 0 /\ Missing(c, o, n, d) = 0
    BY <1>4, <1>13
  <2>2. H[c] = 1 + H[m] /\ H[c] = 1 + H[b]
    BY <1>12, <1>14, <1>15, <2>1
  <2>3. H[n] = Ink(t, n) + H[c] /\ H[c] = 1 + H[a]
    BY <1>12, <1>13, <1>14, <1>15
  <2>4. G[n] = H[c] /\ G[c] = H[n] /\ G[b] = H[b] + 1
    BY <1>9
  <2>5. G[n] = 1 + H[a] /\ G[n] = 1 + H[m] /\ G[c] = Ink(t, n) + G[n]
    BY <2>2, <2>3, <2>4
  <2>6. H[c] = G[b]
    BY <1>15, <2>2, <2>4
  <2> QED
    BY <2>3, <2>4, <2>5, <2>6
<1>17. ASSUME NEW k \in N, NEW f \in Dir
       PROVE  G[k] = Ink(u, k) + G[u.child[f][k]] + Missing(k, f, Nil, d)
  <2>1. f = d \/ f = o
    BY <1>3, SideFacts
  <2>2. Missing(k, f, Nil, d) = 0
    BY <1>13
  <2>3. CASE k = n
    <3>1. G[a] = H[a] /\ G[m] = H[m] /\ H[a] \in Nat /\ H[m] \in Nat
      BY <1>4, <1>5, <1>9, <1>10, <1>15
    <3>2. u.child[f][n] \in {a, m}
      BY <1>8, <2>1
    <3>3. H[a] = H[m]
      <4>1. 1 + H[a] = 1 + H[m]
        BY <1>16
      <4> QED
        BY <1>15, <4>1
    <3>4. G[u.child[f][n]] = H[a]
      BY <3>1, <3>2, <3>3
    <3>5. G[n] = Ink(u, n) + G[u.child[f][n]] + 0
      BY <1>12, <1>16, <3>1, <3>4
    <3> QED
      BY <2>2, <2>3, <3>5
  <2>4. CASE k = c
    <3>1. G[b] \in Nat /\ G[n] \in Nat
      BY <1>9, <1>15
    <3> QED
      BY <1>8, <1>12, <1>16, <2>1, <2>2, <2>4, <3>1
  <2>5. CASE k # n /\ k # c
    <3>1. PICK x \in Node : x = t.child[f][k]
      BY <1>1, <1>2
    <3>2. x # c /\ x # b /\ u.child[f][k] = IF x = n THEN c ELSE x
      BY <1>1, <1>8, <1>11, <2>5, <3>1
    <3>3. G[u.child[f][k]] = H[x] /\ H[x] \in Nat /\ H[k] \in Nat
      BY <1>1, <1>2, <1>6, <1>9, <3>2
    <3>4. H[k] = Ink(t, k) + H[x] + Missing(k, f, n, d) /\ Missing(k, f, n, d) = 0
      BY <1>6, <1>13, <2>5, <3>1
    <3>5. CASE k = b
      <4>1. H[b] = Ink(t, b) + H[x] + Missing(b, f, n, d) /\ Missing(b, f, n, d) = 0
        BY <3>4, <3>5
      <4>2. H[b] = H[x]
        BY <1>12, <3>3, <4>1
      <4>3. G[b] = H[x] + 1 /\ Ink(u, b) = 1
        BY <1>9, <1>12, <4>2
      <4>4. G[k] = H[x] + 1 /\ Ink(u, k) = 1
        BY <3>5, <4>3
      <4> QED
        BY <2>2, <3>3, <4>4
    <3>6. CASE k # b
      <4>1. Ink(u, k) = Ink(t, k) /\ G[k] = H[k]
        BY <1>1, <1>2, <1>9, <2>5, <3>6 DEF Ink
      <4> QED
        BY <2>2, <3>3, <3>4, <4>1
    <3> QED
      BY <3>5, <3>6
  <2> QED
    BY <2>3, <2>4, <2>5
<1>18. Heights(u, N, G, Nil, d)
  BY <1>9, <1>17 DEF Heights
<1>19. u.black[Nil] /\ u.black[u.root]
  <2>1. u.black[Nil]
    BY <1>2, <1>4, <1>6, <1>7
  <2>2. CASE t.root = n
    <3>1. u.root = c /\ t.black[n]
      BY <1>6, <1>8, <2>2
    <3> QED
      BY <2>1, <3>1
  <2>3. CASE t.root # n
    <3>1. t.root # c /\ t.root # b
      <4>1. \A k \in Key, f \in Dir : t.child[f][k] # t.root
        BY RootSlot
      <4> QED
        BY <1>3, <1>4, <1>7, <4>1
    <3> QED
      BY <1>2, <1>6, <1>8, <2>3, <3>1
  <2> QED
    BY <2>1, <2>2, <2>3
<1>20. ASSUME NEW k \in N, NEW f \in Dir, ~u.black[k], ~u.black[u.child[f][k]]
       PROVE  FALSE
  <2>1. f = d \/ f = o
    BY <1>3, SideFacts
  <2>2. k # n /\ k # b
    BY <1>20
  <2>3. k # c
    BY <1>8, <1>20, <2>1
  <2>4. PICK x \in Node : x = t.child[f][k]
    BY <1>1, <1>2
  <2>5. x # c /\ x # b /\ u.child[f][k] = IF x = n THEN c ELSE x
    BY <1>1, <1>8, <1>11, <2>2, <2>3, <2>4
  <2>6. ~t.black[k]
    BY <1>1, <1>2, <1>20, <2>2, <2>3
  <2>7. ~t.black[x]
    BY <1>20, <2>5
  <2> QED
    BY <1>6, <2>4, <2>6, <2>7
<1>21. Reds(u, N, Nil, Nil)
  BY <1>19, <1>20 DEF Reds
<1> QED
  BY <1>18, <1>21

(* rebalance_insert with a red uncle w: the colours of the grandparent g    *)
(* and of its children are turned round.                                    *)
LEMMA RepaintInsert ==
    ASSUME NEW t, NEW N, NEW D, Shape(t, N, D), NEW g \in N, NEW d \in Dir,
           NEW p, p = t.child[d][g], NEW w, w = t.child[Other(d)][g],
           NEW x \in N, t.parent[x] = p, x # t.root, ~t.black[p], ~t.black[w], t.black[g],
           NEW u, Repainted(t, u), u.black[p], u.black[w], ~u.black[g],
           \A y \in Node : y \notin {p, w, g} => u.black[y] = t.black[y],
           NEW H, Heights(t, N, H, Nil, d), Reds(t, N, x, Nil)
    PROVE  /\ Heights(u, N, [H EXCEPT ![p] = H[p] + 1, ![w] = H[w] + 1], Nil, d)
           /\ Reds(u, N, g, Nil)
<1> DEFINE G == [H EXCEPT ![p] = H[p] + 1, ![w] = H[w] + 1]
<1>1. t \in TreeRecord /\ N \subseteq Key /\ u \in TreeRecord /\ u.root = t.root /\ u.child = t.child
  BY DEF Shape, Repainted
<1>2. /\ Node = Key \cup {Nil} /\ Nil \notin Key /\ t.root \in Node
      /\ \A f \in Dir, k \in Key : t.child[f][k] \in Node
      /\ \A k \in Node : t.black[k] \in BOOLEAN /\ u.black[k] \in BOOLEAN
  BY <1>1, TreeTypes
<1>3. PICK o \in Dir : o = Other(d) /\ o # d
  BY SideFacts
<1>4. /\ t.black[Nil] /\ (t.black[t.root] \/ t.root = x)
      /\ \A k \in N, f \in Dir : ~t.black[k] /\ ~t.black[t.child[f][k]] => t.child[f][k] = x
      /\ H \in [Node -> Nat] /\ H[Nil] = 0
      /\ \A k \in N, f \in Dir : H[k] = Ink(t, k) + H[t.child[f][k]] + Missing(k, f, Nil, d)
  <2>1. \A k \in N : k # Nil
    BY <1>1, <1>2
  <2> QED
    BY <2>1 DEF Reds, Heights
<1>5. /\ p \in N /\ w \in N /\ p \in Key /\ w \in Key /\ p # w /\ g # p /\ g # w /\ g \in Key
  <2>1. p # Nil /\ w # Nil /\ g # p /\ g # w
    BY <1>4
  <2>2. p \in N /\ w \in N
    BY <1>3, <2>1, NodeFacts
  <2>3. D[t.child[d][g]] \cap D[t.child[Other(d)][g]] = {}
    BY <1>1, Children
  <2>4. p \in D[p]
    BY <1>1, <2>2, Children
  <2> QED
    BY <1>1, <1>3, <2>1, <2>2, <2>3, <2>4
<1>6. ASSUME NEW k \in Key, NEW f \in Dir, k # g
      PROVE  t.child[f][k] # p /\ t.child[f][k] # w
  <2>1. \A j \in Key, e \in Dir : t.child[e][j] = p => j = t.parent[p]
    BY <1>5, Slot
  <2>2. \A j \in Key, e \in Dir : t.child[e][j] = w => j = t.parent[w]
    BY <1>5, Slot
  <2> QED
    BY <1>3, <1>5, <1>6, <2>1, <2>2
<1>7. /\ G \in [Node -> Nat] /\ G[Nil] = 0 /\ G[p] = H[p] + 1 /\ G[w] = H[w] + 1
      /\ \A y \in Node : y # p /\ y # w => G[y] = H[y]
  BY <1>2, <1>4, <1>5
<1> HIDE DEF G
<1>8. Ink(t, p) = 0 /\ Ink(t, w) = 0 /\ Ink(t, g) = 1 /\ Ink(u, p) = 1 /\ Ink(u, w) = 1 /\ Ink(u, g) = 0
  BY DEF Ink
<1>9. \A k \in N, f \in Dir : Missing(k, f, Nil, d) = 0
  BY <1>1, <1>2 DEF Missing
<1>10. ASSUME NEW k \in N, NEW f \in Dir
       PROVE  G[k] = Ink(u, k) + G[u.child[f][k]] + Missing(k, f, Nil, d)
  <2>1. PICK y \in Node : y = t.child[f][k]
    BY <1>1, <1>2
  <2>2. H[k] = Ink(t, k) + H[y] + 0 /\ Missing(k, f, Nil, d) = 0 /\ u.child[f][k] = y
    BY <1>1, <1>4, <1>9, <2>1
  <2>3. H[k] \in Nat /\ H[y] \in Nat
    BY <1>1, <1>2, <1>4
  <2>4. CASE k = g
    <3>1. y = p \/ y = w
      BY <1>3, <2>1, <2>4, SideFacts
    <3> QED
      BY <1>2, <1>5, <1>7, <1>8, <2>2, <2>3, <2>4, <3>1
  <2>5. CASE k # g
    <3>1. G[y] = H[y]
      BY <1>1, <1>6, <1>7, <2>1, <2>5
    <3>2. CASE k = p \/ k = w
      BY <1>7, <1>8, <2>2, <2>3, <3>1, <3>2
    <3>3. CASE k # p /\ k # w
      <4>1. Ink(u, k) = Ink(t, k) /\ G[k] = H[k]
        BY <1>1, <1>2, <1>7, <2>5, <3>3 DEF Ink
      <4> QED
        BY <2>2, <2>3, <3>1, <4>1
    <3> QED
      BY <3>2, <3>3
  <2> QED
    BY <2>4, <2>5
<1>11. Heights(u, N, G, Nil, d)
  BY <1>7, <1>10 DEF Heights
<1>12. u.black[Nil] /\ (u.black[u.root] \/ u.root = g)
  BY <1>1, <1>2, <1>4, <1>5
<1>13. ASSUME NEW k \in N, NEW f \in Dir, ~u.black[k], ~u.black[u.child[f][k]]
       PROVE  u.child[f][k] = g
  <2>1. PICK y \in Node : y = t.child[f][k] /\ u.child[f][k] = y
    BY <1>1, <1>2
  <2>2. k # p /\ k # w /\ y # p /\ y # w
    BY <1>13, <2>1
  <2>3. k # g
    BY <1>3, <2>1, <2>2, SideFacts
  <2>4. y # g => ~t.black[k] /\ ~t.black[y]
    BY <1>1, <1>2, <1>13, <2>1, <2>2, <2>3
  <2>5. y # g => y = x
    BY <1>4, <2>1, <2>4
  <2>6. y = x => k = p
    <3>1. \A j \in Key, e \in Dir : t.child[e][j] = x => j = t.parent[x]
      BY Slot
    <3> QED
      BY <1>1, <2>1, <3>1
  <2> QED
    BY <2>1, <2>2, <2>5, <2>6
<1>14. Reds(u, N, g, Nil)
  BY <1>12, <1>13 DEF Reds
<1> QED
  BY <1>11, <1>14 DEF G

(* rebalance_delete with a black sibling v that has black children: v is    *)
(* painted red, and what was missing under p's child d is missing under p.  *)
LEMMA RepaintDelete ==
    ASSUME NEW t, NEW N, NEW D, Shape(t, N, D), NEW p \in N, NEW d \in Dir,
           NEW v \in N, ChildIs(t, Other(d), p, v), t.black[v],
           \A f \in Dir : t.black[t.child[f][v]],
           NEW u, Repainted(t, u), ~u.black[v],
           \A y \in Node : y # v => u.black[y] = t.black[y],
           NEW H, Heights(t, N, H, p, d), Reds(t, N, Nil, Nil),
           NEW s \in Dir, p # t.root => t.child[s][t.parent[p]] = p
    PROVE  (\E G : Heights(u, N, G, t.parent[p], s)) /\ Reds(u, N, p, p)
<1> DEFINE G == [x \in Node |-> IF x = p \/ x = v THEN H[x] - 1 ELSE H[x]]
<1>1. t \in TreeRecord /\ N \subseteq Key /\ u \in TreeRecord /\ u.root = t.root /\ u.child = t.child
  BY DEF Shape, Repainted
<1>2. /\ Node = Key \cup {Nil} /\ Nil \notin Key /\ t.root \in Node
      /\ \A f \in Dir, k \in Key : t.child[f][k] \in Node
      /\ \A k \in Node : t.black[k] \in BOOLEAN /\ u.black[k] \in BOOLEAN
  BY <1>1, TreeTypes
<1>3. PICK o \in Dir : o = Other(d) /\ o # d /\ v = t.child[o][p]
  BY SideFacts DEF ChildIs
<1>4. /\ t.black[Nil] /\ t.black[t.root]
      /\ \A k \in N, f \in Dir : ~t.black[k] => t.black[t.child[f][k]]
      /\ H \in [Node -> Nat] /\ H[Nil] = 0
      /\ \A k \in N, f \in Dir : H[k] = Ink(t, k) + H[t.child[f][k]] + Missing(k, f, p, d)
  <2>1. \A k \in N : k # Nil
    BY <1>1, <1>2
  <2>2. /\ t.black[Nil] /\ (t.black[t.root] \/ t.root = Nil)
        /\ \A k \in N, f \in Dir :
            ~t.black[k] /\ ~t.black[t.child[f][k]] => t.child[f][k] = Nil \/ k = Nil
    BY DEF Reds
  <2> QED
    BY <2>1, <2>2 DEF Heights
<1>5. /\ v # p /\ v \in Key /\ p \in Key /\ t.child[d][p] # v /\ t.child[d][p] # p
      /\ \A f \in Dir : t.child[f][v] # v /\ t.child[f][v] # p
  <2>1. /\ v \in D[v] /\ p \notin D[v] /\ p \in D[p] /\ p \notin D[t.child[d][p]]
        /\ D[t.child[d][p]] \cap D[v] = {}
    <3>1. v \in D[v] /\ p \in D[p]
      BY <1>1, Children
    <3>2. p \in Key
      BY <1>1
    <3>3. \A f \in Dir : p \notin D[t.child[f][p]] /\ D[t.child[f][p]] \cap D[t.child[Other(f)][p]] = {}
      BY <3>2, Children
    <3> QED
      BY <1>3, <3>1, <3>3
  <2>2. \A f \in Dir : v \notin D[t.child[f][v]] /\ D[t.child[f][v]] \subseteq D[v]
    BY <1>1, Children
  <2> QED
    BY <1>1, <2>1, <2>2
<1>6. ASSUME NEW k \in Key, NEW f \in Dir, k # p
      PROVE  t.child[f][k] # v
  <2>1. \A j \in Key, e \in Dir : t.child[e][j] = v => j = t.parent[v]
    BY Slot
  <2> QED
    BY <1>3, <1>5, <1>6, <2>1
<1>7. ASSUME NEW k \in Key, NEW f \in Dir
      PROVE  Missing(k, f, t.parent[p], s) = IF t.child[f][k] = p THEN 1 ELSE 0
  <2>1. CASE p = t.root
    <3>1. t.parent[p] = Nil /\ \A j \in Key, e \in Dir : t.child[e][j] # p
      BY <2>1, RootSlot
    <3> QED
      BY <1>2, <3>1 DEF Missing
  <2>2. CASE p # t.root
    <3>1. \A j \in Key, e \in Dir : t.child[e][j] = p => j = t.parent[p] /\ t.child[Other(e)][j] # p
      BY OnlySlot
    <3>2. t.parent[p] \in Key
      BY <1>1, <2>2, Slot
    <3>3. f = s \/ f = Other(s)
      BY SideFacts
    <3> QED
      BY <2>2, <3>1, <3>2, <3>3 DEF Missing
  <2> QED
    BY <2>1, <2>2
<1>8. Missing(p, d, p, d) = 1 /\ Missing(p, o, p, d) = 0 /\ \A k \in N, f \in Dir : k # p => Missing(k, f, p, d) = 0
  BY <1>3 DEF Missing
<1>9. Ink(t, v) = 1 /\ Ink(u, v) = 0 /\ Ink(u, p) = Ink(t, p) /\ Ink(t, p) \in {0, 1}
  BY <1>1, <1>2, <1>5 DEF Ink
<1>10. PICK a \in Node : a = t.child[d][p] /\ a # v /\ a # p
  BY <1>2, <1>5
<1>11. /\ H[p] = Ink(t, p) + H[a] + 1 /\ H[p] = Ink(t, p) + H[v]
       /\ \A f \in Dir : H[v] = 1 + H[t.child[f][v]]
       /\ H[p] \in Nat /\ H[v] \in Nat /\ H[a] \in Nat
       /\ \A f \in Dir : H[t.child[f][v]] \in Nat
  <2>1. /\ H[p] = Ink(t, p) + H[a] + Missing(p, d, p, d)
        /\ H[p] = Ink(t, p) + H[v] + Missing(p, o, p, d)
        /\ \A f \in Dir : H[v] = Ink(t, v) + H[t.child[f][v]] + Missing(v, f, p, d)
    BY <1>3, <1>4, <1>10
  <2>2. /\ H[p] \in Nat /\ H[v] \in Nat /\ H[a] \in Nat
        /\ \A f \in Dir : H[t.child[f][v]] \in Nat
    BY <1>1, <1>2, <1>4, <1>5
  <2> QED
    BY <1>5, <1>8, <1>9, <2>1, <2>2
<1>12. H[p] - 1 \in Nat /\ H[v] - 1 \in Nat
  <2>1. "left" \in Dir
    BY DEF Dir
  <2> QED
    BY <1>9, <1>11, <2>1
<1>13. /\ G \in [Node -> Nat] /\ G[Nil] = 0 /\ G[p] = H[p] - 1 /\ G[v] = H[v] - 1
       /\ \A x \in Node : x # p /\ x # v => G[x] = H[x]
  BY <1>2, <1>4, <1>5, <1>12
<1> HIDE DEF G
<1>14. ASSUME NEW k \in N, NEW f \in Dir
       PROVE  G[k] = Ink(u, k) + G[u.child[f][k]] + Missing(k, f, t.parent[p], s)
  <2>1. PICK y \in Node : y = t.child[f][k] /\ u.child[f][k] = y
    BY <1>1, <1>2
  <2>2. Missing(k, f, t.parent[p], s) = IF y = p THEN 1 ELSE 0
    BY <1>1, <1>7, <2>1
  <2>3. CASE k = v
    <3>1. y # v /\ y # p /\ H[v] = 1 + H[y] /\ H[y] \in Nat
      BY <1>5, <1>11, <2>1, <2>3
    <3>2. G[y] = H[y] /\ G[v] = H[y]
      BY <1>13, <3>1
    <3> QED
      BY <1>9, <2>1, <2>2, <2>3, <3>1, <3>2
  <2>4. CASE k = p
    <3>1. y = a \/ y = v
      BY <1>3, <1>10, <2>1, <2>4, SideFacts
    <3>2. G[a] = H[a] /\ G[p] = Ink(t, p) + H[a] /\ G[p] = Ink(t, p) + G[v] /\ G[v] \in Nat
      BY <1>9, <1>10, <1>11, <1>12, <1>13
    <3>3. G[p] = Ink(t, p) + G[y] /\ G[y] \in Nat /\ y # p
      BY <1>5, <1>10, <1>11, <3>1, <3>2
    <3> QED
      BY <1>9, <2>1, <2>2, <2>4, <3>3
  <2>5. CASE k # v /\ k # p
    <3>1. G[k] = H[k] /\ Ink(u, k) = Ink(t, k) /\ y # v /\ Ink(t, k) \in {0, 1}
      BY <1>1, <1>2, <1>6, <1>13, <2>1, <2>5 DEF Ink
    <3>2. H[k] = Ink(t, k) + H[y] + Missing(k, f, p, d) /\ Missing(k, f, p, d) = 0
      BY <1>4, <1>8, <2>1, <2>5
    <3>3. H[k] = Ink(t, k) + H[y] /\ H[y] \in Nat
      BY <1>4, <3>1, <3>2
    <3>4. CASE y = p
      <4>1. G[y] + 1 = H[y] /\ G[y] \in Nat
        BY <1>11, <1>12, <1>13, <3>4
      <4> QED
        BY <2>1, <2>2, <3>1, <3>3, <3>4, <4>1
    <3>5. CASE y # p
      BY <1>13, <2>1, <2>2, <3>1, <3>3, <3>5
    <3> QED
      BY <3>4, <3>5
  <2> QED
    BY <2>3, <2>4, <2>5
<1>15. Heights(u, N, G, t.parent[p], s)
  BY <1>13, <1>14 DEF Heights
<1>16. u.black[Nil] /\ u.black[u.root]
  <2>1. t.root # v
    <3>1. \A k \in Key, f \in Dir : t.child[f][k] # t.root
      BY RootSlot
    <3> QED
      BY <1>3, <1>5, <3>1
  <2> QED
    BY <1>1, <1>2, <1>4, <1>5, <2>1
<1>17. ASSUME NEW k \in N, NEW f \in Dir, ~u.black[k], ~u.black[u.child[f][k]]
       PROVE  u.child[f][k] = p \/ k = p
  <2>1. PICK y \in Node : y = t.child[f][k] /\ u.child[f][k] = y
    BY <1>1, <1>2
  <2>2. CASE k = v
    <3>1. t.black[y] /\ y # v
      BY <1>5, <2>1, <2>2
    <3> QED
      BY <1>17, <2>1, <3>1
  <2>3. CASE k # v /\ k # p
    <3>1. y # v /\ ~t.black[k] /\ ~t.black[y]
      BY <1>1, <1>2, <1>6, <1>17, <2>1, <2>3
    <3> QED
      BY <1>4, <2>1, <3>1
  <2> QED
    BY <2>2, <2>3
<1>18. Reds(u, N, p, p)
  BY <1>16, <1>17 DEF Reds
<1> QED
  BY <1>15, <1>18

(* Where no path is short, the direction does not matter. *)
LEMMA HeightsAnywhere ==
    ASSUME NEW t, NEW N, N \subseteq Key, NEW H, NEW d, NEW e, Heights(t, N, H, Nil, d)
    PROVE  Heights(t, N, H, Nil, e)
<1>1. \A k \in N, f \in Dir : Missing(k, f, Nil, d) = 0 /\ Missing(k, f, Nil, e) = 0
  BY TreeAssumption DEF Missing
<1> QED
  BY <1>1 DEF Heights

(* What the loops keep: nothing red under red and no path short, but at c. *)
Idle(t, N) == Reds(t, N, Nil, Nil) /\ \E H : Heights(t, N, H, Nil, "left")

Inserting(t, N, c) ==
    c \in N /\ ~t.black[c] /\ Reds(t, N, c, Nil) /\ \E H : Heights(t, N, H, Nil, "left")

Deleting(t, N, c) ==
    /\ c \in N \cup {Nil} /\ Reds(t, N, c, c)
    /\ c = t.root => \E H : Heights(t, N, H, Nil, "left")
    /\ c # t.root => /\ t.parent[c] \in N
                     /\ \E H : \E s \in Dir :
                          t.child[s][t.parent[c]] = c /\ Heights(t, N, H, t.parent[c], s)

-----------------------------------------------------------------------------
(* The loop of rebalance_insert *)

(* The last rotation: n and its parent p hang on the same side d. *)
LEMMA LiftStep ==
    ASSUME NEW t, NEW N, NEW D, Shape(t, N, D), NEW n, Inserting(t, N, n), NEW d \in Dir,
           NEW p \in N, NEW g \in N, t.parent[n] = p, t.parent[p] = g,
           t.child[d][p] = n, t.child[d][g] = p, ~t.black[p], t.black[g],
           t.black[t.child[Other(d)][g]], NEW u, u = LiftParent(t, n, d)
    PROVE  (\E E : Shape(u, N, E)) /\ Inserting(u, N, n)
<1>1. t \in TreeRecord /\ N \subseteq Key
  BY DEF Shape
<1>2. /\ Node = Key \cup {Nil} /\ Nil \notin Key
      /\ \A k \in Node : t.black[k] \in BOOLEAN
  BY <1>1, TreeTypes
<1>3. PICK o \in Dir : o = Other(d) /\ o # d /\ Other(o) = d
  BY SideFacts
<1>4. PICK m \in Node : m = t.child[o][p]
  BY <1>1, <1>3, TreeTypes
<1>5. n \in N /\ ~t.black[n] /\ Reds(t, N, n, Nil)
  BY DEF Inserting
<1>6. PICK H : Heights(t, N, H, Nil, "left")
  BY DEF Inserting
<1>7. p # Nil /\ n # p /\ n # g /\ p # g /\ m # n
  <2>1. n \in Key /\ p \in Key /\ g \in Key /\ p # Nil
    BY <1>1, <1>2, <1>5
  <2>2. n # p /\ p # g
    <3>1. p \notin D[t.child[d][p]] /\ g \notin D[t.child[d][g]] /\ n \in D[n] /\ p \in D[p]
      BY <2>1, Children
    <3> QED
      BY <3>1
  <2>3. m # n
    BY <1>3, <1>4, <1>5, <2>1, OnlySlot
  <2>4. n # g
    BY <1>5
  <2> QED
    BY <2>1, <2>2, <2>3, <2>4
<1>8. t.black[m]
  <2>1. ~t.black[t.child[o][p]] => t.child[o][p] = n \/ p = Nil
    BY <1>3, <1>5 DEF Reds
  <2> QED
    BY <1>4, <1>7, <2>1
<1>9. PICK q : q = Paint(Paint(t, p, TRUE), g, FALSE)
  OBVIOUS
<1>10. /\ Repainted(t, q) /\ q.black[p] = TRUE /\ q.black[g] = FALSE
       /\ \A x \in Node : x # p /\ x # g => q.black[x] = t.black[x]
  <2>1. p \in Node /\ g \in Node
    BY <1>1, <1>2
  <2>2. TwoPainted(t, q, p, TRUE, g, FALSE)
    BY <1>1, <1>7, <1>9, <2>1, PaintBlackRed
  <2> QED
    BY <2>2 DEF TwoPainted
<1>11. u = Rotate(q, g, o)
  BY <1>3, <1>9 DEF LiftParent
<1>12. p = t.child[Other(o)][g] /\ m = t.child[o][p]
  BY <1>3, <1>4
<1>13. /\ u \in TreeRecord /\ Rotated(t, u, g, p, m, o) /\ u.black = q.black
       /\ Shape(u, N, RotatedBelow(t, D, g, p, m, o))
  <2>1. q \in TreeRecord /\ q.root = t.root /\ q.child = t.child /\ q.parent = t.parent
    BY <1>10 DEF Repainted
  <2>2. Shape(t, N, D) /\ p # Nil /\ o \in Dir /\ g \in N
    BY <1>1, <1>3, <1>7
  <2> QED
    BY <1>11, <1>12, <2>1, <2>2, RotateRepainted
<1>14. Exchanged(t, u, g, p)
  <2>1. t.black[p] = FALSE /\ t.black[g] = TRUE
    BY <1>1, <1>2
  <2> QED
    BY <1>10, <1>13, <2>1 DEF Exchanged
<1>15. \E G : Heights(u, N, G, Nil, "left")
  <2>1. Nil # p /\ Nil # g
    BY <1>1, <1>2
  <2>2. Heights(u, N, [H EXCEPT ![g] = H[p], ![p] = H[g]], Nil, "left")
    BY <1>6, <1>7, <1>12, <1>13, <1>14, <2>1, RotateHeights
  <2> QED
    BY <2>2
<1>16. Reds(u, N, n, Nil)
  BY <1>3, <1>5, <1>7, <1>8, <1>12, <1>13, <1>14, RotateReds
<1>17. ~u.black[n]
  BY <1>1, <1>2, <1>5, <1>7, <1>10, <1>13
<1> QED
  BY <1>5, <1>13, <1>15, <1>16, <1>17 DEF Inserting

(* What an iteration of rebalance_insert calls p, g and d. *)
InsertAt(t, n, p, g, d) ==
    /\ p = t.parent[n] /\ g = t.parent[p]
    /\ d = IF p = t.child["right"][g] THEN "right" ELSE "left"

(* Around the node n of rebalance_insert. *)
LEMMA InsertAround ==
    ASSUME NEW t, NEW N, NEW D, Shape(t, N, D), NEW n, Inserting(t, N, n), n # t.root,
           NEW p, NEW g, NEW d, InsertAt(t, n, p, g, d), ~t.black[p]
    PROVE  /\ d \in Dir /\ p \in N /\ g \in N /\ t.child[d][g] = p /\ t.black[g]
           /\ t.child[d][p] = n \/ t.child[Other(d)][p] = n
           /\ n \in N /\ n # p /\ n # g /\ p # g
<1>1. t \in TreeRecord /\ N \subseteq Key /\ Nil \notin Key
  BY TreeAssumption DEF Shape
<1>2. n \in N /\ ~t.black[n] /\ Reds(t, N, n, Nil)
  BY DEF Inserting
<1>0. /\ p = t.parent[n] /\ g = t.parent[p]
      /\ d = IF p = t.child["right"][g] THEN "right" ELSE "left"
  BY DEF InsertAt
<1>3. p \in N /\ \E e \in Dir : t.child[e][p] = n
  BY <1>0, <1>2, Slot
<1>4. n # p
  <2>1. PICK e \in Dir : t.child[e][p] = n
    BY <1>3
  <2>2. p \in Key /\ n \in Key
    BY <1>1, <1>2, <1>3
  <2>3. p \notin D[t.child[e][p]]
    BY <2>2, Children
  <2>4. n \in D[n]
    BY <2>2, Children
  <2> QED
    BY <2>1, <2>3, <2>4
<1>5. p # t.root
  <2>1. t.black[t.root] \/ t.root = n
    BY <1>2 DEF Reds
  <2> QED
    BY <2>1
<1>6. g \in N /\ \E e \in Dir : t.child[e][g] = p
  BY <1>0, <1>3, <1>5, Slot
<1>7. d \in Dir /\ t.child[d][g] = p
  BY <1>0, <1>6 DEF Dir
<1>8. t.black[g]
  <2>1. ~t.black[g] /\ ~t.black[t.child[d][g]] => t.child[d][g] = n \/ g = Nil
    BY <1>2, <1>6, <1>7 DEF Reds
  <2> QED
    BY <1>1, <1>4, <1>6, <1>7, <2>1
<1>9. t.child[d][p] = n \/ t.child[Other(d)][p] = n
  BY <1>3, <1>7, SideFacts
<1> QED
  BY <1>2, <1>3, <1>4, <1>6, <1>7, <1>8, <1>9

(* The first rotation brings the inner child n above its parent p. *)
LEMMA StraightenStep ==
    ASSUME NEW t, NEW N, NEW D, Shape(t, N, D), NEW n, Inserting(t, N, n), NEW d \in Dir,
           NEW p \in N, NEW g \in N, t.parent[n] = p, t.parent[p] = g,
           t.child[Other(d)][p] = n, t.child[d][g] = p, ~t.black[p], t.black[g],
           t.black[t.child[Other(d)][g]], n # p, n # g, p # g, NEW u, u = Rotate(t, p, d)
    PROVE  /\ \E E : Shape(u, N, E)
           /\ Inserting(u, N, p) /\ u.parent[p] = n /\ u.parent[n] = g
           /\ u.child[d][n] = p /\ u.child[d][g] = n /\ ~u.black[n] /\ u.black[g]
           /\ u.black[u.child[Other(d)][g]]
<1>1. t \in TreeRecord /\ N \subseteq Key
  BY DEF Shape
<1>2. /\ Node = Key \cup {Nil} /\ Nil \notin Key
      /\ \A k \in Node : t.black[k] \in BOOLEAN
      /\ \A f \in Dir, k \in Key : t.child[f][k] \in Node
  BY <1>1, TreeTypes
<1>3. PICK o \in Dir : o = Other(d) /\ o # d /\ Other(o) = d
  BY SideFacts
<1>4. PICK m : m = t.child[d][n]
  OBVIOUS
<1>5. n \in N /\ ~t.black[n] /\ Reds(t, N, n, Nil) /\ n # Nil /\ p # Nil
  BY <1>1, <1>2 DEF Inserting
<1>6. PICK H : Heights(t, N, H, Nil, "left")
  BY DEF Inserting
<1>7. n = t.child[Other(d)][p] /\ t.root = t.root /\ t.child = t.child /\ t.parent = t.parent
  OBVIOUS
<1>8. /\ u \in TreeRecord /\ Rotated(t, u, p, n, m, d) /\ u.black = t.black
      /\ Shape(u, N, RotatedBelow(t, D, p, n, m, d))
  BY <1>1, <1>4, <1>5, <1>7, RotateRepainted
<1>9. Exchanged(t, u, p, n)
  <2>1. t.black[p] = FALSE /\ t.black[n] = FALSE
    BY <1>1, <1>2, <1>5
  <2> QED
    BY <1>8, <2>1 DEF Exchanged
<1>10. \E G : Heights(u, N, G, Nil, "left")
  <2>1. Nil # p /\ Nil # n
    BY <1>5
  <2>2. Heights(u, N, [H EXCEPT ![p] = H[n], ![n] = H[p]], Nil, "left")
    BY <1>4, <1>5, <1>6, <1>7, <1>8, <1>9, <2>1, RotateHeights
  <2> QED
    BY <2>2
<1>11. ASSUME NEW k \in N, NEW f \in Dir, ~t.black[k], t.child[f][k] # n
       PROVE  t.black[t.child[f][k]]
  BY <1>1, <1>2, <1>5, <1>11 DEF Reds
<1>12. t.black[t.child[d][p]] /\ t.black[m] /\ t.black[t.child[o][n]]
  <2>1. t.child[d][p] # n
    BY <1>1, <1>3, <1>5, <1>7, OnlySlot
  <2>2. m # n /\ t.child[o][n] # n
    BY <1>3, <1>4, <1>5, <1>7, RotateNodes
  <2> QED
    BY <1>3, <1>4, <1>5, <1>11, <2>1, <2>2
<1>13. Reds(u, N, p, Nil)
  <2>1. Reds(u, N, IF t.black[p] THEN n ELSE p, Nil)
    BY <1>3, <1>4, <1>5, <1>7, <1>8, <1>9, <1>12, RotateReds
  <2> QED
    BY <2>1
<1>14. Inserting(u, N, p)
  BY <1>8, <1>10, <1>13 DEF Inserting
<1>15. /\ u.parent[p] = n /\ u.parent[n] = g /\ u.child[d][n] = p
       /\ \A k \in Key, f \in Dir : k # p /\ k # n =>
            u.child[f][k] = IF t.child[f][k] = p THEN n ELSE t.child[f][k]
  BY <1>8 DEF Rotated
<1>16. t.child[o][g] # p
  BY <1>1, <1>3, OnlySlot
<1>17. u.child[d][g] = n /\ u.child[o][g] = t.child[o][g]
  BY <1>1, <1>15, <1>16
<1> QED
  BY <1>3, <1>5, <1>8, <1>14, <1>15, <1>17

(* One iteration of rebalance_insert. *)
LEMMA InsertStep ==
    ASSUME Inserting(tree, nodes, cur), NEW D, Shape(tree, nodes, D), RebalanceInsert
    PROVE  (\E E : Shape(tree', nodes, E)) /\ Inserting(tree', nodes, cur')
<1>1. PICK t, n, u : t = tree /\ n = cur /\ u = tree'
  OBVIOUS
<1>2. PICK p : p = t.parent[n]
  OBVIOUS
<1>3. PICK g : g = t.parent[p]
  OBVIOUS
<1>4. PICK d : d = IF p = t.child["right"][g] THEN "right" ELSE "left"
  OBVIOUS
<1>5. PICK w : w = t.child[Other(d)][g]
  OBVIOUS
<1>6. /\ n # t.root /\ ~t.black[p]
      /\ ~t.black[w] => u = Paint(Paint(Paint(t, w, TRUE), p, TRUE), g, FALSE) /\ cur' = g
      /\ t.black[w] /\ n = t.child[Other(d)][p] => u = LiftParent(Rotate(t, p, d), p, d) /\ cur' = p
      /\ t.black[w] /\ n # t.child[Other(d)][p] => u = LiftParent(t, n, d) /\ cur' = n
  BY <1>1, <1>2, <1>3, <1>4, <1>5 DEF RebalanceInsert
<1>7. Inserting(t, nodes, n) /\ Shape(t, nodes, D)
  BY <1>1
<1>8. /\ d \in Dir /\ p \in nodes /\ g \in nodes /\ t.child[d][g] = p /\ t.black[g]
      /\ t.child[d][p] = n \/ t.child[Other(d)][p] = n
      /\ n \in nodes /\ n # p /\ n # g /\ p # g
  <2>1. n # t.root /\ ~t.black[p]
    BY <1>6
  <2>2. InsertAt(t, n, p, g, d)
    BY <1>2, <1>3, <1>4 DEF InsertAt
  <2> QED
    BY <1>7, <2>1, <2>2, InsertAround
<1>9. CASE ~t.black[w]
  <2>1. t \in TreeRecord /\ nodes \subseteq Key /\ Other(d) \in Dir /\ Other(d) # d
    BY <1>7, <1>8, SideFacts DEF Shape
  <2>2. Reds(t, nodes, n, Nil) /\ t.black[Nil]
    BY <1>7 DEF Inserting, Reds
  <2>3. w \in nodes /\ w # p /\ w # g
    <3>1. w \in nodes \cup {Nil}
      BY <1>5, <1>7, <1>8, <2>1, NodeFacts
    <3>2. w # p
      BY <1>5, <1>7, <1>8, <2>1, OnlySlot
    <3> QED
      BY <1>8, <1>9, <2>2, <3>1, <3>2
  <2>4. PICK b \in BOOLEAN, e \in BOOLEAN : b = TRUE /\ e = FALSE
    OBVIOUS
  <2>5. u = Paint(Paint(Paint(t, w, b), p, b), g, e)
    BY <1>6, <1>9, <2>4
  <2>6. w \in Node /\ p \in Node /\ g \in Node
    BY <1>8, <2>1, <2>3 DEF Node
  <2>7. /\ Repainted(t, u) /\ u.black[w] = b /\ u.black[p] = b /\ u.black[g] = e
        /\ \A x \in Node : x # w /\ x # p /\ x # g => u.black[x] = t.black[x]
    BY <1>8, <2>1, <2>3, <2>5, <2>6, PaintThree
  <2>8. PICK H : Heights(t, nodes, H, Nil, "left")
    BY <1>7 DEF Inserting
  <2>9. Heights(t, nodes, H, Nil, d)
    BY <2>1, <2>8, HeightsAnywhere
  <2>10. /\ Heights(u, nodes, [H EXCEPT ![p] = H[p] + 1, ![w] = H[w] + 1], Nil, d)
         /\ Reds(u, nodes, g, Nil)
    <3>1. /\ u.black[p] /\ u.black[w] /\ ~u.black[g] /\ Repainted(t, u)
          /\ \A y \in Node : y \notin {p, w, g} => u.black[y] = t.black[y]
      BY <2>4, <2>7
    <3>2. t.parent[n] = p /\ p = t.child[d][g]
      BY <1>2, <1>8
    <3> QED
      BY <1>5, <1>6, <1>7, <1>8, <1>9, <2>2, <2>9, <3>1, <3>2, RepaintInsert
  <2>11. Heights(u, nodes, [H EXCEPT ![p] = H[p] + 1, ![w] = H[w] + 1], Nil, "left")
    BY <2>1, <2>10, HeightsAnywhere
  <2>12. Shape(u, nodes, D)
    BY <1>7, <2>7, SameLinks DEF Repainted
  <2>13. Inserting(u, nodes, g)
    BY <1>8, <2>4, <2>7, <2>10, <2>11 DEF Inserting
  <2> QED
    BY <1>1, <1>6, <1>9, <2>12, <2>13
<1>10. CASE t.black[w] /\ n # t.child[Other(d)][p]
  <2>1. t.child[d][p] = n /\ u = LiftParent(t, n, d)
    BY <1>6, <1>8, <1>10
  <2>2. (\E E : Shape(u, nodes, E)) /\ Inserting(u, nodes, n)
    BY <1>2, <1>3, <1>5, <1>6, <1>7, <1>8, <1>10, <2>1, LiftStep
  <2> QED
    BY <1>1, <1>6, <1>10, <2>2
<1>11. CASE t.black[w] /\ n = t.child[Other(d)][p]
  <2>1. PICK s : s = Rotate(t, p, d)
    OBVIOUS
  <2>2. /\ \E E : Shape(s, nodes, E)
        /\ Inserting(s, nodes, p) /\ s.parent[p] = n /\ s.parent[n] = g
        /\ s.child[d][n] = p /\ s.child[d][g] = n /\ ~s.black[n] /\ s.black[g]
        /\ s.black[s.child[Other(d)][g]]
    <3>1. /\ t.parent[n] = p /\ t.parent[p] = g /\ t.child[Other(d)][p] = n
          /\ t.black[t.child[Other(d)][g]] /\ ~t.black[p]
      BY <1>2, <1>3, <1>5, <1>6, <1>11
    <3> QED
      BY <1>7, <1>8, <2>1, <3>1, StraightenStep
  <2>3. u = LiftParent(s, p, d)
    BY <1>6, <1>11, <2>1
  <2>4. (\E E : Shape(u, nodes, E)) /\ Inserting(u, nodes, p)
    BY <1>8, <2>2, <2>3, LiftStep
  <2> QED
    BY <1>1, <1>6, <1>11, <2>4
<1> QED
  BY <1>9, <1>10, <1>11

-----------------------------------------------------------------------------
(* The loop of rebalance_delete *)

(* A black node is missing under p's child d and nowhere else; that child   *)
(* has a sibling.                                                           *)
ShortAt(t, N, p, d) ==
    /\ p \in N /\ t.child[Other(d)][p] \in N
    /\ Reds(t, N, Nil, Nil)
    /\ \E D : Shape(t, N, D)
    /\ \E H : Heights(t, N, H, p, d)

(* Where nothing red is under red, no red node has a red child. *)
LEMMA NoReds ==
    ASSUME NEW t \in TreeRecord, NEW N, N \subseteq Key, Reds(t, N, Nil, Nil)
    PROVE  /\ t.black[Nil] /\ t.black[t.root]
           /\ \A k \in N, f \in Dir : ~t.black[k] => t.black[t.child[f][k]]
<1>1. Nil \notin N
  BY TreeAssumption
<1> QED
  BY <1>1 DEF Reds

(* Around the node n of rebalance_delete. *)
LEMMA DeleteAround ==
    ASSUME NEW t, NEW N, NEW D, Shape(t, N, D), NEW n, Deleting(t, N, n), n # t.root, t.black[n],
           NEW p, p = t.parent[n],
           NEW d, d = IF n = t.child["left"][p] THEN "left" ELSE "right"
    PROVE  d \in Dir /\ ShortAt(t, N, p, d) /\ t.child[d][p] = n
<1>1. t \in TreeRecord /\ N \subseteq Key /\ Nil \notin Key
  BY TreeAssumption DEF Shape
<1>2. p \in N /\ Reds(t, N, n, n)
  BY DEF Deleting
<1>11. PICK H : \E s \in Dir : t.child[s][p] = n /\ Heights(t, N, H, p, s)
  BY DEF Deleting
<1>3. PICK s \in Dir : t.child[s][p] = n /\ Heights(t, N, H, p, s)
  BY <1>11
<1>4. Reds(t, N, Nil, Nil)
  BY <1>2 DEF Reds
<1>5. PICK o \in Dir : o = Other(s) /\ o # s /\ Other(o) = s
  BY SideFacts
<1>6. p \in Key /\ n \in Node /\ t.child[o][p] \in Node
  BY <1>1, <1>2, <1>3, <1>5, TreeTypes
<1>7. t.child[o][p] # Nil
  <2>1. Missing(p, s, p, s) = 1 /\ Missing(p, o, p, s) = 0 /\ Ink(t, p) \in {0, 1}
    BY <1>5 DEF Missing, Ink
  <2>2. /\ H[p] = Ink(t, p) + H[n] + Missing(p, s, p, s)
        /\ H[p] = Ink(t, p) + H[t.child[o][p]] + Missing(p, o, p, s)
        /\ H[n] \in Nat /\ H[t.child[o][p]] \in Nat /\ H[Nil] = 0
    BY <1>2, <1>3, <1>6 DEF Heights
  <2>3. PICK w : w = t.child[o][p]
    OBVIOUS
  <2>4. H[w] = H[n] + 1
    BY <2>1, <2>2, <2>3
  <2> QED
    BY <2>2, <2>3, <2>4
<1>8. t.child[o][p] \in N
  <2>1. t.child[o][p] \in N \cup {Nil}
    BY <1>2, ChildNode
  <2> QED
    BY <1>7, <2>1
<1>9. t.child[o][p] # n
  <2>1. CASE n = Nil
    BY <1>7, <2>1
  <2>2. CASE n # Nil
    <3>1. n \in N
      BY <2>2 DEF Deleting
    <3> QED
      BY <1>3, <1>5, <1>6, <3>1, OnlySlot
  <2> QED
    BY <2>1, <2>2
<1>10. d = s
  BY <1>3, <1>5, <1>9 DEF Dir, Other
<1> QED
  BY <1>2, <1>3, <1>4, <1>5, <1>8, <1>10 DEF ShortAt

(* A red sibling is rotated away. *)
LEMMA BlackSiblingStep ==
    ASSUME NEW t, NEW N, NEW p, NEW d \in Dir, ShortAt(t, N, p, d), t.black[t.child[d][p]],
           NEW u, u = BlackSibling(t, p, d)
    PROVE  ShortAt(u, N, p, d) /\ u.black[u.child[Other(d)][p]]
<1>1. PICK D : Shape(t, N, D)
  BY DEF ShortAt
<1>2. PICK H : Heights(t, N, H, p, d)
  BY DEF ShortAt
<1>3. p \in N /\ Reds(t, N, Nil, Nil)
  BY DEF ShortAt
<1>4. PICK w \in N : w = t.child[Other(d)][p]
  BY DEF ShortAt
<1>5. CASE t.black[w]
  BY <1>4, <1>5 DEF BlackSibling
<1>6. CASE ~t.black[w]
  <2>1. t \in TreeRecord /\ N \subseteq Key
    BY <1>1 DEF Shape
  <2>2. /\ Node = Key \cup {Nil} /\ Nil \notin Key
        /\ \A k \in Node : t.black[k] \in BOOLEAN
        /\ \A f \in Dir, k \in Key : t.child[f][k] \in Node
    BY <2>1, TreeTypes
  <2>3. PICK o \in Dir : o = Other(d) /\ o # d /\ Other(o) = d
    BY SideFacts
  <2>4. PICK m \in Node : m = t.child[d][w]
    BY <2>1, <2>2
  <2>5. w # Nil /\ p # Nil /\ p \in Node /\ w \in Node
    BY <1>3, <2>1, <2>2
  <2>6. p # w /\ m # p /\ m # w
    BY <1>1, <1>3, <1>4, <2>4, <2>5, RotateNodes
  <2>7. /\ t.black[Nil]
        /\ \A k \in N, f \in Dir : ~t.black[k] => t.black[t.child[f][k]]
    BY <1>3, <2>1, NoReds
  <2>8. t.black[p] /\ t.black[m]
    BY <1>3, <1>4, <1>6, <2>3, <2>4, <2>7
  <2>9. PICK q : q = Paint(Paint(t, w, TRUE), p, FALSE)
    OBVIOUS
  <2>10. TwoPainted(t, q, w, TRUE, p, FALSE)
    BY <2>1, <2>5, <2>6, <2>9, PaintBlackRed
  <2>11. u = Rotate(q, p, d)
    BY <1>4, <1>6, <2>9 DEF BlackSibling
  <2>12. q \in TreeRecord /\ q.root = t.root /\ q.child = t.child /\ q.parent = t.parent
    BY <2>10 DEF TwoPainted, Repainted
  <2>13. /\ u \in TreeRecord /\ Rotated(t, u, p, w, m, d) /\ u.black = q.black
         /\ Shape(u, N, RotatedBelow(t, D, p, w, m, d))
    BY <1>1, <1>3, <1>4, <2>4, <2>5, <2>11, <2>12, RotateRepainted
  <2>14. Exchanged(t, u, p, w)
    <3>1. t.black[p] = TRUE /\ t.black[w] = FALSE
      BY <1>6, <2>2, <2>5, <2>8
    <3> QED
      BY <2>10, <2>13, <3>1 DEF TwoPainted, Exchanged
  <2>15. Heights(u, N, [H EXCEPT ![p] = H[w], ![w] = H[p]], p, d)
    BY <1>1, <1>2, <1>3, <1>4, <1>6, <2>4, <2>5, <2>6, <2>13, <2>14, RotateHeights
  <2>16. Reds(u, N, Nil, Nil)
    <3>1. Reds(u, N, IF t.black[p] THEN Nil ELSE p, Nil)
      BY <1>1, <1>3, <1>4, <1>6, <2>4, <2>5, <2>8, <2>13, <2>14, RotateReds
    <3> QED
      BY <2>8, <3>1
  <2>17. u.child[o][p] = m /\ u.black[m]
    <3>1. u.child[Other(d)][p] = m
      BY <2>13 DEF Rotated
    <3>2. u.black[m] = t.black[m]
      BY <2>6, <2>14 DEF Exchanged
    <3> QED
      BY <2>3, <2>8, <3>1, <3>2
  <2>18. m \in N
    <3>1. m # Nil
      <4>1. Missing(p, d, p, d) = 1 /\ Missing(p, o, p, d) = 0 /\ Missing(w, d, p, d) = 0
        BY <2>3, <2>6 DEF Missing
      <4>2. Ink(t, p) \in {0, 1} /\ Ink(t, w) = 0
        BY <1>6 DEF Ink
      <4>3. PICK a \in Node : a = t.child[d][p]
        BY <1>3, <2>1, <2>2
      <4>4. /\ H[p] = Ink(t, p) + H[a] + Missing(p, d, p, d)
            /\ H[p] = Ink(t, p) + H[w] + Missing(p, o, p, d)
            /\ H[w] = Ink(t, w) + H[m] + Missing(w, d, p, d)
            /\ H[a] \in Nat /\ H[w] \in Nat /\ H[m] \in Nat /\ H[Nil] = 0
        BY <1>2, <1>3, <1>4, <2>3, <2>4, <2>5, <4>3 DEF Heights
      <4>5. H[m] = H[a] + 1
        BY <4>1, <4>2, <4>4
      <4> QED
        BY <4>4, <4>5
    <3>2. t.child[d][w] \in N \cup {Nil}
      BY <1>1, ChildNode
    <3> QED
      BY <2>4, <3>1, <3>2
  <2> QED
    BY <1>3, <2>3, <2>13, <2>15, <2>16, <2>17, <2>18 DEF ShortAt
<1> QED
  BY <1>5, <1>6

(* The sibling is painted red and the loop goes up. *)
LEMMA RedSiblingStep ==
    ASSUME NEW t, NEW N, NEW p, NEW d \in Dir, ShortAt(t, N, p, d),
           NEW v, ChildIs(t, Other(d), p, v), t.black[v], \A f \in Dir : t.black[t.child[f][v]],
           NEW u, u = Paint(t, v, FALSE)
    PROVE  (\E D : Shape(u, N, D)) /\ Deleting(u, N, p)
<1>1. PICK D : Shape(t, N, D)
  BY DEF ShortAt
<1>2. PICK H : Heights(t, N, H, p, d)
  BY DEF ShortAt
<1>3. p \in N /\ v \in N /\ Reds(t, N, Nil, Nil)
  BY DEF ShortAt, ChildIs
<1>4. t \in TreeRecord /\ N \subseteq Key
  BY <1>1 DEF Shape
<1>5. v \in Node
  BY <1>3, <1>4 DEF Node
<1>6. PICK b \in BOOLEAN : b = FALSE
  OBVIOUS
<1>7. u = Paint(t, v, b)
  BY <1>6
<1>8. Painted(t, u, v, b)
  BY <1>4, <1>5, <1>7, PaintFacts
<1>9. Repainted(t, u) /\ ~u.black[v] /\ \A y \in Node : y # v => u.black[y] = t.black[y]
  BY <1>6, <1>8 DEF Painted
<1>10. PICK s \in Dir : p # t.root => t.child[s][t.parent[p]] = p
  BY <1>1, <1>3, Slot
<1>11. (\E G : Heights(u, N, G, t.parent[p], s)) /\ Reds(u, N, p, p)
  <2>1. PICK x : x = u
    OBVIOUS
  <2>2. Repainted(t, x) /\ ~x.black[v] /\ \A y \in Node : y # v => x.black[y] = t.black[y]
    BY <1>9, <2>1
  <2>3. (\E G : Heights(x, N, G, t.parent[p], s)) /\ Reds(x, N, p, p)
    BY <1>1, <1>2, <1>3, <1>10, <2>2, RepaintDelete
  <2> QED
    BY <2>1, <2>3
<1>12. u.root = t.root /\ u.child = t.child /\ u.parent = t.parent /\ u \in TreeRecord
  BY <1>9 DEF Repainted
<1>13. Shape(u, N, D)
  BY <1>1, <1>12, SameLinks
<1>14. CASE p = t.root
  <2>1. t.parent[p] = Nil
    BY <1>1, <1>3, <1>14, Slot
  <2>2. PICK G : Heights(u, N, G, Nil, s)
    BY <1>11, <2>1
  <2>3. Heights(u, N, G, Nil, "left")
    BY <1>4, <2>2, HeightsAnywhere
  <2> QED
    BY <1>3, <1>11, <1>12, <1>13, <1>14, <2>3 DEF Deleting
<1>15. CASE p # t.root
  <2>1. t.parent[p] \in N
    BY <1>1, <1>3, <1>15, Slot
  <2> QED
    BY <1>3, <1>10, <1>11, <1>12, <1>13, <1>15, <2>1 DEF Deleting
<1> QED
  BY <1>14, <1>15

(* A red inner child of the sibling is rotated to the outer side. *)
LEMMA RedOuterStep ==
    ASSUME NEW t, NEW N, NEW p, NEW d \in Dir, ShortAt(t, N, p, d),
           NEW v, ChildIs(t, Other(d), p, v), t.black[v], ~(\A f \in Dir : t.black[t.child[f][v]]),
           NEW u, u = RedOuter(t, v, d)
    PROVE  /\ ShortAt(u, N, p, d)
           /\ u.black[u.child[Other(d)][p]]
           /\ ~u.black[u.child[Other(d)][u.child[Other(d)][p]]]
<1>1. PICK D : Shape(t, N, D)
  BY DEF ShortAt
<1>2. PICK H : Heights(t, N, H, p, d)
  BY DEF ShortAt
<1>3. p \in N /\ v \in N /\ Reds(t, N, Nil, Nil)
  BY DEF ShortAt, ChildIs
<1>4. PICK o \in Dir : o = Other(d) /\ o # d /\ Other(o) = d /\ v = t.child[o][p]
  BY SideFacts DEF ChildIs
<1>5. CASE ~t.black[t.child[o][v]]
  <2>1. u = t
    BY <1>4, <1>5 DEF RedOuter
  <2> QED
    BY <1>4, <1>5, <2>1
<1>6. CASE t.black[t.child[o][v]]
  <2>1. t \in TreeRecord /\ N \subseteq Key
    BY <1>1 DEF Shape
  <2>2. /\ Node = Key \cup {Nil} /\ Nil \notin Key
        /\ \A k \in Node : t.black[k] \in BOOLEAN
        /\ \A f \in Dir, k \in Key : t.child[f][k] \in Node
    BY <2>1, TreeTypes
  <2>3. PICK i \in Node : i = t.child[d][v]
    BY <1>3, <2>1, <2>2
  <2>4. PICK m : m = t.child[o][i]
    OBVIOUS
  <2>5. /\ t.black[Nil]
        /\ \A k \in N, f \in Dir : ~t.black[k] => t.black[t.child[f][k]]
    BY <1>3, <2>1, NoReds
  <2>6. ~t.black[i]
    BY <1>4, <1>6, <2>3, SideFacts
  <2>7. i \in N /\ i # Nil /\ v # Nil /\ p # Nil /\ v \in Node
    <3>1. t.child[d][v] \in N \cup {Nil}
      BY <1>1, <1>3, ChildNode
    <3> QED
      BY <1>3, <2>1, <2>2, <2>3, <2>5, <2>6, <3>1
  <2>8. v # i /\ p # v /\ p # i
    <3>1. p \in Key /\ v \in Key /\ i \in Key
      BY <1>3, <2>1, <2>7
    <3>2. v \in D[v] /\ i \in D[i] /\ p \in D[p]
      BY <1>1, <3>1, Children
    <3>3. p \notin D[v]
      BY <1>1, <1>4, <3>1, Children
    <3>4. D[i] \subseteq D[v] /\ v \notin D[i]
      <4>1. \A k \in Key, f \in Dir : D[t.child[f][k]] \subseteq D[k] /\ k \notin D[t.child[f][k]]
        BY <1>1, Children
      <4> QED
        BY <2>3, <3>1, <4>1
    <3> QED
      BY <3>2, <3>3, <3>4
  <2>9. t.black[m]
    BY <2>4, <2>5, <2>6, <2>7
  <2>10. PICK q : q = Paint(Paint(t, i, TRUE), v, FALSE)
    OBVIOUS
  <2>11. TwoPainted(t, q, i, TRUE, v, FALSE)
    BY <2>1, <2>7, <2>8, <2>10, PaintBlackRed
  <2>12. u = Rotate(q, v, o)
    BY <1>4, <1>6, <2>3, <2>10 DEF RedOuter
  <2>13. q \in TreeRecord /\ q.root = t.root /\ q.child = t.child /\ q.parent = t.parent
    BY <2>11 DEF TwoPainted, Repainted
  <2>14. i = t.child[Other(o)][v]
    BY <1>4, <2>3
  <2>15. /\ u \in TreeRecord /\ Rotated(t, u, v, i, m, o) /\ u.black = q.black
         /\ Shape(u, N, RotatedBelow(t, D, v, i, m, o))
    BY <1>1, <1>3, <2>4, <2>7, <2>12, <2>13, <2>14, RotateRepainted
  <2>16. Exchanged(t, u, v, i)
    <3>1. t.black[v] = TRUE /\ t.black[i] = FALSE
      BY <2>2, <2>6, <2>7
    <3> QED
      BY <2>11, <2>15, <3>1 DEF TwoPainted, Exchanged
  <2>17. Heights(u, N, [H EXCEPT ![v] = H[i], ![i] = H[v]], p, d)
    BY <1>1, <1>2, <1>3, <2>4, <2>6, <2>7, <2>8, <2>14, <2>15, <2>16, RotateHeights
  <2>18. Reds(u, N, Nil, Nil)
    <3>1. Reds(u, N, IF t.black[v] THEN Nil ELSE v, Nil)
      BY <1>1, <1>3, <1>6, <2>4, <2>6, <2>7, <2>9, <2>14, <2>15, <2>16, RotateReds
    <3> QED
      BY <3>1
  <2>19. u.child[o][p] = i /\ u.child[o][i] = v
    <3>1. u.child[o][i] = v /\ u.child[o][p] = IF t.child[o][p] = v THEN i ELSE t.child[o][p]
      BY <1>3, <2>1, <2>8, <2>15 DEF Rotated
    <3> QED
      BY <1>4, <3>1
  <2>20. u.black[i] /\ ~u.black[v]
    BY <2>11, <2>15 DEF TwoPainted
  <2> QED
    BY <1>3, <1>4, <2>7, <2>15, <2>17, <2>18, <2>19, <2>20 DEF ShortAt
<1> QED
  BY <1>5, <1>6

(* The sibling takes p's place and the loop ends. *)
LEMMA LiftSiblingStep ==
    ASSUME NEW t, NEW N, NEW p, NEW d \in Dir, ShortAt(t, N, p, d),
           NEW x, ChildIs(t, Other(d), p, x), t.black[x],
           NEW b, ChildIs(t, Other(d), x, b), ~t.black[b],
           NEW u, u = LiftSibling(t, p, d)
    PROVE  (\E D : Shape(u, N, D)) /\ Deleting(u, N, u.root)
<1>1. PICK D : Shape(t, N, D)
  BY DEF ShortAt
<1>2. PICK H : Heights(t, N, H, p, d)
  BY DEF ShortAt
<1>3. p \in N /\ x \in N /\ Reds(t, N, Nil, Nil)
  BY DEF ShortAt, ChildIs
<1>4. t \in TreeRecord /\ N \subseteq Key
  BY <1>1 DEF Shape
<1>5. /\ Node = Key \cup {Nil} /\ Nil \notin Key
      /\ \A k \in Node : t.black[k] \in BOOLEAN
      /\ \A f \in Dir, k \in Key : t.child[f][k] \in Node
  BY <1>4, TreeTypes
<1>6. PICK o \in Dir : o = Other(d) /\ o # d /\ x = t.child[o][p] /\ b = t.child[o][x]
  BY SideFacts DEF ChildIs
<1>7. PICK m : m = t.child[d][x]
  OBVIOUS
<1>8. x # Nil /\ x \in Node /\ p \in Node /\ b \in Node
  BY <1>3, <1>4, <1>5, <1>6
<1>9. p # x /\ b # p /\ b # x
  BY <1>1, <1>3, <1>6, <1>7, <1>8, RotateNodes
<1>10. PICK q : q = Paint(Paint(Paint(t, x, t.black[p]), p, TRUE), b, TRUE)
  OBVIOUS
<1>11. PICK e \in BOOLEAN, f \in BOOLEAN : e = t.black[p] /\ f = TRUE
  BY <1>5, <1>8
<1>12. q = Paint(Paint(Paint(t, x, e), p, f), b, f)
  BY <1>10, <1>11
<1>13. /\ Repainted(t, q) /\ q.black[x] = e /\ q.black[p] = f /\ q.black[b] = f
       /\ \A y \in Node : y # x /\ y # p /\ y # b => q.black[y] = t.black[y]
  BY <1>4, <1>8, <1>9, <1>12, PaintThree
<1>14. u = Rotate(q, p, d)
  BY <1>6, <1>10 DEF LiftSibling
<1>15. q \in TreeRecord /\ q.root = t.root /\ q.child = t.child /\ q.parent = t.parent
  BY <1>13 DEF Repainted
<1>16. /\ u \in TreeRecord /\ Rotated(t, u, p, x, m, d) /\ u.black = q.black
       /\ Shape(u, N, RotatedBelow(t, D, p, x, m, d))
  BY <1>1, <1>3, <1>6, <1>7, <1>8, <1>14, <1>15, RotateRepainted
<1>17. /\ u.black[p] /\ u.black[x] = t.black[p] /\ u.black[b]
       /\ \A y \in Node : y \notin {p, x, b} => u.black[y] = t.black[y]
  BY <1>11, <1>13, <1>16
<1>18. (\E G : Heights(u, N, G, Nil, d)) /\ Reds(u, N, Nil, Nil)
  BY <1>1, <1>2, <1>3, <1>7, <1>8, <1>16, <1>17, RotateRaises
<1>19. PICK G : Heights(u, N, G, Nil, "left")
  BY <1>4, <1>18, HeightsAnywhere
<1>20. u.root \in N
  BY <1>3, <1>16, NodeFacts
<1>21. Reds(u, N, u.root, u.root)
  BY <1>4, <1>5, <1>16, <1>18, NoReds DEF Reds
<1> QED
  BY <1>16, <1>19, <1>20, <1>21 DEF Deleting

(* One iteration of rebalance_delete. *)
LEMMA DeleteStep ==
    ASSUME Deleting(tree, nodes, cur), NEW D, Shape(tree, nodes, D), RebalanceDelete
    PROVE  (\E E : Shape(tree', nodes, E)) /\ Deleting(tree', nodes, cur')
<1>1. PICK t, n : t = tree /\ n = cur
  OBVIOUS
<1>2. PICK p : p = t.parent[n]
  OBVIOUS
<1>3. PICK d : d = IF n = t.child["left"][p] THEN "left" ELSE "right"
  OBVIOUS
<1>4. PICK s : s = BlackSibling(t, p, d)
  OBVIOUS
<1>5. PICK v : v = s.child[Other(d)][p]
  OBVIOUS
<1>6. PICK r : r = RedOuter(s, v, d)
  OBVIOUS
<1>7. PICK l : l = LiftSibling(r, p, d)
  OBVIOUS
<1>8. /\ n # t.root /\ t.black[n]
      /\ s.black[s.child["left"][v]] /\ s.black[s.child["right"][v]] =>
            tree' = Paint(s, v, FALSE) /\ cur' = p
      /\ ~(s.black[s.child["left"][v]] /\ s.black[s.child["right"][v]]) =>
            tree' = l /\ cur' = l.root
  BY <1>1, <1>2, <1>3, <1>4, <1>5, <1>6, <1>7 DEF RebalanceDelete, AfterRotation
<1>9. d \in Dir /\ ShortAt(t, nodes, p, d) /\ t.child[d][p] = n
  BY <1>1, <1>2, <1>3, <1>8, DeleteAround
<1>10. ShortAt(s, nodes, p, d) /\ s.black[v]
  BY <1>4, <1>5, <1>8, <1>9, BlackSiblingStep
<1>11. CASE s.black[s.child["left"][v]] /\ s.black[s.child["right"][v]]
  <2>1. \A f \in Dir : s.black[s.child[f][v]]
    BY <1>11 DEF Dir
  <2>2. ChildIs(s, Other(d), p, v)
    BY <1>5 DEF ChildIs
  <2>3. PICK u : u = Paint(s, v, FALSE)
    OBVIOUS
  <2>4. (\E E : Shape(u, nodes, E)) /\ Deleting(u, nodes, p)
    BY <1>9, <1>10, <2>1, <2>2, <2>3, RedSiblingStep
  <2> QED
    BY <1>8, <1>11, <2>3, <2>4
<1>12. CASE ~(s.black[s.child["left"][v]] /\ s.black[s.child["right"][v]])
  <2>1. ~(\A f \in Dir : s.black[s.child[f][v]])
    BY <1>12 DEF Dir
  <2>2. /\ ShortAt(r, nodes, p, d) /\ r.black[r.child[Other(d)][p]]
        /\ ~r.black[r.child[Other(d)][r.child[Other(d)][p]]]
    <3>1. ChildIs(s, Other(d), p, v)
      BY <1>5 DEF ChildIs
    <3> QED
      BY <1>6, <1>9, <1>10, <2>1, <3>1, RedOuterStep
  <2>3. (\E E : Shape(l, nodes, E)) /\ Deleting(l, nodes, l.root)
    <3>1. PICK x, b : ChildIs(r, Other(d), p, x) /\ ChildIs(r, Other(d), x, b)
      BY DEF ChildIs
    <3>2. r.black[x] /\ ~r.black[b]
      BY <2>2, <3>1 DEF ChildIs
    <3> QED
      BY <1>7, <1>9, <2>2, <3>1, <3>2, LiftSiblingStep
  <2> QED
    BY <1>8, <1>12, <2>3
<1> QED
  BY <1>11, <1>12
=============================================================================
