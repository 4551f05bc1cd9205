---------------------------- MODULE RBTreeProofs ----------------------------
(***************************************************************************)
(* Proofs about RBTree, on top of RBTreeSurgery: the walks, insert, remove *)
(* and clear as a whole, the invariant of the tree, and its theorems.      *)
(***************************************************************************)
EXTENDS RBTreeSurgery

-----------------------------------------------------------------------------
(* Walks down *)

(* The way to k leads into the child on k's side. *)
LEMMA Descend ==
    ASSUME NEW t, NEW N, NEW D, Shape(t, N, D), NEW n \in Key, NEW k \in Key, k # n
    PROVE  Toward(k, n) \in Dir /\ (k \in D[n] <=> k \in D[t.child[Toward(k, n)][n]])
<1>1. k \in Int /\ n \in Int
  BY TreeAssumption
<1>2. PICK d \in Dir : d = Toward(k, n)
  BY <1>1, SideFacts
<1>3. PICK o \in Dir : o = Other(d)
  BY SideFacts
<1>4. D[n] = {n} \cup D[t.child[d][n]] \cup D[t.child[o][n]]
  BY <1>3, Children
<1>5. \A x \in D[t.child[o][n]] : OnSide(o, x, n)
  BY DEF Shape
<1>6. OnSide(d, k, n) /\ ~OnSide(o, k, n)
  BY <1>1, <1>2, <1>3, SideFacts
<1> QED
  BY <1>2, <1>4, <1>5, <1>6

(* search_tree finds the nodes and nothing else. *)
LEMMA SearchTreeFinds ==
    ASSUME NEW D, Shape(tree, nodes, D), NEW k \in Key
    PROVE  SearchTree(k) = IF k \in nodes THEN k ELSE Nil
<1> DEFINE F(f) == [n \in Node |-> IF n \in {Nil, k} THEN n ELSE f[tree.child[Toward(k, n)][n]]]
           at == CHOOSE f : f = [n \in Node |-> IF n \in {Nil, k} THEN n
                                                ELSE f[tree.child[Toward(k, n)][n]]]
           sol == [n \in Node |-> IF k \in D[n] THEN k ELSE Nil]
<1>1. /\ Node = Key \cup {Nil} /\ Nil \notin Key /\ tree.root \in Node /\ D[Nil] = {} /\ D[tree.root] = nodes
      /\ \A d \in Dir, n \in Key : tree.child[d][n] \in Node
  BY TreeTypes DEF Shape
<1>2. \A n \in Key : n # k => /\ tree.child[Toward(k, n)][n] \in Node
                              /\ k \in D[n] <=> k \in D[tree.child[Toward(k, n)][n]]
  BY <1>1, Descend
<1>3. k \in D[k]
  BY Children
<1>4. \A n \in Node : sol[n] = IF n \in {Nil, k} THEN n ELSE sol[tree.child[Toward(k, n)][n]]
  BY <1>1, <1>2, <1>3
<1>5. \E f : f = [n \in Node |-> IF n \in {Nil, k} THEN n ELSE f[tree.child[Toward(k, n)][n]]]
  <2>1. PICK s : s = sol
    OBVIOUS
  <2>2. s = [n \in Node |-> IF n \in {Nil, k} THEN n ELSE s[tree.child[Toward(k, n)][n]]]
    BY <1>4, <2>1
  <2> QED
    BY <2>2
<1>6. at = [n \in Node |-> IF n \in {Nil, k} THEN n ELSE at[tree.child[Toward(k, n)][n]]]
  BY <1>5, Zenon
<1>7. SearchTree(k) = at[tree.root]
  BY Zenon DEF SearchTree
<1> HIDE DEF at
<1>8. \A n \in Node : at[n] = IF n \in {Nil, k} THEN n ELSE at[tree.child[Toward(k, n)][n]]
  BY <1>6
<1> DEFINE Bad == {n \in Key : at[n] # sol[n]}
<1>9. ASSUME Bad # {}
      PROVE  FALSE
  <2>1. PICK n \in Bad : \A d \in Dir : tree.child[d][n] \notin Bad
    BY <1>9, Lowest
  <2>2. n \in Key /\ at[n] # sol[n]
    BY <2>1
  <2>3. n # k
    BY <1>1, <1>3, <1>8, <2>2
  <2>4. PICK c \in Node : c = tree.child[Toward(k, n)][n] /\ c \notin Bad
    BY <1>1, <1>2, <2>1, <2>2, <2>3, Descend
  <2>5. at[n] = at[c] /\ sol[n] = sol[c]
    BY <1>1, <1>4, <1>8, <2>2, <2>3, <2>4
  <2>6. at[c] = sol[c]
    BY <1>1, <1>4, <1>8, <2>4
  <2> QED
    BY <2>2, <2>5, <2>6
<1>10. at[tree.root] = sol[tree.root]
  <2>1. at[Nil] = Nil /\ sol[Nil] = Nil
    BY <1>1, <1>8
  <2> QED
    BY <1>1, <1>9, <2>1
<1> QED
  BY <1>1, <1>7, <1>10

(* The node at the end of a walk from n that takes the child T[z] at z. *)
Ends(t, D, T, n, p) ==
    /\ p \in D[n] /\ t.child[T[p]][p] = Nil
    /\ \A z \in D[n] : p \in D[z] /\ z # p => p \in D[t.child[T[z]][z]]

LEMMA EndsStep ==
    ASSUME NEW t, NEW N, NEW D, Shape(t, N, D), NEW T \in [Key -> Dir], NEW n \in Key,
           NEW c, c = t.child[T[n]][n], NEW p
    PROVE  /\ c = Nil => (Ends(t, D, T, n, p) <=> p = n)
           /\ c # Nil => c \in Key /\ (Ends(t, D, T, n, p) <=> Ends(t, D, T, c, p))
<1>1. PICK d \in Dir : d = T[n]
  OBVIOUS
<1>2. PICK b : b = t.child[Other(d)][n]
  OBVIOUS
<1>3. /\ n \in D[n] /\ D[n] \subseteq Key /\ c \in Node /\ n \notin D[c] /\ D[c] \subseteq D[n]
      /\ c # Nil => c \in Key
      /\ D[n] = {n} \cup D[c] \cup D[b] /\ D[c] \cap D[b] = {}
  BY <1>1, <1>2, Children
<1>4. D[Nil] = {}
  BY DEF Shape
<1>5. CASE c = Nil
  <2>1. ASSUME Ends(t, D, T, n, p)
        PROVE  p = n
    BY <1>3, <1>4, <1>5, <2>1 DEF Ends
  <2>2. Ends(t, D, T, n, n)
    <3>1. \A z \in D[n] : n \in D[z] => z = n
      BY <1>3, BelowOnce
    <3> QED
      BY <1>3, <1>5, <3>1 DEF Ends
  <2> QED
    BY <1>5, <2>1, <2>2
<1>6. CASE c # Nil
  <2>1. ASSUME Ends(t, D, T, n, p)
        PROVE  Ends(t, D, T, c, p)
    <3>1. p # n /\ p \in D[c]
      BY <1>3, <1>6, <2>1 DEF Ends
    <3> QED
      BY <1>3, <2>1, <3>1 DEF Ends
  <2>2. ASSUME Ends(t, D, T, c, p)
        PROVE  Ends(t, D, T, n, p)
    <3>1. p \in D[c] /\ p \in D[n] /\ t.child[T[p]][p] = Nil
      BY <1>3, <2>2 DEF Ends
    <3>2. ASSUME NEW z \in D[n], p \in D[z], z # p
          PROVE  p \in D[t.child[T[z]][z]]
      <4>1. CASE z = n
        BY <3>1, <4>1
      <4>2. CASE z \in D[c]
        BY <2>2, <3>2, <4>2 DEF Ends
      <4>3. CASE z \in D[b]
        <5>1. b \in Node
          BY <1>2, Children, SideFacts
        <5>2. b \in Key
          BY <1>4, <4>3, <5>1 DEF Node
        <5>3. D[z] \subseteq D[b]
          BY <4>3, <5>2, BelowBelow
        <5> QED
          BY <1>3, <3>1, <3>2, <5>3
      <4> QED
        BY <1>3, <4>1, <4>2, <4>3
    <3> QED
      BY <3>1, <3>2 DEF Ends
  <2> QED
    BY <1>3, <1>6, <2>1, <2>2
<1> QED
  BY <1>5, <1>6

(* Every walk has one end, and the function that follows it finds it. *)
LEMMA WalkEnds ==
    ASSUME NEW t, NEW N, NEW D, Shape(t, N, D), NEW T \in [Key -> Dir]
    PROVE  /\ \E f : f = [n \in Key |-> IF t.child[T[n]][n] = Nil THEN n ELSE f[t.child[T[n]][n]]]
           /\ \A f : f = [n \in Key |-> IF t.child[T[n]][n] = Nil THEN n ELSE f[t.child[T[n]][n]]]
                     => \A n \in Key : Ends(t, D, T, n, f[n])
<1>1. \A n \in Key : \A p : t.child[T[n]][n] = Nil => (Ends(t, D, T, n, p) <=> p = n)
  BY EndsStep
<1>2. \A n \in Key : \A p : t.child[T[n]][n] # Nil =>
        t.child[T[n]][n] \in Key /\ (Ends(t, D, T, n, p) <=> Ends(t, D, T, t.child[T[n]][n], p))
  BY EndsStep
<1> DEFINE Bad == {n \in Key : ~\E p : Ends(t, D, T, n, p) /\ \A q : Ends(t, D, T, n, q) => q = p}
<1>3. ASSUME Bad # {}
      PROVE  FALSE
  <2>1. PICK n \in Bad : \A d \in Dir : t.child[d][n] \notin Bad
    BY <1>3, Lowest
  <2>2. PICK c : c = t.child[T[n]][n] /\ c \notin Bad
    BY <2>1
  <2>3. n \in Key /\ ~\E p : Ends(t, D, T, n, p) /\ \A q : Ends(t, D, T, n, q) => q = p
    BY <2>1
  <2>4. CASE c = Nil
    <3>1. Ends(t, D, T, n, n) /\ \A q : Ends(t, D, T, n, q) => q = n
      BY <1>1, <2>2, <2>3, <2>4
    <3> QED
      BY <2>3, <3>1
  <2>5. CASE c # Nil
    <3>1. c \in Key /\ \A p : Ends(t, D, T, n, p) <=> Ends(t, D, T, c, p)
      BY <1>2, <2>2, <2>3, <2>5
    <3>2. PICK p : Ends(t, D, T, c, p) /\ \A q : Ends(t, D, T, c, q) => q = p
      BY <2>2, <3>1
    <3> QED
      BY <2>3, <3>1, <3>2
  <2> QED
    BY <2>4, <2>5
<1> DEFINE sol == [n \in Key |-> CHOOSE p : Ends(t, D, T, n, p)]
<1>4. \A n \in Key : Ends(t, D, T, n, sol[n]) /\ \A q : Ends(t, D, T, n, q) => q = sol[n]
  <2>1. \A n \in Key : \E p : Ends(t, D, T, n, p) /\ \A q : Ends(t, D, T, n, q) => q = p
    BY <1>3
  <2>2. \A n \in Key : sol[n] = CHOOSE p : Ends(t, D, T, n, p)
    OBVIOUS
  <2> HIDE DEF sol
  <2>3. \A n \in Key : Ends(t, D, T, n, sol[n])
    BY <2>1, <2>2, Zenon
  <2> QED
    BY <2>1, <2>3, Zenon
<1>5. PICK s : s = sol
  OBVIOUS
<1>6. s = [n \in Key |-> IF t.child[T[n]][n] = Nil THEN n ELSE s[t.child[T[n]][n]]]
  <2>1. \A n \in Key : s[n] = IF t.child[T[n]][n] = Nil THEN n ELSE s[t.child[T[n]][n]]
    <3> HIDE DEF sol, Bad
    <3> QED
      BY <1>1, <1>2, <1>4, <1>5
  <2>2. s = [n \in Key |-> s[n]]
    BY <1>5
  <2> QED
    BY <2>1, <2>2
<1>7. ASSUME NEW f, f = [n \in Key |-> IF t.child[T[n]][n] = Nil THEN n ELSE f[t.child[T[n]][n]]]
      PROVE  \A n \in Key : Ends(t, D, T, n, f[n])
  <2> DEFINE Off == {n \in Key : ~Ends(t, D, T, n, f[n])}
  <2>1. ASSUME Off # {}
        PROVE  FALSE
    <3>1. PICK n \in Off : \A d \in Dir : t.child[d][n] \notin Off
      <4> HIDE DEF Bad
      <4> QED
        BY <2>1, Lowest
    <3>2. PICK c : c = t.child[T[n]][n] /\ c \notin Off
      BY <3>1
    <3>3. \A m \in Key : f[m] = IF t.child[T[m]][m] = Nil THEN m ELSE f[t.child[T[m]][m]]
      BY <1>7
    <3> QED
      BY <1>1, <1>2, <3>1, <3>2, <3>3
  <2> QED
    BY <2>1
<1> QED
  BY <1>6, <1>7

(* insert comes to a node with room for k, and takes k's side all the way. *)
LEMMA LastOnPathEnds ==
    ASSUME NEW D, Shape(tree, nodes, D), NEW k \in Key, NEW p, p = LastOnPath(k)
    PROVE  /\ nodes = {} => p = Nil
           /\ nodes # {} =>
                /\ p \in nodes /\ tree.child[Toward(k, p)][p] = Nil
                /\ \A z \in nodes : p \in D[z] /\ z # p => p \in D[tree.child[Toward(k, z)][z]]
<1> DEFINE T == [n \in Key |-> Toward(k, n)]
           above == CHOOSE f : f = [n \in Key |-> LET c == tree.child[Toward(k, n)][n]
                                                  IN IF c = Nil THEN n ELSE f[c]]
<1>1. /\ Node = Key \cup {Nil} /\ Nil \notin Key /\ tree.root \in Node /\ D[Nil] = {}
      /\ D[tree.root] = nodes /\ nodes \subseteq Key
  BY TreeTypes DEF Shape
<1>2. T \in [Key -> Dir] /\ \A n \in Key : T[n] = Toward(k, n)
  BY TreeAssumption, SideFacts
<1>3. tree.root = Nil => p = Nil
  BY DEF LastOnPath
<1>4. tree.root # Nil => p = above[tree.root]
  BY Zenon DEF LastOnPath
<1> HIDE DEF T
<1>5. PICK e : e = [n \in Key |-> IF tree.child[T[n]][n] = Nil THEN n ELSE e[tree.child[T[n]][n]]]
  BY <1>2, WalkEnds
<1>6. e = [n \in Key |-> LET c == tree.child[Toward(k, n)][n] IN IF c = Nil THEN n ELSE e[c]]
  BY <1>2, <1>5
<1>7. above = [n \in Key |-> LET c == tree.child[Toward(k, n)][n] IN IF c = Nil THEN n ELSE above[c]]
  BY <1>6, Zenon
<1> HIDE DEF above
<1>8. above = [n \in Key |-> IF tree.child[T[n]][n] = Nil THEN n ELSE above[tree.child[T[n]][n]]]
  BY <1>2, <1>7
<1>9. \A n \in Key : Ends(tree, D, T, n, above[n])
  BY <1>2, <1>8, WalkEnds
<1>10. ASSUME nodes # {}
       PROVE  /\ p \in nodes /\ tree.child[Toward(k, p)][p] = Nil
              /\ \A z \in nodes : p \in D[z] /\ z # p => p \in D[tree.child[Toward(k, z)][z]]
  <2>1. tree.root # Nil /\ tree.root \in Key
    BY <1>1, <1>10
  <2>2. Ends(tree, D, T, tree.root, p)
    BY <1>4, <1>9, <2>1
  <2>3. /\ p \in nodes /\ tree.child[T[p]][p] = Nil
        /\ \A z \in nodes : p \in D[z] /\ z # p => p \in D[tree.child[T[z]][z]]
    BY <1>1, <2>2 DEF Ends
  <2> QED
    BY <1>1, <1>2, <2>3
<1>11. nodes = {} => tree.root = Nil
  BY <1>1, Children
<1> QED
  BY <1>3, <1>10, <1>11

(* m is in N, and nothing in N lies further on side d. *)
Extreme(d, N, m) == m \in N /\ \A x \in N : x = m \/ OnSide(Other(d), x, m)

(* most_left and most_right find the outermost node below n. *)
LEMMA MostEnds ==
    ASSUME NEW D, Shape(tree, nodes, D), NEW d \in Dir, NEW n \in Key, NEW m, m = Most(d, n)
    PROVE  Extreme(d, D[n], m) /\ tree.child[d][m] = Nil
<1> DEFINE T == [k \in Key |-> d]
           f == CHOOSE f : f = [k \in Key |-> IF tree.child[d][k] = Nil THEN k
                                              ELSE f[tree.child[d][k]]]
<1>1. T \in [Key -> Dir] /\ \A k \in Key : T[k] = d
  OBVIOUS
<1>2. m = f[n]
  BY Zenon DEF Most
<1> HIDE DEF T
<1>3. PICK e : e = [k \in Key |-> IF tree.child[T[k]][k] = Nil THEN k ELSE e[tree.child[T[k]][k]]]
  BY <1>1, WalkEnds
<1>4. e = [k \in Key |-> IF tree.child[d][k] = Nil THEN k ELSE e[tree.child[d][k]]]
  BY <1>1, <1>3
<1>5. f = [k \in Key |-> IF tree.child[d][k] = Nil THEN k ELSE f[tree.child[d][k]]]
  BY <1>4, Zenon
<1> HIDE DEF f
<1>6. f = [k \in Key |-> IF tree.child[T[k]][k] = Nil THEN k ELSE f[tree.child[T[k]][k]]]
  BY <1>1, <1>5
<1>7. Ends(tree, D, T, n, m)
  BY <1>1, <1>2, <1>6, WalkEnds
<1>8. D[n] \subseteq Key /\ Key \subseteq Int /\ Other(d) \in Dir /\ D[Nil] = {}
  BY Children, TreeAssumption, SideFacts DEF Shape
<1>9. /\ m \in D[n] /\ m \in Key /\ tree.child[d][m] = Nil
      /\ \A z \in D[n] : m \in D[z] /\ z # m => m \in D[tree.child[d][z]]
  BY <1>1, <1>7, <1>8 DEF Ends
<1>10. ASSUME NEW x \in D[n], x # m
       PROVE  OnSide(Other(d), x, m)
  <2> DEFINE S == {z \in D[n] : x \in D[z] /\ m \in D[z]}
  <2>1. n \in S /\ S \subseteq Key
    BY <1>8, <1>9, Children
  <2>2. PICK a \in S : \A g \in Dir : tree.child[g][a] \notin S
    BY <2>1, Lowest
  <2>3. a \in Key /\ a \in D[n] /\ x \in D[a] /\ m \in D[a]
    BY <1>8, <2>2
  <2>4. PICK c, o : c = tree.child[d][a] /\ o = tree.child[Other(d)][a]
    OBVIOUS
  <2>5. D[a] = {a} \cup D[c] \cup D[o] /\ D[a] \subseteq D[n] /\ (c # Nil => c \in D[c])
    BY <2>3, <2>4, Children, BelowBelow
  <2>6. /\ \A y \in D[c] : OnSide(d, y, a)
        /\ \A y \in D[o] : OnSide(Other(d), y, a)
    BY <1>8, <2>3, <2>4 DEF Shape
  <2>7. CASE a = m
    BY <1>8, <1>9, <1>10, <2>3, <2>4, <2>5, <2>6, <2>7
  <2>8. CASE a # m
    <3>1. m \in D[c]
      BY <1>9, <2>3, <2>4, <2>8
    <3>2. c # Nil /\ c \in D[n]
      BY <1>8, <2>5, <3>1
    <3>3. x \notin D[c]
      BY <2>2, <2>4, <3>1, <3>2
    <3>4. OnSide(Other(d), a, m)
      BY <1>8, <1>9, <2>3, <2>6, <3>1, SideFacts
    <3>5. CASE x = a
      BY <3>4, <3>5
    <3>6. CASE x \in D[o]
      BY <1>8, <1>9, <2>3, <2>6, <3>4, <3>6, SideFacts
    <3> QED
      BY <2>3, <2>5, <3>3, <3>5, <3>6
  <2> QED
    BY <2>7, <2>8
<1> QED
  BY <1>9, <1>10 DEF Extreme

-----------------------------------------------------------------------------
(* insert *)

LEMMA LeafFacts ==
    ASSUME NEW t \in TreeRecord, NEW k \in Key, NEW p \in Node, NEW b \in BOOLEAN,
           NEW u, u = Leaf(t, k, p, b)
    PROVE  /\ u \in TreeRecord /\ u.root = t.root /\ u.parent[k] = p /\ u.black[k] = b
           /\ \A f \in Dir : u.child[f][k] = Nil
           /\ \A f \in Dir, x \in Key : x # k => u.child[f][x] = t.child[f][x]
           /\ \A x \in Node : x # k => u.parent[x] = t.parent[x] /\ u.black[x] = t.black[x]
<1>1. PICK l \in Dir, r \in Dir : l = "left" /\ r = "right" /\ l # r
  BY DEF Dir
<1>2. PICK v : v = WithChild(t, l, k, Nil)
  OBVIOUS
<1>3. PICK w : w = WithChild(v, r, k, Nil)
  OBVIOUS
<1>4. PICK z : z = WithParent(w, k, p)
  OBVIOUS
<1>5. Nil \in Node /\ k \in Node
  BY DEF Node
<1>6. ChildSet(t, v, l, k, Nil)
  BY <1>2, <1>5, SetChild
<1>7. ChildSet(v, w, r, k, Nil)
  <2>1. v \in TreeRecord
    BY <1>6 DEF ChildSet
  <2> QED
    BY <1>3, <1>5, <2>1, SetChild
<1>8. ParentSet(w, z, k, p)
  <2>1. w \in TreeRecord
    BY <1>7 DEF ChildSet
  <2> QED
    BY <1>4, <1>5, <2>1, SetParent
<1>9. Painted(z, u, k, b)
  <2>1. z \in TreeRecord
    BY <1>8 DEF ParentSet
  <2>2. u = Paint(z, k, b)
    BY <1>1, <1>2, <1>3, <1>4 DEF Leaf
  <2> QED
    BY <1>5, <2>1, <2>2, PaintFacts
<1>10. /\ v.root = t.root /\ v.parent = t.parent /\ v.black = t.black
       /\ w.root = v.root /\ w.parent = v.parent /\ w.black = v.black
       /\ w.child[l][k] = Nil /\ w.child[r][k] = Nil
       /\ \A f \in Dir, x \in Key : x # k => w.child[f][x] = t.child[f][x]
  BY <1>1, <1>6, <1>7 DEF ChildSet
<1>11. \A f \in Dir : f = l \/ f = r
  BY <1>1 DEF Dir
<1>12. \A f \in Dir : w.child[f][k] = Nil
  BY <1>10, <1>11
<1> QED
  BY <1>8, <1>9, <1>10, <1>12 DEF ParentSet, Painted, Repainted

(* u is t with k hung under p, or as the root when there is no p. *)
Hung(t, u, N, k, p) ==
    /\ u \in TreeRecord /\ u.parent[k] = p
    /\ \A f \in Dir : u.child[f][k] = Nil
    /\ \A x \in Node : x # k => u.parent[x] = t.parent[x]
    /\ p = Nil => N = {} /\ u.root = k
    /\ p # Nil => p \in N /\ u.root = t.root /\ u.child[Toward(k, p)][p] = k
    /\ \A f \in Dir, x \in Key :
            x # k /\ ~(x = p /\ f = Toward(k, p)) => u.child[f][x] = t.child[f][x]

(* A search tree stays one when k is hung at the end of its path. *)
LEMMA HungShape ==
    ASSUME NEW t, NEW N, NEW D, Shape(t, N, D), NEW k \in Key \ N, NEW p, NEW u, Hung(t, u, N, k, p),
           p # Nil => /\ t.child[Toward(k, p)][p] = Nil
                      /\ \A z \in N : p \in D[z] /\ z # p => p \in D[t.child[Toward(k, z)][z]]
    PROVE  Shape(u, N \cup {k}, [x \in Node |-> IF p \in D[x] THEN D[x] \cup {k} ELSE D[x]])
<1> DEFINE E == [x \in Node |-> IF p \in D[x] THEN D[x] \cup {k} ELSE D[x]]
<1>1. /\ t \in TreeRecord /\ N \subseteq Key /\ D \in [Node -> SUBSET Key] /\ D[Nil] = {}
      /\ D[t.root] = N /\ \A x \in Key \ N, f \in Dir : t.child[f][x] = Nil
  BY DEF Shape
<1>2. /\ Node = Key \cup {Nil} /\ Nil \notin Key /\ Key \subseteq Int /\ t.root \in Node /\ u.root \in Node
      /\ \A f \in Dir, x \in Key : t.child[f][x] \in Node /\ u.child[f][x] \in Node
  BY <1>1, TreeTypes DEF Hung
<1>3. \A x \in Key \ N : D[x] = {x}
  <2>1. "left" \in Dir /\ "right" \in Dir
    BY DEF Dir
  <2>2. \A x \in Key : D[x] = {x} \cup D[t.child["left"][x]] \cup D[t.child["right"][x]]
    BY DEF Shape
  <2> QED
    BY <1>1, <2>1, <2>2
<1>4. /\ E \in [Node -> SUBSET Key] /\ E[Nil] = {} /\ E[k] = {k}
      /\ \A x \in Node : E[x] = IF p \in D[x] THEN D[x] \cup {k} ELSE D[x]
  <2>1. p \notin D[k]
    BY <1>2, <1>3 DEF Hung
  <2> QED
    BY <1>1, <1>2, <1>3, <2>1
<1> HIDE DEF E
<1>5. \A x \in Key, f \in Dir : t.child[f][x] # k
  <2>1. \A x \in N, f \in Dir : t.child[f][x] \in N \cup {Nil}
    BY ChildNode
  <2> QED
    BY <1>1, <1>2, <2>1
<1>6. PICK e : e = Toward(k, p)
  OBVIOUS
<1>7. /\ u.parent[k] = p /\ u \in TreeRecord
      /\ \A f \in Dir : u.child[f][k] = Nil
      /\ \A x \in Node : x # k => u.parent[x] = t.parent[x]
      /\ p = Nil => N = {} /\ u.root = k
      /\ p # Nil => p \in N /\ u.root = t.root /\ u.child[e][p] = k
      /\ \A f \in Dir, x \in Key : x # k /\ ~(x = p /\ f = e) => u.child[f][x] = t.child[f][x]
  BY <1>6 DEF Hung
<1>8. p # Nil => /\ e \in Dir /\ OnSide(e, k, p) /\ p \in Key /\ t.child[e][p] = Nil
                 /\ \A z \in N : p \in D[z] /\ z # p => p \in D[t.child[Toward(k, z)][z]]
  <2>1. p # Nil => p \in Key /\ p # k
    BY <1>1, <1>7
  <2> QED
    BY <1>2, <1>6, <2>1, SideFacts
<1>9. ASSUME NEW x \in Key
      PROVE  E[x] = {x} \cup E[u.child["left"][x]] \cup E[u.child["right"][x]]
  <2>1. "left" \in Dir /\ "right" \in Dir
    BY DEF Dir
  <2>2. CASE x = k
    BY <1>4, <1>7, <2>1, <2>2
  <2>3. CASE x # k /\ x = p
    <3>1. p # Nil
      BY <1>2, <2>3
    <3>2. PICK o \in Dir : o = Other(e) /\ o # e
      BY <1>8, <3>1, SideFacts
    <3>3. u.child[e][x] = k /\ u.child[o][x] = t.child[o][x] /\ t.child[e][x] = Nil
      BY <1>7, <1>8, <2>3, <3>1, <3>2
    <3>4. D[x] = {x} \cup D[t.child[e][x]] \cup D[t.child[o][x]] /\ x \notin D[t.child[o][x]] /\ x \in D[x]
      BY <1>8, <3>1, <3>2, Children
    <3>5. E[x] = D[x] \cup {k} /\ E[t.child[o][x]] = D[t.child[o][x]]
      BY <1>2, <1>4, <2>3, <3>2, <3>4
    <3>6. E[x] = {x} \cup E[u.child[e][x]] \cup E[u.child[o][x]]
      BY <1>1, <1>4, <3>3, <3>4, <3>5
    <3> QED
      BY <1>8, <3>1, <3>2, <3>6 DEF Dir, Other
  <2>4. CASE x # k /\ x # p
    <3>1. PICK a, b \in Node : a = t.child["left"][x] /\ b = t.child["right"][x]
      BY <1>2, <2>1
    <3>2. D[x] = {x} \cup D[a] \cup D[b]
      BY <3>1 DEF Shape
    <3>3. u.child["left"][x] = a /\ u.child["right"][x] = b
      BY <1>7, <2>1, <2>4, <3>1
    <3>4. p \in D[x] <=> p \in D[a] \/ p \in D[b]
      BY <2>4, <3>2
    <3>5. /\ E[x] = IF p \in D[x] THEN D[x] \cup {k} ELSE D[x]
          /\ E[a] = IF p \in D[a] THEN D[a] \cup {k} ELSE D[a]
          /\ E[b] = IF p \in D[b] THEN D[b] \cup {k} ELSE D[b]
      BY <1>2, <1>4, <3>1
    <3>6. E[x] = {x} \cup E[a] \cup E[b]
      BY <3>2, <3>4, <3>5
    <3> QED
      BY <3>3, <3>6
  <2> QED
    BY <2>2, <2>3, <2>4
<1>10. ASSUME NEW x \in Key, NEW f \in Dir, NEW y \in E[u.child[f][x]]
       PROVE  OnSide(f, y, x)
  <2>1. x # k
    BY <1>4, <1>7
  <2>2. CASE x = p /\ f = e
    BY <1>2, <1>4, <1>7, <1>8, <2>2
  <2>3. CASE ~(x = p /\ f = e)
    <3>1. PICK c \in Node : c = t.child[f][x] /\ c = u.child[f][x]
      BY <1>2, <1>7, <2>1, <2>3
    <3>2. CASE y \in D[c]
      BY <3>1, <3>2 DEF Shape
    <3>3. CASE y \notin D[c]
      <4>1. y = k /\ p \in D[c]
        BY <1>4, <3>1, <3>3
      <4>2. x \in N
        BY <1>1, <3>1, <4>1
      <4>3. p # Nil
        BY <1>1, <1>2, <4>1
      <4>4. p \in D[x] /\ x # p
        <5>1. \A g \in Dir : D[t.child[g][x]] \subseteq D[x] /\ x \notin D[t.child[g][x]]
          BY Children
        <5> QED
          BY <3>1, <4>1, <5>1
      <4>5. p \in D[t.child[Toward(k, x)][x]]
        BY <1>8, <4>2, <4>3, <4>4
      <4>6. Toward(k, x) \in Dir /\ OnSide(Toward(k, x), k, x)
        BY <1>2, <2>1, SideFacts
      <4>7. f = Toward(k, x)
        <5>1. D[t.child[f][x]] \cap D[t.child[Other(f)][x]] = {}
          BY Children
        <5> QED
          BY <3>1, <4>1, <4>5, <4>6, <5>1, SideFacts
      <4> QED
        BY <4>1, <4>6, <4>7
    <3> QED
      BY <3>2, <3>3
  <2> QED
    BY <2>2, <2>3
<1>11. ASSUME NEW x \in Key, NEW f \in Dir, u.child[f][x] # Nil
       PROVE  u.parent[u.child[f][x]] = x
  <2>1. CASE x = p /\ f = e
    BY <1>2, <1>7, <2>1
  <2>2. CASE ~(x = p /\ f = e)
    <3>1. u.child[f][x] = t.child[f][x] /\ x # k
      BY <1>7, <1>11, <2>2
    <3>2. t.parent[t.child[f][x]] = x
      BY <1>11, <3>1, ChildParent
    <3> QED
      BY <1>2, <1>5, <1>7, <3>1, <3>2
  <2> QED
    BY <2>1, <2>2
<1>12. \A x \in Key \ (N \cup {k}), f \in Dir : u.child[f][x] = Nil
  <2>1. \A x \in Key \ (N \cup {k}) : x # p /\ x # k
    BY <1>2, <1>7
  <2> QED
    BY <1>1, <1>7, <2>1
<1>13. E[u.root] = N \cup {k}
  <2>1. CASE p = Nil
    BY <1>4, <1>7, <2>1
  <2>2. CASE p # Nil
    <3>1. PICK r \in Node : r = t.root
      BY <1>2
    <3>2. p \in D[r] /\ u.root = r /\ D[r] = N
      BY <1>1, <1>7, <2>2, <3>1
    <3>3. E[r] = D[r] \cup {k}
      BY <1>4, <3>2
    <3> QED
      BY <3>2, <3>3
  <2> QED
    BY <2>1, <2>2
<1>14. u.root # Nil => u.parent[u.root] = Nil
  <2>1. CASE p = Nil
    BY <1>7, <2>1
  <2>2. CASE p # Nil
    <3>1. t.root \in N /\ t.root # Nil
      BY <1>7, <2>2, NodeFacts
    <3>2. t.parent[t.root] = Nil
      BY <3>1 DEF Shape
    <3> QED
      BY <1>2, <1>7, <2>2, <3>1, <3>2
  <2> QED
    BY <2>1, <2>2
<1>15. Shape(u, N \cup {k}, E)
  BY <1>1, <1>4, <1>7, <1>9, <1>10, <1>11, <1>12, <1>13, <1>14 DEF Shape
<1> QED
  BY <1>15 DEF E

(* The red leaf k may only be wrong under a red parent or as a red root.    *)
LEMMA HungColours ==
    ASSUME NEW t, NEW N, NEW D, Shape(t, N, D), NEW k \in Key \ N, NEW p, NEW u, Hung(t, u, N, k, p),
           p # Nil => t.child[Toward(k, p)][p] = Nil,
           ~u.black[k], \A x \in Node : x # k => u.black[x] = t.black[x], Idle(t, N)
    PROVE  Inserting(u, N \cup {k}, k)
<1>1. /\ t \in TreeRecord /\ N \subseteq Key /\ Nil \notin Key /\ Node = Key \cup {Nil} /\ t.root \in Node
  BY TreeTypes DEF Shape
<1>2. \A x \in N, f \in Dir : t.child[f][x] \in N \cup {Nil}
  BY ChildNode
<1>3. PICK H : Heights(t, N, H, Nil, "left")
  BY DEF Idle
<1>4. Reds(t, N, Nil, Nil)
  BY DEF Idle
<1>5. PICK e : e = Toward(k, p)
  OBVIOUS
<1>6. /\ \A f \in Dir : u.child[f][k] = Nil
      /\ p = Nil => N = {} /\ u.root = k
      /\ p # Nil => p \in N /\ u.root = t.root /\ u.child[e][p] = k /\ t.child[e][p] = Nil
      /\ \A f \in Dir, x \in Key : x # k /\ ~(x = p /\ f = e) => u.child[f][x] = t.child[f][x]
  BY <1>5 DEF Hung
<1>7. t.black[Nil] /\ t.black[t.root] /\ \A x \in N, f \in Dir : ~t.black[x] => t.black[t.child[f][x]]
  BY <1>1, <1>4, NoReds
<1>8. Reds(u, N \cup {k}, k, Nil)
  <2>1. u.black[Nil]
    BY <1>1, <1>7
  <2>2. u.black[u.root] \/ u.root = k
    BY <1>1, <1>6, <1>7
  <2>3. ASSUME NEW x \in N \cup {k}, NEW f \in Dir, ~u.black[x], ~u.black[u.child[f][x]]
        PROVE  u.child[f][x] = k
    <3>1. x # k
      BY <1>6, <2>1, <2>3
    <3>2. CASE x = p /\ f = e
      BY <1>1, <1>6, <3>1, <3>2
    <3>3. CASE ~(x = p /\ f = e)
      <4>1. u.child[f][x] = t.child[f][x] /\ x \in N /\ x \in Key
        BY <1>1, <1>6, <3>1, <3>3
      <4>2. t.child[f][x] # k /\ t.child[f][x] \in Node
        BY <1>1, <1>2, <4>1
      <4>3. u.black[x] = t.black[x] /\ u.black[t.child[f][x]] = t.black[t.child[f][x]]
        BY <1>1, <3>1, <4>1, <4>2
      <4> QED
        BY <1>7, <2>3, <4>1, <4>3
    <3> QED
      BY <3>2, <3>3
  <2> QED
    BY <2>1, <2>2, <2>3 DEF Reds
<1>9. PICK G : G = [H EXCEPT ![k] = 0]
  OBVIOUS
<1>10. /\ H \in [Node -> Nat] /\ H[Nil] = 0
       /\ \A x \in N, f \in Dir : H[x] = Ink(t, x) + H[t.child[f][x]]
  <2>1. \A x \in N, f \in Dir : Missing(x, f, Nil, "left") = 0
    BY <1>1 DEF Missing
  <2>2. \A x \in N, f \in Dir : H[x] = Ink(t, x) + H[t.child[f][x]] + Missing(x, f, Nil, "left")
    BY <1>3 DEF Heights
  <2>3. \A x \in N, f \in Dir : H[t.child[f][x]] \in Nat /\ Ink(t, x) \in Nat
    BY <1>1, <1>2, <1>3 DEF Heights, Ink
  <2> QED
    BY <1>3, <2>1, <2>2, <2>3 DEF Heights
<1>11. G \in [Node -> Nat] /\ G[Nil] = 0 /\ G[k] = 0 /\ \A x \in Node : x # k => G[x] = H[x]
  BY <1>1, <1>9, <1>10
<1>12. ASSUME NEW x \in N \cup {k}, NEW f \in Dir
       PROVE  G[x] = Ink(u, x) + G[u.child[f][x]] + Missing(x, f, Nil, "left")
  <2>0. Missing(x, f, Nil, "left") = 0
    BY <1>1 DEF Missing
  <2>1. CASE x = k
    <3>1. Ink(u, x) = 0 /\ u.child[f][x] = Nil
      BY <1>6, <2>1 DEF Ink
    <3> QED
      BY <1>11, <2>0, <2>1, <3>1
  <2>2. CASE x # k
    <3>1. x \in N /\ x \in Node /\ Ink(u, x) = Ink(t, x) /\ G[x] = H[x] /\ Ink(u, x) \in Nat
      BY <1>1, <1>11, <2>2 DEF Ink
    <3>2. G[u.child[f][x]] = H[t.child[f][x]] /\ H[t.child[f][x]] \in Nat
      <4>1. CASE x = p /\ f = e
        BY <1>1, <1>6, <1>10, <1>11, <2>2, <4>1
      <4>2. CASE ~(x = p /\ f = e)
        <5>1. u.child[f][x] = t.child[f][x]
          BY <1>1, <1>6, <2>2, <4>2
        <5>2. t.child[f][x] # k /\ t.child[f][x] \in Node
          BY <1>1, <1>2, <3>1
        <5> QED
          BY <1>10, <1>11, <5>1, <5>2
      <4> QED
        BY <4>1, <4>2
    <3>3. H[x] = Ink(t, x) + H[t.child[f][x]]
      BY <1>10, <3>1
    <3> QED
      BY <2>0, <3>1, <3>2, <3>3
  <2> QED
    BY <2>1, <2>2
<1>13. Heights(u, N \cup {k}, G, Nil, "left")
  BY <1>11, <1>12 DEF Heights
<1> QED
  BY <1>8, <1>13 DEF Inserting

(* The outermost node has no child further out. *)
LEMMA EndChild ==
    ASSUME NEW t, NEW N, NEW D, Shape(t, N, D), NEW d \in Dir, NEW m, Extreme(d, N, m)
    PROVE  m \in N /\ t.child[d][m] = Nil
<1>1. m \in N /\ N \subseteq Key /\ Nil \notin Key /\ Key \subseteq Int /\ m \in Key
  BY TreeAssumption DEF Shape, Extreme
<1>2. PICK c : c = t.child[d][m]
  OBVIOUS
<1>3. c \in N \cup {Nil}
  BY <1>1, <1>2, ChildNode
<1>4. ASSUME c # Nil
      PROVE  OnSide(d, c, m)
  <2>1. c \in Key
    BY <1>1, <1>3, <1>4
  <2>2. c \in D[c]
    BY <2>1, Children
  <2> QED
    BY <1>1, <1>2, <2>2 DEF Shape
<1>5. ASSUME c # Nil
      PROVE  FALSE
  <2>1. c = m \/ OnSide(Other(d), c, m)
    BY <1>3, <1>5 DEF Extreme
  <2> QED
    BY <1>1, <1>3, <1>4, <1>5, <2>1, SideFacts
<1> QED
  BY <1>1, <1>2, <1>5

(* _first and _last: only a child of the old end on its outer side is       *)
(* further out.                                                             *)
LEMMA HungEnds ==
    ASSUME NEW t, NEW N, NEW D, Shape(t, N, D), NEW k \in Key \ N, NEW p, NEW u, Hung(t, u, N, k, p),
           p # Nil, t.child[Toward(k, p)][p] = Nil,
           NEW E, Shape(u, N \cup {k}, E), E[k] = {k},
           NEW d \in Dir, NEW m, Extreme(d, N, m)
    PROVE  Extreme(d, N \cup {k}, IF u.child[d][m] # Nil THEN u.child[d][m] ELSE m)
<1>1. N \subseteq Key /\ Nil \notin Key /\ Key \subseteq Int
  BY TreeAssumption DEF Shape
<1>2. m \in N /\ m \in Key /\ m # k /\ \A x \in N : x = m \/ OnSide(Other(d), x, m)
  BY <1>1 DEF Extreme
<1>3. PICK o \in Dir : o = Other(d) /\ o # d /\ Other(o) = d
  BY SideFacts
<1>4. t.child[d][m] = Nil
  BY EndChild
<1>5. CASE u.child[d][m] # Nil
  <2>1. u.child[d][m] = k
    BY <1>2, <1>4, <1>5 DEF Hung
  <2>2. OnSide(d, k, m)
    <3>1. \A x \in E[u.child[d][m]] : OnSide(d, x, m)
      BY <1>2 DEF Shape
    <3> QED
      BY <2>1, <3>1
  <2>3. OnSide(o, m, k)
    BY <1>1, <1>2, <1>3, <2>2, SideFacts
  <2>4. \A x \in N : OnSide(o, x, k)
    BY <1>1, <1>2, <1>3, <2>3, SideFacts
  <2>5. Extreme(d, N \cup {k}, k)
    BY <1>3, <2>4 DEF Extreme
  <2> QED
    BY <1>5, <2>1, <2>5
<1>6. CASE u.child[d][m] = Nil
  <2>1. ASSUME OnSide(d, k, m)
        PROVE  FALSE
    <3>1. E[u.root] = N \cup {k} /\ u.root \in N \cup {k} /\ E[Nil] = {}
      <4>1. u.root \in N \cup {k}
        BY RootSlot
      <4> QED
        BY <4>1 DEF Shape
    <3> DEFINE S == {z \in N \cup {k} : k \in E[z] /\ m \in E[z]}
    <3>2. S # {} /\ S \subseteq Key
      BY <1>1, <1>2, <3>1
    <3>3. PICK a \in S : \A f \in Dir : u.child[f][a] \notin S
      BY <3>2, Lowest
    <3>4. a \in N \cup {k} /\ k \in E[a] /\ m \in E[a]
      BY <3>3
    <3>5. a # k /\ a \in N /\ a \in Key
      BY <1>1, <1>2, <3>4
    <3>6. PICK c : c = u.child[d][a]
      OBVIOUS
    <3>7. CASE a = m
      <4>1. k \in E[u.child[Toward(k, m)][m]]
        BY <1>2, <3>4, <3>7, Descend
      <4>2. Toward(k, m) = d
        BY <1>1, <1>2, <2>1, SideFacts
      <4> QED
        BY <1>6, <3>1, <4>1, <4>2
    <3>8. CASE a # m
      <4>1. OnSide(d, m, a)
        BY <1>1, <1>2, <1>3, <3>5, <3>8, SideFacts
      <4>2. OnSide(d, k, a)
        BY <1>1, <1>2, <2>1, <3>5, <4>1, SideFacts
      <4>3. Toward(m, a) = d /\ Toward(k, a) = d
        BY <1>1, <1>2, <3>5, <4>1, <4>2, SideFacts
      <4>4. m \in E[u.child[Toward(m, a)][a]]
        BY <1>2, <3>4, <3>5, <3>8, Descend
      <4>5. k \in E[u.child[Toward(k, a)][a]]
        BY <3>4, <3>5, Descend
      <4>6. m \in E[c] /\ k \in E[c]
        BY <3>6, <4>3, <4>4, <4>5
      <4>7. c \in (N \cup {k}) \cup {Nil}
        BY <3>4, <3>6, ChildNode
      <4>8. c \notin S
        BY <3>3, <3>6
      <4> QED
        BY <3>1, <4>6, <4>7, <4>8
    <3> QED
      BY <3>7, <3>8
  <2>2. OnSide(o, k, m)
    <3>1. k \in Int /\ m \in Int /\ k # m
      BY <1>1, <1>2
    <3>2. OnSide(Toward(k, m), k, m) /\ Toward(k, m) \in Dir
      BY <3>1, SideFacts
    <3>3. Toward(k, m) = o
      BY <1>3, <2>1, <3>2, SideFacts
    <3> QED
      BY <3>2, <3>3
  <2> QED
    BY <1>2, <1>3, <1>6, <2>2 DEF Extreme
<1> QED
  BY <1>5, <1>6

(* _first and _last are the first and the last node. *)
EndsRight == nodes # {} => Extreme("left", nodes, first) /\ Extreme("right", nodes, last)

(* insert of a new key, up to the loop. *)
LEMMA InsertNodeStep ==
    ASSUME NEW D, Shape(tree, nodes, D), Idle(tree, nodes), EndsRight, NEW k \in Key, NEW v, InsertNode(k, v)
    PROVE  /\ k \notin nodes /\ nodes' = nodes \cup {k}
           /\ \E E : Shape(tree', nodes', E)
           /\ Inserting(tree', nodes', cur')
           /\ Extreme("left", nodes', first') /\ Extreme("right", nodes', last')
<1>1. PICK t, N, u : t = tree /\ N = nodes /\ u = tree'
  OBVIOUS
<1>2. PICK p : p = LastOnPath(k)
  OBVIOUS
<1>3. PICK s : s = Leaf(t, k, p, FALSE)
  OBVIOUS
<1>4. /\ SearchTree(k) = Nil /\ nodes' = N \cup {k} /\ cur' = k
      /\ u = IF p = Nil THEN WithRoot(s, k) ELSE WithChild(s, Toward(k, p), p, k)
      /\ first' = FirstAfter(u, IF p = Nil THEN k ELSE first)
      /\ last' = LastAfter(u, IF p = Nil THEN k ELSE last)
  BY <1>1, <1>2, <1>3 DEF InsertNode
<1>5. k \notin N /\ Nil \notin Key
  <2>1. SearchTree(k) = IF k \in nodes THEN k ELSE Nil
    BY SearchTreeFinds
  <2> QED
    BY <1>1, <1>4, <2>1, TreeAssumption
<1>6. /\ N = {} => p = Nil
      /\ N # {} => /\ p \in N /\ t.child[Toward(k, p)][p] = Nil
                   /\ \A z \in N : p \in D[z] /\ z # p => p \in D[t.child[Toward(k, z)][z]]
  BY <1>1, <1>2, LastOnPathEnds
<1>7. t \in TreeRecord /\ N \subseteq Key /\ Shape(t, N, D) /\ Node = Key \cup {Nil} /\ Key \subseteq Int
  BY <1>1, TreeAssumption DEF Shape, Node
<1>8. p \in Node /\ (p = Nil <=> N = {}) /\ (p # Nil => p \in N /\ p # k)
  BY <1>5, <1>6, <1>7
<1>9. PICK b \in BOOLEAN : b = FALSE
  OBVIOUS
<1>10. /\ s \in TreeRecord /\ s.root = t.root /\ s.parent[k] = p /\ s.black[k] = b
       /\ \A f \in Dir : s.child[f][k] = Nil
       /\ \A f \in Dir, x \in Key : x # k => s.child[f][x] = t.child[f][x]
       /\ \A x \in Node : x # k => s.parent[x] = t.parent[x] /\ s.black[x] = t.black[x]
  <2>1. s = Leaf(t, k, p, b)
    BY <1>3, <1>9
  <2>2. t \in TreeRecord /\ p \in Node
    BY <1>7, <1>8
  <2> QED
    BY <2>1, <2>2, LeafFacts
<1>11. Hung(t, u, N, k, p) /\ u.black = s.black
  <2>1. CASE p = Nil
    <3>1. RootSet(s, u, k)
      BY <1>4, <1>7, <1>10, <2>1, SetRoot
    <3>2. \A f \in Dir, x \in Key : x # p
      BY <1>5, <2>1
    <3> QED
      BY <1>8, <1>10, <2>1, <3>1, <3>2 DEF RootSet, Hung
  <2>2. CASE p # Nil
    <3>1. PICK e \in Dir : e = Toward(k, p)
      BY <1>7, <1>8, <2>2, SideFacts
    <3>2. p \in Key /\ k \in Node
      BY <1>7, <1>8, <2>2
    <3>3. u = WithChild(s, e, p, k)
      BY <1>4, <2>2, <3>1
    <3>4. ChildSet(s, u, e, p, k)
      BY <1>10, <3>2, <3>3, SetChild
    <3>5. /\ u \in TreeRecord /\ u.root = s.root /\ u.parent = s.parent /\ u.black = s.black
          /\ u.child[e][p] = k
          /\ \A f \in Dir, x \in Key : ~(x = p /\ f = e) => u.child[f][x] = s.child[f][x]
      BY <3>4 DEF ChildSet
    <3>6. \A f \in Dir : u.child[f][k] = Nil
      BY <1>8, <1>10, <2>2, <3>5
    <3>7. \A f \in Dir, x \in Key : x # k /\ ~(x = p /\ f = e) => u.child[f][x] = t.child[f][x]
      BY <1>10, <3>5
    <3> QED
      BY <1>8, <1>10, <2>2, <3>1, <3>5, <3>6, <3>7 DEF Hung
  <2> QED
    BY <2>1, <2>2
<1>12. PICK E : E = [x \in Node |-> IF p \in D[x] THEN D[x] \cup {k} ELSE D[x]]
  OBVIOUS
<1>13. Shape(u, N \cup {k}, E)
  <2>1. k \in Key \ N /\ Shape(t, N, D)
    BY <1>5, <1>7
  <2>2. p # Nil => /\ t.child[Toward(k, p)][p] = Nil
                   /\ \A z \in N : p \in D[z] /\ z # p => p \in D[t.child[Toward(k, z)][z]]
    BY <1>6, <1>8
  <2>3. Shape(u, N \cup {k}, [x \in Node |-> IF p \in D[x] THEN D[x] \cup {k} ELSE D[x]])
    BY <1>11, <2>1, <2>2, HungShape
  <2> QED
    BY <1>12, <2>3
<1>14. Inserting(u, N \cup {k}, k)
  <2>1. ~u.black[k] /\ \A x \in Node : x # k => u.black[x] = t.black[x]
    BY <1>9, <1>10, <1>11
  <2>2. Idle(t, N)
    BY <1>1
  <2> QED
    BY <1>5, <1>6, <1>7, <1>8, <1>11, <2>1, <2>2, HungColours
<1>15. Extreme("left", N \cup {k}, first') /\ Extreme("right", N \cup {k}, last')
  <2>1. PICK l \in Dir, r \in Dir : l = "left" /\ r = "right"
    BY DEF Dir
  <2>2. CASE p = Nil
    <3>1. u.child[l][k] = Nil /\ u.child[r][k] = Nil
      BY <1>11, <2>1 DEF Hung
    <3>2. first' = k /\ last' = k
      BY <1>4, <2>1, <2>2, <3>1 DEF FirstAfter, LastAfter
    <3> QED
      BY <1>8, <2>2, <3>2 DEF Extreme
  <2>3. CASE p # Nil
    <3>1. E[k] = {k}
      <4>1. D[k] = {k}
        <5>1. D[Nil] = {} /\ D[k] = {k} \cup D[t.child["left"][k]] \cup D[t.child["right"][k]]
          BY <1>7 DEF Shape
        <5>2. t.child[l][k] = Nil /\ t.child[r][k] = Nil
          BY <1>5, <1>7, <2>1 DEF Shape
        <5> QED
          BY <2>1, <5>1, <5>2
      <4> QED
        BY <1>7, <1>8, <1>12, <2>3, <4>1
    <3>2. Extreme(l, N, first) /\ Extreme(r, N, last)
      BY <1>1, <1>8, <2>1, <2>3 DEF EndsRight
    <3>3. t.child[Toward(k, p)][p] = Nil
      BY <1>6, <1>8, <2>3
    <3>6. k \in Key \ N /\ Shape(t, N, D) /\ Hung(t, u, N, k, p)
      BY <1>5, <1>7, <1>11
    <3>7. ASSUME NEW d \in Dir, NEW m, Extreme(d, N, m)
          PROVE  Extreme(d, N \cup {k}, IF u.child[d][m] # Nil THEN u.child[d][m] ELSE m)
      BY <1>13, <2>3, <3>1, <3>3, <3>6, <3>7, HungEnds
    <3>4. Extreme(l, N \cup {k}, IF u.child[l][first] # Nil THEN u.child[l][first] ELSE first)
      BY <3>2, <3>7
    <3>5. Extreme(r, N \cup {k}, IF u.child[r][last] # Nil THEN u.child[r][last] ELSE last)
      BY <3>2, <3>7
    <3> QED
      BY <1>4, <2>1, <2>3, <3>4, <3>5 DEF FirstAfter, LastAfter
  <2> QED
    BY <2>2, <2>3
<1> QED
  BY <1>1, <1>4, <1>5, <1>13, <1>14, <1>15

-----------------------------------------------------------------------------
(* The ends of the loops *)

(* Where nothing is missing, the heights need no exception. *)
LEMMA PlainHeights ==
    ASSUME NEW t \in TreeRecord, NEW N, N \subseteq Key, NEW H, Heights(t, N, H, Nil, "left")
    PROVE  /\ H \in [Node -> Nat] /\ H[Nil] = 0
           /\ \A x \in N, f \in Dir : /\ H[x] = Ink(t, x) + H[t.child[f][x]]
                                      /\ H[t.child[f][x]] \in Nat /\ Ink(t, x) \in Nat
<1>1. \A x \in N, f \in Dir : Missing(x, f, Nil, "left") = 0
  BY TreeAssumption DEF Missing
<1>2. \A x \in N, f \in Dir : H[x] = Ink(t, x) + H[t.child[f][x]] + Missing(x, f, Nil, "left")
  BY DEF Heights
<1>3. \A x \in N, f \in Dir : H[t.child[f][x]] \in Nat /\ Ink(t, x) \in Nat
  BY TreeTypes DEF Heights, Ink
<1> QED
  BY <1>1, <1>2, <1>3 DEF Heights

LEMMA MakeHeights ==
    ASSUME NEW t, NEW N, N \subseteq Key, NEW H \in [Node -> Nat], H[Nil] = 0,
           \A x \in N, f \in Dir : /\ H[x] = Ink(t, x) + H[t.child[f][x]]
                                   /\ H[t.child[f][x]] \in Nat /\ Ink(t, x) \in Nat
    PROVE  Heights(t, N, H, Nil, "left")
<1>1. \A x \in N, f \in Dir : Missing(x, f, Nil, "left") = 0
  BY TreeAssumption DEF Missing
<1>2. \A x \in N, f \in Dir : H[x] = Ink(t, x) + H[t.child[f][x]] + Missing(x, f, Nil, "left")
  BY <1>1
<1> QED
  BY <1>2 DEF Heights

(* Painting the root black ends what is only wrong at the root. *)
LEMMA PaintRoot ==
    ASSUME NEW t, NEW N, NEW D, Shape(t, N, D), NEW H, Heights(t, N, H, Nil, "left"),
           t.black[Nil], NEW u, Painted(t, u, t.root, TRUE),
           \A k \in N, f \in Dir : ~t.black[k] /\ ~t.black[t.child[f][k]] => k = t.root
    PROVE  Idle(u, N)
<1>1. t \in TreeRecord /\ N \subseteq Key /\ Nil \notin Key /\ Node = Key \cup {Nil} /\ Nil \in Node
  BY TreeTypes DEF Shape
<1>2. PICK r : r = t.root
  OBVIOUS
<1>3. /\ u \in TreeRecord /\ u.root = r /\ u.child = t.child /\ u.black[r]
      /\ \A x \in Node : x # r => u.black[x] = t.black[x]
  BY <1>2 DEF Painted, Repainted
<1>4. /\ H \in [Node -> Nat] /\ H[Nil] = 0
      /\ \A x \in N, f \in Dir : /\ H[x] = Ink(t, x) + H[t.child[f][x]]
                                 /\ H[t.child[f][x]] \in Nat /\ Ink(t, x) \in Nat
  BY <1>1, PlainHeights
<1>5. \A x \in N, f \in Dir : t.child[f][x] # r /\ t.child[f][x] \in Node
  <2>1. ASSUME NEW x \in N, NEW f \in Dir
        PROVE  t.child[f][x] # r /\ t.child[f][x] \in Node
    <3>1. N # {} /\ x \in Key
      BY <1>1
    <3>2. \A k \in Key, e \in Dir : t.child[e][k] # t.root
      BY <3>1, RootSlot
    <3> QED
      BY <1>1, <1>2, <3>1, <3>2, TreeTypes
  <2> QED
    BY <2>1
<1>6. Reds(u, N, Nil, Nil)
  <2>1. u.black[Nil]
    BY <1>1, <1>3
  <2>2. ASSUME NEW x \in N, NEW f \in Dir, ~u.black[x], ~u.black[u.child[f][x]]
        PROVE  FALSE
    <3>1. x # r /\ x \in Node
      BY <1>1, <1>3, <2>2
    <3> QED
      BY <1>2, <1>3, <1>5, <2>2, <3>1
  <2> QED
    BY <1>3, <2>1, <2>2 DEF Reds
<1>7. PICK G : G = [x \in Node |-> IF x = r /\ r # Nil /\ ~t.black[r] THEN H[x] + 1 ELSE H[x]]
  OBVIOUS
<1>8. /\ G \in [Node -> Nat] /\ G[Nil] = 0
      /\ \A x \in Node : x # r => G[x] = H[x]
      /\ r # Nil /\ r \in Node => G[r] = H[r] + 1 - Ink(t, r)
  BY <1>1, <1>4, <1>7 DEF Ink
<1>9. ASSUME NEW x \in N, NEW f \in Dir
      PROVE  /\ G[x] = Ink(u, x) + G[u.child[f][x]]
             /\ G[u.child[f][x]] \in Nat /\ Ink(u, x) \in Nat
  <2>1. G[u.child[f][x]] = H[t.child[f][x]] /\ H[t.child[f][x]] \in Nat
    BY <1>3, <1>4, <1>5, <1>8
  <2>2. H[x] = Ink(t, x) + H[t.child[f][x]] /\ x \in Node /\ x # Nil
    BY <1>1, <1>4
  <2>3. CASE x = r
    <3>1. Ink(u, x) = 1 /\ Ink(t, x) \in Nat
      BY <1>3, <2>3 DEF Ink
    <3> QED
      BY <1>8, <2>1, <2>2, <2>3, <3>1
  <2>4. CASE x # r
    <3>1. Ink(u, x) = Ink(t, x) /\ Ink(t, x) \in Nat /\ G[x] = H[x]
      BY <1>3, <1>8, <2>2, <2>4 DEF Ink
    <3> QED
      BY <2>1, <2>2, <3>1
  <2> QED
    BY <2>3, <2>4
<1>10. Heights(u, N, G, Nil, "left")
  BY <1>1, <1>8, <1>9, MakeHeights
<1> QED
  BY <1>6, <1>10 DEF Idle

(* The end of rebalance_insert. *)
LEMMA InsertDoneStep ==
    ASSUME NEW D, Shape(tree, nodes, D), Inserting(tree, nodes, cur), RebalanceInsertDone
    PROVE  Shape(tree', nodes, D) /\ Idle(tree', nodes)
<1>1. PICK t, u, c : t = tree /\ u = tree' /\ c = cur
  OBVIOUS
<1>2. (c = t.root \/ t.black[t.parent[c]]) /\ u = Paint(t, t.root, TRUE)
  BY <1>1 DEF RebalanceInsertDone
<1>3. Shape(t, nodes, D) /\ c \in nodes /\ Reds(t, nodes, c, Nil)
  BY <1>1 DEF Inserting
<1>4. t \in TreeRecord /\ nodes \subseteq Key /\ Nil \notin Key /\ t.root \in Node
  BY <1>3, TreeTypes DEF Shape
<1>5. Painted(t, u, t.root, TRUE)
  <2>1. PICK b \in BOOLEAN : b = TRUE
    OBVIOUS
  <2>2. u = Paint(t, t.root, b)
    BY <1>2, <2>1
  <2>3. Painted(t, u, t.root, b)
    BY <1>4, <2>2, PaintFacts
  <2> QED
    BY <2>1, <2>3
<1>6. Shape(u, nodes, D)
  BY <1>3, <1>5, SameLinks DEF Painted, Repainted
<1>7. PICK H : Heights(t, nodes, H, Nil, "left")
  BY <1>1 DEF Inserting
<1>8. ASSUME NEW k \in nodes, NEW f \in Dir, ~t.black[k], ~t.black[t.child[f][k]]
      PROVE  FALSE
  <2>1. t.child[f][k] = c
    BY <1>3, <1>4, <1>8 DEF Reds
  <2>2. k = t.parent[c] /\ k \in Key
    BY <1>3, <1>4, <2>1, OnlySlot
  <2>3. c # t.root
    <3>1. \A x \in Key, e \in Dir : t.child[e][x] # t.root
      BY <1>3, RootSlot
    <3> QED
      BY <2>1, <2>2, <3>1
  <2> QED
    BY <1>2, <1>8, <2>2, <2>3
<1>9. t.black[Nil]
  BY <1>3 DEF Reds
<1>10. Idle(u, nodes)
  BY <1>3, <1>5, <1>7, <1>8, <1>9, PaintRoot
<1> QED
  BY <1>1, <1>6, <1>10

(* Painting a red node below which a black node is missing. *)
LEMMA PaintShort ==
    ASSUME NEW t, NEW N, NEW D, Shape(t, N, D), NEW c \in N, ~t.black[c], c # t.root,
           NEW p \in N, NEW s \in Dir, t.child[s][p] = c, NEW H, Heights(t, N, H, p, s),
           Reds(t, N, c, c), NEW u, Painted(t, u, c, TRUE)
    PROVE  Idle(u, N)
<1>1. t \in TreeRecord /\ N \subseteq Key /\ Nil \notin Key /\ Node = Key \cup {Nil} /\ Nil \in Node /\ t.root \in Node
  BY TreeTypes DEF Shape
<1>2. c \in Key /\ p \in Key /\ c # Nil
  BY <1>1
<1>3. /\ u \in TreeRecord /\ u.root = t.root /\ u.child = t.child /\ u.black[c]
      /\ \A x \in Node : x # c => u.black[x] = t.black[x]
  BY DEF Painted, Repainted
<1>4. t.black[Nil] /\ t.black[t.root]
  BY DEF Reds
<1>5. \A k \in Key, f \in Dir : t.child[f][k] = c => k = p /\ f = s
  <2>1. ASSUME NEW k \in Key, NEW f \in Dir, t.child[f][k] = c
        PROVE  k = p /\ f = s
    <3>1. k = t.parent[c] /\ p = t.parent[c] /\ t.child[Other(s)][p] # c
      BY <1>2, <2>1, OnlySlot
    <3>2. f = s \/ f = Other(s)
      BY SideFacts
    <3> QED
      BY <2>1, <3>1, <3>2
  <2> QED
    BY <2>1
<1>6. \A k \in Key, f \in Dir : t.child[f][k] \in Node
  BY <1>1, TreeTypes
<1>7. c # p
  <2>1. p \notin D[t.child[s][p]] /\ c \in D[c]
    BY <1>2, Children
  <2> QED
    BY <2>1
<1>8. Reds(u, N, Nil, Nil)
  <2>1. ASSUME NEW x \in N, NEW f \in Dir, ~u.black[x], ~u.black[u.child[f][x]]
        PROVE  FALSE
    <3>1. x # c /\ t.child[f][x] # c /\ x \in Key
      BY <1>1, <1>3, <2>1
    <3>2. ~t.black[x] /\ ~t.black[t.child[f][x]]
      BY <1>1, <1>3, <1>6, <2>1, <3>1
    <3> QED
      BY <3>1, <3>2 DEF Reds
  <2> QED
    BY <1>1, <1>2, <1>3, <1>4, <2>1 DEF Reds
<1>9. /\ H \in [Node -> Nat] /\ H[Nil] = 0
      /\ \A k \in N, f \in Dir : H[k] = Ink(t, k) + H[t.child[f][k]] + Missing(k, f, p, s)
  BY DEF Heights
<1>10. PICK G : G = [H EXCEPT ![c] = H[c] + 1]
  OBVIOUS
<1>11. /\ G \in [Node -> Nat] /\ G[Nil] = 0 /\ G[c] = H[c] + 1
       /\ \A x \in Node : x # c => G[x] = H[x]
  BY <1>1, <1>2, <1>9, <1>10
<1>12. ASSUME NEW x \in N, NEW f \in Dir
       PROVE  /\ G[x] = Ink(u, x) + G[u.child[f][x]]
              /\ G[u.child[f][x]] \in Nat /\ Ink(u, x) \in Nat
  <2>1. PICK y \in Node : y = t.child[f][x]
    BY <1>1, <1>6
  <2>2. H[x] = Ink(t, x) + H[y] + Missing(x, f, p, s) /\ u.child[f][x] = y /\ x \in Node /\ x \in Key
    BY <1>1, <1>3, <1>9, <2>1
  <2>3. H[y] \in Nat /\ H[x] \in Nat /\ G[y] \in Nat /\ Ink(t, x) \in Nat /\ Ink(u, x) \in Nat
    BY <1>9, <1>11, <2>2 DEF Ink
  <2>4. CASE x = c
    <3>1. Ink(u, x) = 1 /\ Ink(t, x) = 0 /\ Missing(x, f, p, s) = 0
      BY <1>3, <1>7, <2>4 DEF Ink, Missing
    <3>2. y # c
      BY <1>5, <1>7, <2>1, <2>2, <2>4
    <3>3. G[y] = H[y] /\ G[x] = H[x] + 1
      BY <1>11, <2>4, <3>2
    <3> QED
      BY <2>2, <2>3, <3>1, <3>3
  <2>5. CASE x # c /\ y = c
    <3>1. Missing(x, f, p, s) = 1
      BY <1>5, <2>1, <2>2, <2>5 DEF Missing
    <3>2. Ink(u, x) = Ink(t, x) /\ G[x] = H[x] /\ G[y] = H[y] + 1
      BY <1>3, <1>11, <2>2, <2>5 DEF Ink
    <3> QED
      BY <2>2, <2>3, <3>1, <3>2
  <2>6. CASE x # c /\ y # c
    <3>1. Missing(x, f, p, s) = 0
      BY <2>1, <2>6 DEF Missing
    <3>2. Ink(u, x) = Ink(t, x) /\ G[x] = H[x] /\ G[y] = H[y]
      BY <1>3, <1>11, <2>1, <2>2, <2>6 DEF Ink
    <3> QED
      BY <2>2, <2>3, <3>1, <3>2
  <2> QED
    BY <2>4, <2>5, <2>6
<1>13. Heights(u, N, G, Nil, "left")
  BY <1>1, <1>11, <1>12, MakeHeights
<1> QED
  BY <1>8, <1>13 DEF Idle

(* The end of rebalance_delete. *)
LEMMA DeleteDoneStep ==
    ASSUME NEW D, Shape(tree, nodes, D), Deleting(tree, nodes, cur), RebalanceDeleteDone
    PROVE  Shape(tree', nodes, D) /\ Idle(tree', nodes)
<1>1. PICK t, u, c : t = tree /\ u = tree' /\ c = cur
  OBVIOUS
<1>2. (c = t.root \/ ~t.black[c]) /\ u = Paint(t, c, TRUE)
  BY <1>1 DEF RebalanceDeleteDone
<1>3. Shape(t, nodes, D) /\ c \in nodes \cup {Nil} /\ Reds(t, nodes, c, c)
  BY <1>1 DEF Deleting
<1>4. t \in TreeRecord /\ nodes \subseteq Key /\ Nil \notin Key /\ t.root \in Node /\ c \in Node
  BY <1>3, TreeTypes DEF Shape
<1>5. Painted(t, u, c, TRUE)
  <2>1. PICK b \in BOOLEAN : b = TRUE
    OBVIOUS
  <2>2. u = Paint(t, c, b)
    BY <1>2, <2>1
  <2>3. Painted(t, u, c, b)
    BY <1>4, <2>2, PaintFacts
  <2> QED
    BY <2>1, <2>3
<1>6. Shape(u, nodes, D)
  BY <1>3, <1>5, SameLinks DEF Painted, Repainted
<1>7. t.black[Nil]
  BY <1>3 DEF Reds
<1>8. CASE c = t.root
  <2>1. PICK H : Heights(t, nodes, H, Nil, "left")
    BY <1>1, <1>8 DEF Deleting
  <2>2. ASSUME NEW k \in nodes, NEW f \in Dir, ~t.black[k], ~t.black[t.child[f][k]]
        PROVE  k = t.root
    <3>1. t.child[f][k] = t.root \/ k = t.root
      BY <1>3, <1>8, <2>2 DEF Reds
    <3>2. k \in Key /\ nodes # {}
      BY <1>4
    <3>3. \A x \in Key, e \in Dir : t.child[e][x] # t.root
      BY <1>3, <3>2, RootSlot
    <3> QED
      BY <3>1, <3>2, <3>3
  <2>3. Painted(t, u, t.root, TRUE)
    BY <1>5, <1>8
  <2>4. Idle(u, nodes)
    BY <1>3, <1>7, <2>1, <2>2, <2>3, PaintRoot
  <2> QED
    BY <1>1, <1>6, <2>4
<1>9. CASE c # t.root
  <2>1. ~t.black[c] /\ c \in nodes
    BY <1>2, <1>3, <1>7, <1>9
  <2>2. PICK p : p = t.parent[c] /\ p \in nodes
    BY <1>1, <1>9 DEF Deleting
  <2>3. PICK H : \E s \in Dir : t.child[s][p] = c /\ Heights(t, nodes, H, p, s)
    BY <1>1, <1>9, <2>2 DEF Deleting
  <2>4. PICK s \in Dir : t.child[s][p] = c /\ Heights(t, nodes, H, p, s)
    BY <2>3
  <2>5. Idle(u, nodes)
    BY <1>3, <1>5, <1>9, <2>1, <2>2, <2>4, PaintShort
  <2> QED
    BY <1>1, <1>6, <2>5
<1> QED
  BY <1>8, <1>9

-----------------------------------------------------------------------------
(* remove: a node with at most one child is unlinked *)

(* k hangs from its parent only, or is the root and nobody's child. *)
OnlyLink(t, k) ==
    /\ \A f \in Dir, a \in Key : t.child[f][a] = k => a = t.parent[k]
    /\ t.parent[k] = Nil => t.root = k
    /\ t.parent[k] # Nil => /\ t.parent[k] \in Key /\ t.root # k
                            /\ \E e \in Dir : t.child[e][t.parent[k]] = k
                            /\ \A e \in Dir : t.child[e][t.parent[k]] = k => t.child[Other(e)][t.parent[k]] # k

LEMMA NodeLink ==
    ASSUME NEW t, NEW N, NEW D, Shape(t, N, D), NEW k \in N
    PROVE  OnlyLink(t, k)
<1>1. N \subseteq Key /\ Nil \notin Key
  BY TreeAssumption DEF Shape
<1>2. /\ k = t.root => t.parent[k] = Nil
      /\ k # t.root => t.parent[k] \in N /\ \E e \in Dir : t.child[e][t.parent[k]] = k
      /\ \A a \in Key, e \in Dir : t.child[e][a] = k => a = t.parent[k] /\ t.child[Other(e)][a] # k
  BY Slot
<1> QED
  BY <1>1, <1>2 DEF OnlyLink

(* v is t with x in the place of k. *)
Transplanted(t, v, k, x) ==
    /\ v \in TreeRecord /\ v.black = t.black
    /\ v.root = IF t.root = k THEN x ELSE t.root
    /\ \A f \in Dir, a \in Key : v.child[f][a] = IF t.child[f][a] = k THEN x ELSE t.child[f][a]
    /\ v.parent[x] = t.parent[k]
    /\ \A a \in Node : a # x => v.parent[a] = t.parent[a]

LEMMA TransplantLinks ==
    ASSUME NEW t \in TreeRecord, NEW k \in Key, OnlyLink(t, k), NEW x \in Node,
           NEW v, v = Transplant(t, k, x)
    PROVE  Transplanted(t, v, k, x)
<1>1. PICK p \in Node : p = t.parent[k]
  <2>1. k \in Node
    BY DEF Node
  <2> QED
    BY <2>1, TreeTypes
<1>2. PICK e \in Dir : e = IF t.child["left"][p] = k THEN "left" ELSE "right"
  BY DEF Dir
<1>3. PICK w : w = Rehang(t, k, x)
  OBVIOUS
<1>4. /\ p = Nil => RootSet(t, w, x)
      /\ p # Nil => ChildSet(t, w, e, p, x)
  BY <1>1, <1>2, <1>3, RehangFacts
<1>5. w \in TreeRecord
  BY <1>4 DEF RootSet, ChildSet
<1>6. v = WithParent(w, x, p)
  BY <1>1, <1>3 DEF Transplant
<1>7. ParentSet(w, v, x, p)
  BY <1>5, <1>6, SetParent
<1>8. /\ w.black = t.black /\ w.parent = t.parent
      /\ w.root = IF t.root = k THEN x ELSE t.root
      /\ \A f \in Dir, a \in Key : w.child[f][a] = IF t.child[f][a] = k THEN x ELSE t.child[f][a]
  <2>1. CASE p = Nil
    <3>1. t.root = k /\ \A f \in Dir, a \in Key : t.child[f][a] # k
      BY <1>1, <2>1, TreeAssumption DEF OnlyLink
    <3> QED
      BY <1>4, <2>1, <3>1 DEF RootSet
  <2>2. CASE p # Nil
    <3>1. /\ t.root # k /\ p \in Key /\ \A f \in Dir, a \in Key : t.child[f][a] = k => a = p
      BY <1>1, <2>2 DEF OnlyLink
    <3>2. t.child[e][p] = k /\ \A f \in Dir : t.child[f][p] = k => f = e
      <4>1. PICK g \in Dir : t.child[g][p] = k
        BY <1>1, <2>2 DEF OnlyLink
      <4>2. \A f \in Dir : t.child[f][p] = k => t.child[Other(f)][p] # k
        BY <1>1, <2>2 DEF OnlyLink
      <4>3. t.child[e][p] = k
        BY <1>2, <4>1 DEF Dir
      <4>4. \A f \in Dir : f = e \/ f = Other(e)
        BY SideFacts
      <4> QED
        BY <4>2, <4>3, <4>4
    <3>3. /\ w.root = t.root /\ w.parent = t.parent /\ w.black = t.black
          /\ w.child[e][p] = x
          /\ \A f \in Dir, a \in Key : f # e \/ a # p => w.child[f][a] = t.child[f][a]
      BY <1>4, <2>2 DEF ChildSet
    <3> QED
      BY <3>1, <3>2, <3>3
  <2> QED
    BY <2>1, <2>2
<1> QED
  BY <1>1, <1>7, <1>8 DEF ParentSet, Transplanted

(* u is t without k, and with x, k's only child if it has one, in k's place. *)
Unlinked(t, u, k, x) ==
    /\ u \in TreeRecord /\ u.parent[k] = Nil /\ u.black[k] = TRUE
    /\ \A f \in Dir : u.child[f][k] = Nil
    /\ u.root = IF t.root = k THEN x ELSE t.root
    /\ \A f \in Dir, a \in Key :
            a # k => u.child[f][a] = IF t.child[f][a] = k THEN x ELSE t.child[f][a]
    /\ u.parent[x] = t.parent[k]
    /\ \A a \in Node : a # k /\ a # x => u.parent[a] = t.parent[a]
    /\ \A a \in Node : a # k => u.black[a] = t.black[a]

LEMMA UnlinkLinks ==
    ASSUME NEW t \in TreeRecord, NEW k \in Key, OnlyLink(t, k), NEW x \in Node, x # k,
           NEW u, u = Forget(Transplant(t, k, x), k)
    PROVE  Unlinked(t, u, k, x)
<1>1. PICK v : v = Transplant(t, k, x)
  OBVIOUS
<1>2. Transplanted(t, v, k, x)
  BY <1>1, TransplantLinks
<1>3. PICK b \in BOOLEAN : b = TRUE
  OBVIOUS
<1>4. v \in TreeRecord /\ Nil \in Node /\ u = Leaf(v, k, Nil, b)
  BY <1>1, <1>2, <1>3 DEF Transplanted, Forget, Node
<1>5. /\ u \in TreeRecord /\ u.root = v.root /\ u.parent[k] = Nil /\ u.black[k] = b
      /\ \A f \in Dir : u.child[f][k] = Nil
      /\ \A f \in Dir, a \in Key : a # k => u.child[f][a] = v.child[f][a]
      /\ \A a \in Node : a # k => u.parent[a] = v.parent[a] /\ u.black[a] = v.black[a]
  BY <1>4, LeafFacts
<1> QED
  BY <1>2, <1>3, <1>5 DEF Transplanted, Unlinked

(* The search tree without k. *)
LEMMA UnlinkShape ==
    ASSUME NEW t, NEW N, NEW D, Shape(t, N, D), NEW k \in N, NEW d \in Dir, NEW x, x = t.child[d][k],
           t.child[Other(d)][k] = Nil, NEW u, Unlinked(t, u, k, x)
    PROVE  \E E : Shape(u, N \ {k}, E)
<1> DEFINE E == [a \in Node |-> IF a = k THEN {k} ELSE D[a] \ {k}]
<1>1. /\ t \in TreeRecord /\ N \subseteq Key /\ D \in [Node -> SUBSET Key] /\ D[Nil] = {}
      /\ D[t.root] = N /\ \A a \in Key \ N, f \in Dir : t.child[f][a] = Nil
  BY DEF Shape
<1>2. /\ u \in TreeRecord /\ Node = Key \cup {Nil} /\ Nil \notin Key /\ k \in Key /\ k # Nil
      /\ t.root \in Node /\ u.root \in Node
      /\ \A f \in Dir, a \in Key : t.child[f][a] \in Node /\ u.child[f][a] \in Node
  BY <1>1, TreeTypes DEF Unlinked
<1>3. x \in Node /\ D[k] = {k} \cup D[x] /\ k \notin D[x] /\ x # k
  <2>1. /\ x \in Node /\ D[k] = {k} \cup D[x] \cup D[t.child[Other(d)][k]] /\ k \notin D[x]
    BY <1>2, Children
  <2>2. x # k
    BY <1>2, <2>1, Children
  <2> QED
    BY <1>1, <2>1, <2>2
<1>4. /\ E \in [Node -> SUBSET Key] /\ E[Nil] = {} /\ E[k] = {k} /\ E[x] = D[x]
      /\ \A a \in Node : a # k => E[a] = D[a] \ {k}
  <2>1. E \in [Node -> SUBSET Key] /\ E[k] = {k} /\ \A a \in Node : a # k => E[a] = D[a] \ {k}
    BY <1>1, <1>2
  <2> HIDE DEF E
  <2>2. \A a \in Node : a # k /\ k \notin D[a] => E[a] = D[a]
    BY <2>1
  <2>3. E[x] = D[x]
    BY <1>3, <2>2, Zenon
  <2> QED
    BY <1>1, <1>2, <2>1, <2>3
<1> HIDE DEF E
<1>5. /\ \A f \in Dir : u.child[f][k] = Nil
      /\ u.root = IF t.root = k THEN x ELSE t.root
      /\ \A f \in Dir, a \in Key :
            a # k => u.child[f][a] = IF t.child[f][a] = k THEN x ELSE t.child[f][a]
      /\ u.parent[x] = t.parent[k]
      /\ \A a \in Node : a # k /\ a # x => u.parent[a] = t.parent[a]
  BY DEF Unlinked
<1>6. \A f \in Dir, a \in Key : a # k => E[u.child[f][a]] = D[t.child[f][a]] \ {k}
  <2>1. ASSUME NEW f \in Dir, NEW a \in Key, a # k
        PROVE  E[u.child[f][a]] = D[t.child[f][a]] \ {k}
    <3>1. PICK c \in Node : c = t.child[f][a]
      BY <1>2
    <3>2. CASE c = k
      <4>1. u.child[f][a] = x
        BY <1>5, <2>1, <3>1, <3>2
      <4>2. D[k] \ {k} = D[x]
        BY <1>3
      <4> QED
        BY <1>4, <3>1, <3>2, <4>1, <4>2
    <3>3. CASE c # k
      BY <1>4, <1>5, <2>1, <3>1, <3>3
    <3> QED
      BY <3>2, <3>3
  <2> QED
    BY <2>1
<1>7. ASSUME NEW a \in Key
      PROVE  E[a] = {a} \cup E[u.child["left"][a]] \cup E[u.child["right"][a]]
  <2>1. "left" \in Dir /\ "right" \in Dir
    BY DEF Dir
  <2>2. CASE a = k
    BY <1>4, <1>5, <2>1, <2>2
  <2>3. CASE a # k
    <3>1. D[a] = {a} \cup D[t.child["left"][a]] \cup D[t.child["right"][a]]
      BY DEF Shape
    <3>2. E[a] = D[a] \ {k}
      BY <1>2, <1>4, <2>3
    <3>3. /\ E[u.child["left"][a]] = D[t.child["left"][a]] \ {k}
          /\ E[u.child["right"][a]] = D[t.child["right"][a]] \ {k}
      BY <1>6, <2>1, <2>3
    <3> QED
      BY <2>3, <3>1, <3>2, <3>3
  <2> QED
    BY <2>2, <2>3
<1>8. ASSUME NEW a \in Key, NEW f \in Dir, NEW y \in E[u.child[f][a]]
      PROVE  OnSide(f, y, a)
  <2>1. a # k
    BY <1>4, <1>5
  <2>2. y \in D[t.child[f][a]]
    BY <1>6, <2>1
  <2> QED
    BY <2>2 DEF Shape
<1>9. ASSUME NEW a \in Key, NEW f \in Dir, u.child[f][a] # Nil
      PROVE  u.parent[u.child[f][a]] = a
  <2>1. a # k
    BY <1>5, <1>9
  <2>2. PICK c \in Node : c = t.child[f][a]
    BY <1>2
  <2>3. CASE c = k
    <3>1. t.child[f][a] # Nil
      BY <1>2, <2>2, <2>3
    <3>2. t.parent[t.child[f][a]] = a
      BY <3>1, ChildParent
    <3> QED
      BY <1>5, <2>1, <2>2, <2>3, <3>2
  <2>4. CASE c # k
    <3>1. u.child[f][a] = c /\ c # Nil
      BY <1>5, <1>9, <2>1, <2>2, <2>4
    <3>2. t.parent[c] = a
      BY <2>2, <3>1, ChildParent
    <3>3. c # x
      <4>1. x # Nil => t.parent[x] = k
        BY <1>2, ChildParent
      <4> QED
        BY <2>1, <3>1, <3>2, <4>1
    <3> QED
      BY <1>5, <2>4, <3>1, <3>2, <3>3
  <2> QED
    BY <2>3, <2>4
<1>10. \A a \in Key \ (N \ {k}), f \in Dir : u.child[f][a] = Nil
  BY <1>1, <1>2, <1>5
<1>11. E[u.root] = N \ {k} /\ (u.root # Nil => u.parent[u.root] = Nil)
  <2>1. t.root # Nil /\ t.parent[t.root] = Nil
    BY RootSlot
  <2>2. CASE t.root = k
    BY <1>1, <1>3, <1>4, <1>5, <2>1, <2>2
  <2>3. CASE t.root # k
    <3>1. t.root # x
      BY <1>2, RootSlot
    <3> QED
      BY <1>1, <1>2, <1>4, <1>5, <2>1, <2>3, <3>1
  <2> QED
    BY <2>2, <2>3
<1>12. Shape(u, N \ {k}, E)
  BY <1>1, <1>2, <1>4, <1>7, <1>8, <1>9, <1>10, <1>11 DEF Shape
<1> QED
  BY <1>12

(* One node less: when it was black, a black node is missing where it was. *)
LEMMA UnlinkColours ==
    ASSUME NEW t, NEW N, NEW D, Shape(t, N, D), NEW k \in N, NEW d \in Dir, NEW x, x = t.child[d][k],
           t.child[Other(d)][k] = Nil, NEW u, Unlinked(t, u, k, x), Idle(t, N)
    PROVE  /\ t.black[k] => Deleting(u, N \ {k}, x)
           /\ ~t.black[k] => Idle(u, N \ {k})
<1>1. /\ t \in TreeRecord /\ N \subseteq Key /\ Nil \notin Key /\ Node = Key \cup {Nil} /\ t.root \in Node
      /\ \A f \in Dir, a \in Key : t.child[f][a] \in Node
  BY TreeTypes DEF Shape
<1>2. PICK H : Heights(t, N, H, Nil, "left")
  BY DEF Idle
<1>3. t.black[Nil] /\ t.black[t.root] /\ \A a \in N, f \in Dir : ~t.black[a] => t.black[t.child[f][a]]
  <2>1. Reds(t, N, Nil, Nil)
    BY DEF Idle
  <2> QED
    BY <1>1, <2>1, NoReds
<1>4. /\ H \in [Node -> Nat] /\ H[Nil] = 0
      /\ \A a \in N, f \in Dir : /\ H[a] = Ink(t, a) + H[t.child[f][a]]
                                 /\ H[t.child[f][a]] \in Nat /\ Ink(t, a) \in Nat
  BY <1>1, <1>2, PlainHeights
<1>5. k \in Key /\ k # Nil /\ x \in N \cup {Nil} /\ x \in Node
  BY <1>1, ChildNode
<1>6. x # k /\ \A f \in Dir : t.child[f][k] # k
  <2>1. \A f \in Dir : k \notin D[t.child[f][k]]
    BY <1>5, Children
  <2>2. k \in D[k]
    BY <1>5, Children
  <2> QED
    BY <2>1, <2>2
<1>7. PICK p : p = t.parent[k]
  OBVIOUS
<1>8. /\ k = t.root => p = Nil
      /\ k # t.root => p \in N /\ p # Nil /\ \E e \in Dir : t.child[e][p] = k
      /\ \A a \in Key, e \in Dir : t.child[e][a] = k => a = p /\ t.child[Other(e)][a] # k
  <2>1. /\ k = t.root => t.parent[k] = Nil
        /\ k # t.root => t.parent[k] \in N /\ \E e \in Dir : t.child[e][t.parent[k]] = k
        /\ \A a \in Key, e \in Dir : t.child[e][a] = k => a = t.parent[k] /\ t.child[Other(e)][a] # k
    BY Slot
  <2> QED
    BY <1>1, <1>7, <2>1
<1>9. PICK s \in Dir : k # t.root => t.child[s][p] = k
  <2>1. "left" \in Dir
    BY DEF Dir
  <2> QED
    BY <1>8, <2>1
<1>10. \A a \in N, f \in Dir : t.child[f][a] = k <=> (k # t.root /\ a = p /\ f = s)
  <2>1. ASSUME NEW a \in N, NEW f \in Dir, t.child[f][a] = k
        PROVE  k # t.root /\ a = p /\ f = s
    <3>1. a \in Key
      BY <1>1
    <3>2. a = p /\ t.child[Other(f)][a] # k
      BY <1>8, <2>1, <3>1
    <3>3. k # t.root
      BY <1>1, <1>8, <3>1, <3>2
    <3>4. s = f \/ s = Other(f)
      BY SideFacts
    <3> QED
      BY <1>9, <3>2, <3>3, <3>4
  <2> QED
    BY <1>9, <2>1
<1>11. /\ u.root = IF t.root = k THEN x ELSE t.root
       /\ \A f \in Dir, a \in N \ {k} : u.child[f][a] = IF t.child[f][a] = k THEN x ELSE t.child[f][a]
       /\ u.parent[x] = p
       /\ \A a \in Node : a # k => u.black[a] = t.black[a]
  BY <1>1, <1>7 DEF Unlinked
<1>12. Reds(u, N \ {k}, x, x)
  <2>1. u.black[Nil]
    BY <1>1, <1>3, <1>5, <1>11
  <2>2. u.black[u.root] \/ u.root = x
    BY <1>1, <1>3, <1>11
  <2>3. ASSUME NEW a \in N \ {k}, NEW f \in Dir, ~u.black[a], ~u.black[u.child[f][a]]
        PROVE  u.child[f][a] = x
    <3>1. CASE t.child[f][a] = k
      BY <1>11, <3>1
    <3>2. CASE t.child[f][a] # k
      <4>1. u.child[f][a] = t.child[f][a] /\ t.child[f][a] \in Node /\ a \in Node /\ a # k
        BY <1>1, <1>11, <3>2
      <4>2. ~t.black[a] /\ ~t.black[t.child[f][a]]
        BY <1>11, <2>3, <3>2, <4>1
      <4> QED
        BY <1>3, <4>2
    <3> QED
      BY <3>1, <3>2
  <2> QED
    BY <2>1, <2>2, <2>3 DEF Reds
<1>13. H[k] = Ink(t, k) + H[x] /\ H[k] = Ink(t, k) + 0 /\ H[x] \in Nat /\ Ink(t, k) \in Nat
  <2>1. Other(d) \in Dir
    BY SideFacts
  <2> QED
    BY <1>4, <2>1
<1>14. ASSUME NEW a \in N \ {k}, NEW f \in Dir
       PROVE  /\ H[a] = Ink(u, a) + H[u.child[f][a]] + (IF k # t.root /\ a = p /\ f = s THEN Ink(t, k) ELSE 0)
              /\ H[u.child[f][a]] \in Nat /\ Ink(u, a) \in Nat
  <2>1. H[a] = Ink(t, a) + H[t.child[f][a]] /\ H[t.child[f][a]] \in Nat
    BY <1>4
  <2>2. Ink(u, a) = Ink(t, a) /\ Ink(u, a) \in Nat
    BY <1>1, <1>11 DEF Ink
  <2>3. CASE t.child[f][a] = k
    <3>1. u.child[f][a] = x /\ k # t.root /\ a = p /\ f = s
      BY <1>10, <1>11, <2>3
    <3>2. H[a] = Ink(u, a) + H[x] + Ink(t, k)
      BY <1>13, <2>1, <2>2, <2>3
    <3> QED
      BY <1>13, <2>2, <3>1, <3>2
  <2>4. CASE t.child[f][a] # k
    <3>1. u.child[f][a] = t.child[f][a] /\ ~(k # t.root /\ a = p /\ f = s)
      BY <1>10, <1>11, <2>4
    <3> QED
      BY <2>1, <2>2, <3>1
  <2> QED
    BY <2>3, <2>4
<1>15. N \ {k} \subseteq Key
  BY <1>1
<1>16. ASSUME t.black[k]
       PROVE  Deleting(u, N \ {k}, x)
  <2>1. Ink(t, k) = 1
    BY <1>16 DEF Ink
  <2>2. CASE k = t.root
    <3>1. \A a \in N \ {k}, f \in Dir : /\ H[a] = Ink(u, a) + H[u.child[f][a]]
                                        /\ H[u.child[f][a]] \in Nat /\ Ink(u, a) \in Nat
      BY <1>14, <2>2
    <3>2. Heights(u, N \ {k}, H, Nil, "left")
      BY <1>4, <1>15, <3>1, MakeHeights
    <3>3. u.root = x
      BY <1>11, <2>2
    <3> QED
      BY <1>5, <1>6, <1>12, <3>2, <3>3 DEF Deleting
  <2>3. CASE k # t.root
    <3>1. \A a \in N \ {k}, f \in Dir : Missing(a, f, p, s) = IF a = p /\ f = s THEN 1 ELSE 0
      BY DEF Missing
    <3>2. \A a \in N \ {k}, f \in Dir : H[a] = Ink(u, a) + H[u.child[f][a]] + Missing(a, f, p, s)
      BY <1>14, <2>1, <2>3, <3>1
    <3>3. Heights(u, N \ {k}, H, p, s)
      BY <1>4, <3>2 DEF Heights
    <3>4. p \in N \ {k} /\ t.child[s][p] = k
      BY <1>6, <1>8, <1>9, <2>3
    <3>5. u.child[s][p] = x
      BY <1>11, <3>4
    <3>6. x # u.root
      <4>1. u.root = t.root /\ t.root # Nil
        BY <1>11, <2>3, RootSlot
      <4>2. t.child[d][k] # t.root
        BY <1>5, RootSlot
      <4> QED
        BY <4>1, <4>2
    <3> QED
      BY <1>5, <1>6, <1>11, <1>12, <3>3, <3>4, <3>5, <3>6 DEF Deleting
  <2> QED
    BY <2>2, <2>3
<1>17. ASSUME ~t.black[k]
       PROVE  Idle(u, N \ {k})
  <2>1. Ink(t, k) = 0
    BY <1>17 DEF Ink
  <2>2. H[x] = 0 /\ t.black[x]
    BY <1>3, <1>13, <1>17, <2>1
  <2>3. x = Nil
    <3>1. ASSUME x \in N
          PROVE  FALSE
      <4>1. H[x] = Ink(t, x) + H[t.child[d][x]] /\ H[t.child[d][x]] \in Nat
        BY <1>4, <3>1
      <4>2. Ink(t, x) = 1
        BY <2>2 DEF Ink
      <4> QED
        BY <2>2, <4>1, <4>2
    <3> QED
      BY <1>5, <3>1
  <2>4. \A a \in N \ {k}, f \in Dir : /\ H[a] = Ink(u, a) + H[u.child[f][a]]
                                      /\ H[u.child[f][a]] \in Nat /\ Ink(u, a) \in Nat
    BY <1>14, <2>1
  <2>5. Heights(u, N \ {k}, H, Nil, "left")
    BY <1>4, <1>15, <2>4, MakeHeights
  <2> QED
    BY <1>12, <2>3, <2>5 DEF Idle
<1> QED
  BY <1>16, <1>17

-----------------------------------------------------------------------------
(* remove: a node takes the place of another *)

(* u is t with y, which was not in the tree, in the place of k; what hung   *)
(* from k, x among it or not, hangs from y.                                 *)
Replaced(t, u, N, k, y, x) ==
    /\ u \in TreeRecord
    /\ \A f \in Dir : u.child[f][y] = t.child[f][k] /\ u.child[f][k] = Nil
    /\ \A f \in Dir, z \in Key \ {k, y} :
            u.child[f][z] = IF t.child[f][z] = k THEN y ELSE t.child[f][z]
    /\ u.root = IF t.root = k THEN y ELSE t.root
    /\ u.parent[y] = t.parent[k]
    /\ \A z \in (N \ {k}) \cup {x} : u.parent[z] = IF t.parent[z] = k THEN y ELSE t.parent[z]
    /\ u.black[y] = t.black[k]
    /\ \A z \in Node \ {k, y} : u.black[z] = t.black[z]

(* A set with y for k. *)
Swapped(S, k, y) == IF k \in S THEN (S \ {k}) \cup {y} ELSE S

LEMMA SwappedFacts ==
    /\ \A k, y : Swapped({}, k, y) = {}
    /\ \A k, y, A : k \notin A => Swapped(A, k, y) = A
    /\ \A k, y, A : \A w \in Swapped(A, k, y) : w \in A \/ (w = y /\ k \in A)
<1>1. \A k, y : Swapped({}, k, y) = {}
  BY DEF Swapped
<1>2. \A k, y, A : k \notin A => Swapped(A, k, y) = A
  BY DEF Swapped
<1>3. ASSUME NEW k, NEW y, NEW A, NEW w \in Swapped(A, k, y)
      PROVE  w \in A \/ (w = y /\ k \in A)
  <2>1. CASE k \in A
    BY <2>1 DEF Swapped
  <2>2. CASE k \notin A
    BY <1>2, <2>2
  <2> QED
    BY <2>1, <2>2
<1> QED
  BY <1>1, <1>2, <1>3

(* The order does not tell k and y apart: the search tree stays one. *)
LEMMA ReplaceShape ==
    ASSUME NEW t, NEW N, NEW D, Shape(t, N, D), NEW k \in N, NEW y \in Key \ N, NEW x, NEW u,
           Replaced(t, u, N, k, y, x),
           \A z \in N \ {k}, f \in Dir : OnSide(f, z, k) <=> OnSide(f, z, y)
    PROVE  \E E : Shape(u, (N \ {k}) \cup {y}, E)
<1> DEFINE E == [z \in Node |-> IF z = k THEN {k}
                                ELSE IF z = y THEN Swapped(D[k], k, y) ELSE Swapped(D[z], k, y)]
<1>1. /\ t \in TreeRecord /\ N \subseteq Key /\ D \in [Node -> SUBSET Key] /\ D[Nil] = {}
      /\ D[t.root] = N /\ \A a \in Key \ N, f \in Dir : t.child[f][a] = Nil
  BY DEF Shape
<1>2. /\ Node = Key \cup {Nil} /\ Nil \notin Key /\ Key \subseteq Int /\ k \in Key /\ k # Nil /\ y # Nil /\ y # k
      /\ t.root \in Node
      /\ \A f \in Dir, a \in Key : t.child[f][a] \in Node
  BY <1>1, TreeTypes
<1>3. /\ u \in TreeRecord
      /\ \A f \in Dir : u.child[f][y] = t.child[f][k] /\ u.child[f][k] = Nil
      /\ \A f \in Dir, z \in Key \ {k, y} : u.child[f][z] = IF t.child[f][z] = k THEN y ELSE t.child[f][z]
      /\ u.root = IF t.root = k THEN y ELSE t.root
      /\ u.parent[y] = t.parent[k]
      /\ \A z \in N \ {k} : u.parent[z] = IF t.parent[z] = k THEN y ELSE t.parent[z]
  BY DEF Replaced
<1>4. \A a \in Key, f \in Dir : t.child[f][a] # y
  <2>1. \A a \in N, f \in Dir : t.child[f][a] \in N \cup {Nil}
    BY ChildNode
  <2> QED
    BY <1>1, <1>2, <2>1
<1>5. \A f \in Dir : t.child[f][k] # k /\ k \notin D[t.child[f][k]]
  <2>1. k \in D[k] /\ \A f \in Dir : k \notin D[t.child[f][k]]
    BY <1>2, Children
  <2> QED
    BY <2>1
<1>6. /\ E[Nil] = {} /\ E[k] = {k} /\ E[y] = Swapped(D[k], k, y)
      /\ \A z \in Node : z # k /\ z # y => E[z] = Swapped(D[z], k, y)
  BY <1>1, <1>2, SwappedFacts
<1>7. E \in [Node -> SUBSET Key]
  BY <1>1, <1>2 DEF Swapped
<1> HIDE DEF E
<1>8. \A f \in Dir, z \in Key \ {k, y} : E[u.child[f][z]] = Swapped(D[t.child[f][z]], k, y)
  <2>1. ASSUME NEW f \in Dir, NEW z \in Key \ {k, y}
        PROVE  E[u.child[f][z]] = Swapped(D[t.child[f][z]], k, y)
    <3>1. PICK c \in Node : c = t.child[f][z] /\ c # y
      BY <1>2, <1>4
    <3>2. u.child[f][z] = IF c = k THEN y ELSE c
      BY <1>3, <3>1
    <3>3. E[u.child[f][z]] = Swapped(D[c], k, y)
      BY <1>6, <3>1, <3>2
    <3> QED
      BY <3>1, <3>3
  <2> QED
    BY <2>1
<1>9. \A f \in Dir : E[u.child[f][y]] = D[t.child[f][k]] /\ E[u.child[f][k]] = {}
  <2>1. ASSUME NEW f \in Dir
        PROVE  E[u.child[f][y]] = D[t.child[f][k]] /\ E[u.child[f][k]] = {}
    <3>1. PICK c \in Node : c = t.child[f][k] /\ c # y /\ c # k /\ k \notin D[c]
      BY <1>2, <1>4, <1>5
    <3>2. u.child[f][y] = c /\ E[c] = Swapped(D[c], k, y)
      BY <1>3, <1>6, <3>1
    <3>3. E[c] = D[c]
      BY <3>1, <3>2, SwappedFacts
    <3> QED
      BY <1>3, <1>6, <3>1, <3>2, <3>3
  <2> QED
    BY <2>1
<1>10. ASSUME NEW z \in Key
       PROVE  E[z] = {z} \cup E[u.child["left"][z]] \cup E[u.child["right"][z]]
  <2>1. "left" \in Dir /\ "right" \in Dir
    BY DEF Dir
  <2>2. CASE z = k
    BY <1>6, <1>9, <2>1, <2>2
  <2>3. CASE z = y
    <3>1. D[k] = {k} \cup D[t.child["left"][k]] \cup D[t.child["right"][k]]
      BY <1>2 DEF Shape
    <3>2. E[y] = {y} \cup D[t.child["left"][k]] \cup D[t.child["right"][k]]
      <4>1. E[y] = (D[k] \ {k}) \cup {y}
        BY <1>6, <3>1 DEF Swapped
      <4> QED
        BY <1>5, <2>1, <3>1, <4>1
    <3> QED
      BY <1>9, <2>1, <2>3, <3>2
  <2>4. CASE z # k /\ z # y
    <3>1. PICK A, B : A = D[t.child["left"][z]] /\ B = D[t.child["right"][z]]
      OBVIOUS
    <3>2. D[z] = {z} \cup A \cup B
      BY <3>1 DEF Shape
    <3>3. E[z] = Swapped(D[z], k, y) /\ z # k
      BY <1>2, <1>6, <2>4
    <3>4. E[u.child["left"][z]] = Swapped(A, k, y) /\ E[u.child["right"][z]] = Swapped(B, k, y)
      BY <1>8, <2>1, <2>4, <3>1
    <3>5. PICK P, Q, R : /\ P = E[u.child["left"][z]] /\ Q = E[u.child["right"][z]] /\ R = E[z]
      OBVIOUS
    <3>7. PICK S : S = D[z]
      OBVIOUS
    <3>8. /\ P = Swapped(A, k, y) /\ Q = Swapped(B, k, y) /\ R = Swapped(S, k, y)
          /\ S = {z} \cup A \cup B /\ z # k
      BY <3>2, <3>3, <3>4, <3>5, <3>7
    <3>6. R = {z} \cup P \cup Q
      <4>1. CASE k \in A /\ k \in B
        BY <3>8, <4>1 DEF Swapped
      <4>2. CASE k \in A /\ k \notin B
        BY <3>8, <4>2 DEF Swapped
      <4>3. CASE k \notin A /\ k \in B
        BY <3>8, <4>3 DEF Swapped
      <4>4. CASE k \notin A /\ k \notin B
        BY <3>8, <4>4 DEF Swapped
      <4> QED
        BY <4>1, <4>2, <4>3, <4>4
    <3> QED
      BY <3>5, <3>6
  <2> QED
    BY <2>2, <2>3, <2>4
<1>11. ASSUME NEW z \in Key, NEW f \in Dir, NEW w \in E[u.child[f][z]]
       PROVE  OnSide(f, w, z)
  <2>1. z # k
    BY <1>9
  <2>2. CASE z = y
    <3>1. w \in D[t.child[f][k]]
      BY <1>9, <2>2
    <3>2. OnSide(f, w, k)
      BY <1>2, <3>1 DEF Shape
    <3>3. w \in N \ {k}
      <4>1. D[k] \subseteq N
        BY NodeFacts
      <4>2. D[t.child[f][k]] \subseteq D[k]
        BY <1>2, Children
      <4> QED
        BY <1>5, <3>1, <4>1, <4>2
    <3> QED
      BY <2>2, <3>2, <3>3
  <2>3. CASE z # y
    <3>1. PICK c : c = t.child[f][z]
      OBVIOUS
    <3>2. w \in Swapped(D[c], k, y)
      BY <1>8, <2>1, <2>3, <3>1
    <3>3. w \in D[c] \/ (w = y /\ k \in D[c])
      <4>1. PICK S : S = D[c]
        OBVIOUS
      <4>2. w \in Swapped(S, k, y)
        BY <3>2, <4>1
      <4>3. w \in S \/ (w = y /\ k \in S)
        BY <4>2, SwappedFacts
      <4> QED
        BY <4>1, <4>3
    <3>4. \A v \in D[c] : OnSide(f, v, z)
      BY <3>1 DEF Shape
    <3>5. CASE w = y /\ k \in D[c]
      <4>1. OnSide(f, k, z)
        BY <3>4, <3>5
      <4>2. z \in N \ {k}
        BY <1>1, <2>1, <3>1, <3>5
      <4>3. PICK o \in Dir : o = Other(f)
        BY SideFacts
      <4>4. OnSide(o, z, k)
        BY <1>2, <4>1, <4>3, SideFacts
      <4>5. OnSide(o, z, y)
        BY <4>2, <4>4
      <4>6. y \in Int /\ z \in Int
        BY <1>2
      <4>7. OnSide(f, y, z)
        BY <4>3, <4>5, <4>6, SideFacts
      <4> QED
        BY <3>5, <4>7
    <3> QED
      BY <3>3, <3>4, <3>5
  <2> QED
    BY <2>2, <2>3
<1>12. ASSUME NEW z \in Key, NEW f \in Dir, u.child[f][z] # Nil
       PROVE  u.parent[u.child[f][z]] = z
  <2>0. \A a \in N : t.child[f][a] # Nil => t.child[f][a] \in N
    BY ChildNode
  <2>1. z # k
    BY <1>3, <1>12
  <2>2. CASE z = y
    <3>1. PICK c : c = t.child[f][k] /\ c # Nil /\ c = u.child[f][z]
      BY <1>3, <1>12, <2>2
    <3>2. t.parent[c] = k
      <4>1. t.child[f][k] # Nil
        BY <3>1
      <4>2. t.parent[t.child[f][k]] = k
        BY <1>2, <4>1, ChildParent
      <4> QED
        BY <3>1, <4>2
    <3>3. c \in N \ {k}
      BY <1>5, <2>0, <3>1
    <3> QED
      BY <1>3, <2>2, <3>1, <3>2, <3>3
  <2>3. CASE z # y
    <3>1. PICK c \in Node : c = t.child[f][z]
      BY <1>2
    <3>2. u.child[f][z] = (IF c = k THEN y ELSE c) /\ c # Nil
      BY <1>2, <1>3, <1>12, <2>1, <2>3, <3>1
    <3>3. t.parent[c] = z
      BY <3>1, <3>2, ChildParent
    <3>4. c \in N
      BY <1>1, <2>0, <3>1, <3>2
    <3> QED
      BY <1>3, <2>1, <3>2, <3>3, <3>4
  <2> QED
    BY <2>2, <2>3
<1>13. \A z \in Key \ ((N \ {k}) \cup {y}), f \in Dir : u.child[f][z] = Nil
  BY <1>1, <1>2, <1>3
<1>14. E[u.root] = (N \ {k}) \cup {y} /\ (u.root # Nil => u.parent[u.root] = Nil)
  <2>1. t.root \in N /\ t.root # Nil /\ t.parent[t.root] = Nil
    BY RootSlot
  <2>2. Swapped(N, k, y) = (N \ {k}) \cup {y}
    BY DEF Swapped
  <2>3. CASE t.root = k
    BY <1>1, <1>3, <1>6, <2>1, <2>2, <2>3
  <2>4. CASE t.root # k
    <3>1. u.root = t.root /\ t.root \in N \ {k} /\ t.root # y
      BY <1>3, <2>1, <2>4
    <3>2. u.parent[t.root] = Nil
      BY <1>2, <1>3, <2>1, <3>1
    <3>3. E[t.root] = Swapped(N, k, y)
      BY <1>1, <1>2, <1>6, <3>1
    <3> QED
      BY <2>2, <3>1, <3>2, <3>3
  <2> QED
    BY <2>3, <2>4
<1>15. (N \ {k}) \cup {y} \subseteq Key
  BY <1>1
<1>16. Shape(u, (N \ {k}) \cup {y}, E)
  BY <1>3, <1>6, <1>7, <1>10, <1>11, <1>12, <1>13, <1>14, <1>15 DEF Shape
<1> QED
  BY <1>16

(* y takes over k's colour: nothing else changes. *)
LEMMA ReplaceReds ==
    ASSUME NEW t, NEW N, NEW D, Shape(t, N, D), NEW k \in N, NEW y \in Key \ N, NEW x, NEW u,
           Replaced(t, u, N, k, y, x), NEW w, w # k, Reds(t, N, w, w)
    PROVE  Reds(u, (N \ {k}) \cup {y}, w, w)
<1>1. /\ t \in TreeRecord /\ N \subseteq Key /\ Nil \notin Key /\ Node = Key \cup {Nil} /\ t.root \in Node
      /\ \A f \in Dir, a \in Key : t.child[f][a] \in Node
  BY TreeTypes DEF Shape
<1>2. \A a \in N, f \in Dir : t.child[f][a] # y /\ t.child[f][a] \in Node
  <2>1. \A a \in N, f \in Dir : t.child[f][a] \in N \cup {Nil}
    BY ChildNode
  <2> QED
    BY <1>1, <2>1
<1>3. \A f \in Dir : t.child[f][k] # k
  <2>1. k \in D[k] /\ \A f \in Dir : k \notin D[t.child[f][k]]
    BY <1>1, Children
  <2> QED
    BY <2>1
<1>4. /\ \A f \in Dir : u.child[f][y] = t.child[f][k]
      /\ \A f \in Dir, z \in N \ {k} : u.child[f][z] = IF t.child[f][z] = k THEN y ELSE t.child[f][z]
      /\ u.root = IF t.root = k THEN y ELSE t.root
      /\ u.black[y] = t.black[k]
      /\ \A z \in Node : z # k /\ z # y => u.black[z] = t.black[z]
  BY <1>1 DEF Replaced
<1>5. /\ t.black[Nil] /\ (t.black[t.root] \/ t.root = w)
      /\ \A a \in N, f \in Dir : ~t.black[a] /\ ~t.black[t.child[f][a]] => t.child[f][a] = w \/ a = w
  BY DEF Reds
<1>6. u.black[Nil]
  BY <1>1, <1>4, <1>5
<1>7. u.black[u.root] \/ u.root = w
  <2>1. t.root \in N
    BY RootSlot
  <2> QED
    BY <1>1, <1>4, <1>5, <2>1
<1>8. ASSUME NEW z \in (N \ {k}) \cup {y}, NEW f \in Dir, ~u.black[z], ~u.black[u.child[f][z]]
      PROVE  u.child[f][z] = w \/ z = w
  <2>1. CASE z = y
    <3>1. PICK c \in Node : c = t.child[f][k] /\ c # y /\ c # k
      BY <1>2, <1>3
    <3>2. ~t.black[k] /\ ~t.black[c] /\ u.child[f][z] = c
      BY <1>4, <1>8, <2>1, <3>1
    <3> QED
      BY <1>5, <3>1, <3>2
  <2>2. CASE z # y
    <3>1. z \in N \ {k} /\ z \in Node
      BY <1>1, <2>2
    <3>2. PICK c \in Node : c = t.child[f][z] /\ c # y
      BY <1>2, <3>1
    <3>3. ~t.black[z]
      BY <1>4, <1>8, <2>2, <3>1
    <3>4. CASE c = k
      <4>1. ~t.black[c]
        BY <1>4, <1>8, <3>1, <3>2, <3>4
      <4> QED
        BY <1>5, <3>1, <3>2, <3>3, <3>4, <4>1
    <3>5. CASE c # k
      <4>1. ~t.black[c] /\ u.child[f][z] = c
        BY <1>4, <1>8, <3>1, <3>2, <3>5
      <4> QED
        BY <1>5, <3>1, <3>2, <3>3, <4>1
    <3> QED
      BY <3>4, <3>5
  <2> QED
    BY <2>1, <2>2
<1> QED
  BY <1>6, <1>7, <1>8 DEF Reds

LEMMA ReplaceHeights ==
    ASSUME NEW t, NEW N, NEW D, Shape(t, N, D), NEW k \in N, NEW y \in Key \ N, NEW x, NEW u,
           Replaced(t, u, N, k, y, x), NEW H, NEW p \in N \cup {Nil}, NEW s, Heights(t, N, H, p, s),
           NEW q, q = IF p = k THEN y ELSE p
    PROVE  \E G : Heights(u, (N \ {k}) \cup {y}, G, q, s)
<1>1. /\ t \in TreeRecord /\ N \subseteq Key /\ Nil \notin Key /\ Node = Key \cup {Nil}
  BY TreeTypes DEF Shape
<1>2. \A a \in N, f \in Dir : t.child[f][a] # y /\ t.child[f][a] \in Node
  <2>1. \A a \in N, f \in Dir : t.child[f][a] \in N \cup {Nil}
    BY ChildNode
  <2> QED
    BY <1>1, <2>1
<1>3. /\ \A f \in Dir : u.child[f][y] = t.child[f][k]
      /\ \A f \in Dir, z \in N \ {k} : u.child[f][z] = IF t.child[f][z] = k THEN y ELSE t.child[f][z]
      /\ u.black[y] = t.black[k]
      /\ \A z \in Node : z # k /\ z # y => u.black[z] = t.black[z]
  BY <1>1 DEF Replaced
<1>4. /\ H \in [Node -> Nat] /\ H[Nil] = 0
      /\ \A a \in N, f \in Dir : H[a] = Ink(t, a) + H[t.child[f][a]] + Missing(a, f, p, s)
  BY DEF Heights
<1>5. PICK G : G = [H EXCEPT ![y] = H[k]]
  OBVIOUS
<1>6. /\ G \in [Node -> Nat] /\ G[Nil] = 0 /\ G[y] = H[k] /\ \A z \in Node : z # y => G[z] = H[z]
  BY <1>1, <1>4, <1>5
<1>7. ASSUME NEW z \in (N \ {k}) \cup {y}, NEW f \in Dir
      PROVE  G[z] = Ink(u, z) + G[u.child[f][z]] + Missing(z, f, q, s)
  <2>1. CASE z = y
    <3>1. PICK c \in Node : c = t.child[f][k] /\ c # y
      BY <1>2
    <3>2. H[k] = Ink(t, k) + H[c] + Missing(k, f, p, s)
      BY <1>4, <3>1
    <3>3. k # y /\ y # Nil /\ k # Nil
      BY <1>1
    <3>4. Missing(y, f, q, s) = Missing(k, f, p, s)
      BY <3>3 DEF Missing
    <3>5. Ink(u, y) = Ink(t, k) /\ G[u.child[f][y]] = H[c]
      BY <1>3, <1>6, <3>1 DEF Ink
    <3> QED
      BY <1>6, <2>1, <3>2, <3>4, <3>5
  <2>2. CASE z # y
    <3>1. z \in N /\ z # k /\ z \in Node
      BY <1>1, <2>2
    <3>2. PICK c \in Node : c = t.child[f][z] /\ c # y
      BY <1>2, <3>1
    <3>3. H[z] = Ink(t, z) + H[c] + Missing(z, f, p, s)
      BY <1>4, <3>1, <3>2
    <3>4. Missing(z, f, q, s) = Missing(z, f, p, s)
      BY <2>2, <3>1 DEF Missing
    <3>5. G[u.child[f][z]] = H[c]
      BY <1>3, <1>6, <3>1, <3>2
    <3>6. Ink(u, z) = Ink(t, z) /\ G[z] = H[z]
      BY <1>3, <1>6, <2>2, <3>1 DEF Ink
    <3> QED
      BY <3>3, <3>4, <3>5, <3>6
  <2> QED
    BY <2>1, <2>2
<1>8. Heights(u, (N \ {k}) \cup {y}, G, q, s)
  BY <1>6, <1>7 DEF Heights
<1> QED
  BY <1>8

LEMMA ReplaceColours ==
    ASSUME NEW t, NEW N, NEW D, Shape(t, N, D), NEW k \in N, NEW y \in Key \ N, NEW x, x # k, NEW u,
           Replaced(t, u, N, k, y, x)
    PROVE  /\ Deleting(t, N, x) => Deleting(u, (N \ {k}) \cup {y}, x)
           /\ Idle(t, N) => Idle(u, (N \ {k}) \cup {y})
<1>1. /\ t \in TreeRecord /\ N \subseteq Key /\ Nil \notin Key /\ y # Nil /\ y # k /\ k # Nil
  BY TreeAssumption DEF Shape
<1>2. PICK M : M = (N \ {k}) \cup {y}
  OBVIOUS
<1>3. /\ \A f \in Dir : u.child[f][y] = t.child[f][k]
      /\ \A f \in Dir, z \in N \ {k} : u.child[f][z] = IF t.child[f][z] = k THEN y ELSE t.child[f][z]
      /\ u.root = IF t.root = k THEN y ELSE t.root
      /\ u.parent[x] = IF t.parent[x] = k THEN y ELSE t.parent[x]
  BY <1>1 DEF Replaced
<1>4. ASSUME Deleting(t, N, x)
      PROVE  Deleting(u, M, x)
  <2>1. x \in N \cup {Nil} /\ Reds(t, N, x, x)
    BY <1>4 DEF Deleting
  <2>2. x \in M \cup {Nil} /\ Reds(u, M, x, x)
    BY <1>2, <2>1, ReplaceReds
  <2>3. x = u.root <=> x = t.root
    BY <1>1, <1>3, <2>1
  <2>4. CASE x = t.root
    <3>1. PICK H : Heights(t, N, H, Nil, "left")
      BY <1>4, <2>4 DEF Deleting
    <3>2. \E G : Heights(u, M, G, Nil, "left")
      <4>1. Nil \in N \cup {Nil} /\ Nil = IF Nil = k THEN y ELSE Nil
        BY <1>1
      <4> QED
        BY <1>2, <3>1, <4>1, ReplaceHeights
    <3> QED
      BY <2>2, <2>3, <2>4, <3>2 DEF Deleting
  <2>5. CASE x # t.root
    <3>1. PICK p : p = t.parent[x] /\ p \in N
      BY <1>4, <2>5 DEF Deleting
    <3>2. PICK H : \E s \in Dir : t.child[s][p] = x /\ Heights(t, N, H, p, s)
      BY <1>4, <2>5, <3>1 DEF Deleting
    <3>3. PICK s \in Dir : t.child[s][p] = x /\ Heights(t, N, H, p, s)
      BY <3>2
    <3>4. PICK q : q = IF p = k THEN y ELSE p
      OBVIOUS
    <3>5. PICK G : Heights(u, M, G, q, s)
      <4>1. p \in N \cup {Nil}
        BY <3>1
      <4> QED
        BY <1>2, <3>3, <3>4, <4>1, ReplaceHeights
    <3>6. u.parent[x] = q /\ q \in M /\ u.child[s][q] = x
      BY <1>2, <1>3, <3>1, <3>3, <3>4
    <3> QED
      BY <2>2, <2>3, <2>5, <3>5, <3>6 DEF Deleting
  <2> QED
    BY <2>4, <2>5
<1>5. ASSUME Idle(t, N)
      PROVE  Idle(u, M)
  <2>1. PICK H : Heights(t, N, H, Nil, "left")
    BY <1>5 DEF Idle
  <2>2. \E G : Heights(u, M, G, Nil, "left")
    <3>1. Nil \in N \cup {Nil} /\ Nil = IF Nil = k THEN y ELSE Nil
      BY <1>1
    <3> QED
      BY <1>2, <2>1, <3>1, ReplaceHeights
  <2>3. Reds(t, N, Nil, Nil)
    BY <1>5 DEF Idle
  <2>4. Reds(u, M, Nil, Nil)
    BY <1>1, <1>2, <2>3, ReplaceReds
  <2> QED
    BY <2>2, <2>4 DEF Idle
<1> QED
  BY <1>2, <1>4, <1>5

-----------------------------------------------------------------------------
(* remove: the successor y of k, which has no left child, is spliced out *)

(* k has the children l and r; y is below r, and x is y's right child. *)
Around(t, N, D, k, l, r, y, x) ==
    /\ Shape(t, N, D) /\ k \in N
    /\ l = t.child["left"][k] /\ l # Nil /\ r = t.child["right"][k] /\ r # Nil
    /\ y \in D[r] /\ t.child["left"][y] = Nil /\ x = t.child["right"][y]

LEMMA SpliceNodes ==
    ASSUME NEW t, NEW N, NEW D, NEW k, NEW l, NEW r, NEW y, NEW x, Around(t, N, D, k, l, r, y, x)
    PROVE  /\ k \in Key /\ l \in N /\ r \in N /\ y \in N /\ x \in N \cup {Nil}
           /\ l # k /\ r # k /\ l # r /\ y # k /\ y # l
           /\ x # k /\ x # l /\ x # r /\ x # y
           /\ y # t.root /\ (t.parent[y] = k <=> y = r)
           /\ t.parent[y] # Nil /\ t.parent[k] # y /\ t.parent[l] = k /\ t.parent[r] = k
           /\ \A z \in N : t.parent[z] = k => z = l \/ z = r
<1>1. PICK a \in Dir, b \in Dir : a = "left" /\ b = "right" /\ b = Other(a) /\ a = Other(b)
  BY DEF Dir, Other
<1>2. /\ Shape(t, N, D) /\ k \in N /\ l = t.child[a][k] /\ l # Nil /\ r = t.child[b][k] /\ r # Nil
      /\ y \in D[r] /\ t.child[a][y] = Nil /\ x = t.child[b][y]
  BY <1>1 DEF Around
<1>3. N \subseteq Key /\ Nil \notin Key /\ k \in Key /\ D[Nil] = {}
  BY <1>2, TreeAssumption DEF Shape
<1>4. l \in N /\ r \in N
  <2>1. \A f \in Dir : t.child[f][k] \in N \cup {Nil}
    BY <1>2, ChildNode
  <2> QED
    BY <1>2, <2>1
<1>5. l \in Key /\ r \in Key /\ l \in D[l] /\ r \in D[r] /\ k \in D[k]
  <2>1. l \in Key /\ r \in Key
    BY <1>3, <1>4
  <2> QED
    BY <1>2, <1>3, <2>1, Children
<1>6. k \notin D[l] /\ k \notin D[r] /\ D[l] \cap D[r] = {} /\ D[r] \subseteq D[k]
  <2>1. /\ \A f \in Dir : k \notin D[t.child[f][k]] /\ D[t.child[f][k]] \subseteq D[k]
        /\ \A f \in Dir : D[t.child[f][k]] \cap D[t.child[Other(f)][k]] = {}
    BY <1>2, <1>3, Children
  <2> QED
    BY <1>1, <1>2, <2>1
<1>7. l # k /\ r # k /\ l # r /\ y # k /\ y # l
  BY <1>2, <1>5, <1>6
<1>8. y \in N /\ y \in Key /\ D[y] \subseteq D[r] /\ y \in D[y]
  <2>1. D[r] \subseteq N
    BY <1>2, <1>4, NodeFacts
  <2>2. y \in N /\ y \in Key
    BY <1>2, <1>3, <2>1
  <2>3. D[y] \subseteq D[r]
    BY <1>2, <1>5, BelowBelow
  <2> QED
    BY <1>2, <2>2, <2>3, Children
<1>9. x \in N \cup {Nil}
  <2>1. \A f \in Dir : t.child[f][y] \in N \cup {Nil}
    BY <1>2, <1>8, ChildNode
  <2> QED
    BY <1>2, <2>1
<1>10. x # Nil => x \in D[y] /\ x # y /\ x # r
  <2>1. \A f \in Dir : /\ y \notin D[t.child[f][y]] /\ D[t.child[f][y]] \subseteq D[y]
                       /\ t.child[f][y] # Nil => t.child[f][y] \in D[t.child[f][y]]
    BY <1>2, <1>8, Children
  <2>2. y \notin D[x] /\ D[x] \subseteq D[y] /\ (x # Nil => x \in D[x])
    BY <1>2, <2>1
  <2>3. ASSUME x # Nil, x = r
        PROVE  FALSE
    <3>1. r \in D[y]
      BY <2>2, <2>3
    <3>2. r = y
      BY <1>2, <1>5, <3>1, BelowOnce
    <3> QED
      BY <2>2, <2>3, <3>2
  <2> QED
    BY <2>2, <2>3
<1>11. x # k /\ x # l /\ x # r /\ x # y
  BY <1>3, <1>5, <1>6, <1>7, <1>8, <1>10, <1>2
<1>12. /\ y # t.root /\ t.parent[y] # Nil /\ t.parent[l] = k /\ t.parent[r] = k
       /\ t.parent[y] = k <=> y = r
  <2>1. \A f \in Dir : t.child[f][k] # Nil => t.parent[t.child[f][k]] = k
    BY <1>2, <1>3, ChildParent
  <2>2. t.parent[l] = k /\ t.parent[r] = k
    BY <1>2, <2>1
  <2>3. y # r => t.parent[y] \in D[r] /\ \E d \in Dir : t.child[d][t.parent[y]] = y
    BY <1>2, <1>5, ParentBelow
  <2>4. t.parent[y] = k <=> y = r
    BY <1>6, <2>2, <2>3
  <2>5. D[r] \subseteq Key
    BY <1>2, <1>5, Children
  <2>6. t.parent[y] # Nil
    BY <1>3, <2>2, <2>3, <2>5
  <2>7. y # t.root
    <3>1. t.parent[t.root] = Nil
      BY <1>2, RootSlot
    <3> QED
      BY <2>6, <3>1
  <2> QED
    BY <2>2, <2>4, <2>6, <2>7
<1>13. t.parent[k] # y
  <2>1. ASSUME t.parent[k] = y
        PROVE  FALSE
    <3>1. k # t.root
      <4>1. t.parent[t.root] = Nil
        BY <1>2, RootSlot
      <4> QED
        BY <1>3, <1>8, <2>1, <4>1
    <3>2. PICK e \in Dir : t.child[e][y] = k
      BY <1>2, <2>1, <3>1, Slot
    <3>3. \A f \in Dir : D[t.child[f][y]] \subseteq D[y]
      BY <1>2, <1>8, Children
    <3>4. D[t.child[e][y]] \subseteq D[y]
      BY <3>3
    <3>5. D[k] \subseteq D[y]
      BY <3>2, <3>4
    <3> QED
      BY <1>5, <1>6, <1>8, <3>5
  <2> QED
    BY <2>1
<1>14. ASSUME NEW z \in N, t.parent[z] = k
       PROVE  z = l \/ z = r
  <2>1. z # t.root
    <3>1. t.parent[t.root] = Nil
      BY <1>2, RootSlot
    <3> QED
      BY <1>3, <1>14, <3>1
  <2>2. PICK e \in Dir : t.child[e][k] = z
    BY <1>2, <1>14, <2>1, Slot
  <2>3. e = a \/ e = b
    BY <1>1, SideFacts
  <2> QED
    BY <1>2, <2>2, <2>3
<1> QED
  BY <1>3, <1>4, <1>7, <1>8, <1>9, <1>11, <1>12, <1>13, <1>14

(* The tree when y has left its place. *)
Lifted(t, s, k, y, x, r) ==
    /\ s \in TreeRecord /\ s.black = t.black /\ s.root = t.root
    /\ \A f \in Dir : s.child[f][k] = t.child[f][k]
    /\ s.child["left"][y] = Nil /\ s.child["right"][y] = IF y = r THEN x ELSE r
    /\ \A f \in Dir, z \in Key \ {k, y} : s.child[f][z] = IF t.child[f][z] = y THEN x ELSE t.child[f][z]
    /\ s.parent[x] = IF y = r THEN y ELSE t.parent[y]
    /\ y # r => s.parent[r] = y
    /\ \A z \in Node : z # x /\ z # r => s.parent[z] = t.parent[z]

LEMMA AttachFacts ==
    ASSUME NEW t \in TreeRecord, NEW d \in Dir, NEW n \in Key, NEW c \in Node, NEW u, u = Attach(t, d, n, c)
    PROVE  /\ u \in TreeRecord /\ u.root = t.root /\ u.black = t.black
           /\ u.child[d][n] = c /\ u.parent[c] = n
           /\ \A f \in Dir, z \in Key : f # d \/ z # n => u.child[f][z] = t.child[f][z]
           /\ \A z \in Node : z # c => u.parent[z] = t.parent[z]
<1>1. PICK v : v = WithChild(t, d, n, c)
  OBVIOUS
<1>2. ChildSet(t, v, d, n, c)
  BY <1>1, SetChild
<1>3. v \in TreeRecord /\ n \in Node /\ u = WithParent(v, c, n)
  BY <1>1, <1>2 DEF ChildSet, Attach, Node
<1>4. ParentSet(v, u, c, n)
  BY <1>3, SetParent
<1> QED
  BY <1>2, <1>4 DEF ChildSet, ParentSet

LEMMA LiftLinks ==
    ASSUME NEW t, NEW N, NEW D, NEW k, NEW l, NEW r, NEW y, NEW x, Around(t, N, D, k, l, r, y, x),
           NEW a, a = Transplant(t, y, x), NEW s,
           s = IF t.parent[y] = k THEN WithParent(t, x, y) ELSE Attach(a, "right", y, a.child["right"][k])
    PROVE  Lifted(t, s, k, y, x, r)
<1>1. /\ Shape(t, N, D) /\ k \in N /\ l = t.child["left"][k] /\ r = t.child["right"][k]
      /\ t.child["left"][y] = Nil /\ x = t.child["right"][y]
  BY DEF Around
<1>2. /\ t \in TreeRecord /\ N \subseteq Key /\ Node = Key \cup {Nil} /\ Nil \notin Key
      /\ \A f \in Dir, z \in Key : t.child[f][z] \in Node
  BY <1>1, TreeTypes DEF Shape
<1>3. /\ k \in Key /\ l \in N /\ r \in N /\ y \in N /\ x \in N \cup {Nil}
      /\ l # k /\ r # k /\ l # r /\ y # k /\ y # l
      /\ x # k /\ x # l /\ x # r /\ x # y
      /\ y # t.root /\ (t.parent[y] = k <=> y = r)
  BY SpliceNodes
<1>4. x \in Node /\ y \in Key /\ y \in Node /\ r \in Node /\ r # Nil
  BY <1>2, <1>3
<1>5. "left" \in Dir /\ "right" \in Dir /\ \A f \in Dir : f = "left" \/ f = "right"
  BY DEF Dir
<1>6. \A f \in Dir, z \in Key : t.child[f][z] = y => z = t.parent[y]
  BY <1>1, <1>3, Slot
<1>7. CASE y = r
  <2>1. ParentSet(t, s, x, y)
    BY <1>2, <1>3, <1>4, <1>7, SetParent
  <2>2. \A f \in Dir, z \in Key \ {k, y} : t.child[f][z] # y
    BY <1>3, <1>6, <1>7
  <2>3. /\ s \in TreeRecord /\ s.root = t.root /\ s.child = t.child /\ s.black = t.black
        /\ s.parent[x] = y /\ \A z \in Node : z # x => s.parent[z] = t.parent[z]
    BY <2>1 DEF ParentSet
  <2> QED
    BY <1>1, <1>7, <2>2, <2>3 DEF Lifted
<1>8. CASE y # r
  <2>1. Transplanted(t, a, y, x)
    <3>1. OnlyLink(t, y)
      BY <1>1, <1>3, NodeLink
    <3> QED
      BY <1>2, <1>4, <3>1, TransplantLinks
  <2>2. /\ a \in TreeRecord /\ a.black = t.black /\ a.root = t.root
        /\ \A f \in Dir, z \in Key : a.child[f][z] = IF t.child[f][z] = y THEN x ELSE t.child[f][z]
        /\ a.parent[x] = t.parent[y]
        /\ \A z \in Node : z # x => a.parent[z] = t.parent[z]
    BY <1>3, <2>1 DEF Transplanted
  <2>3. a.child["right"][k] = r /\ a.child["left"][k] = l
    BY <1>1, <1>3, <1>5, <1>8, <2>2
  <2>4. s = Attach(a, "right", y, r)
    BY <1>3, <1>8, <2>3
  <2>5. /\ s \in TreeRecord /\ s.root = a.root /\ s.black = a.black
        /\ s.child["right"][y] = r /\ s.parent[r] = y
        /\ \A f \in Dir, z \in Key : f # "right" \/ z # y => s.child[f][z] = a.child[f][z]
        /\ \A z \in Node : z # r => s.parent[z] = a.parent[z]
    <3>1. PICK e \in Dir : e = "right"
      BY <1>5
    <3>2. s = Attach(a, e, y, r)
      BY <2>4, <3>1
    <3>3. /\ s \in TreeRecord /\ s.root = a.root /\ s.black = a.black
          /\ s.child[e][y] = r /\ s.parent[r] = y
          /\ \A f \in Dir, z \in Key : f # e \/ z # y => s.child[f][z] = a.child[f][z]
          /\ \A z \in Node : z # r => s.parent[z] = a.parent[z]
      <4>1. a \in TreeRecord /\ y \in Key /\ r \in Node
        BY <1>4, <2>2
      <4>2. \A v : v = Attach(a, e, y, r) =>
                /\ v \in TreeRecord /\ v.root = a.root /\ v.black = a.black
                /\ v.child[e][y] = r /\ v.parent[r] = y
                /\ \A f \in Dir, z \in Key : f # e \/ z # y => v.child[f][z] = a.child[f][z]
                /\ \A z \in Node : z # r => v.parent[z] = a.parent[z]
        BY <4>1, AttachFacts
      <4> QED
        BY <3>2, <4>2
    <3> QED
      BY <3>1, <3>3
  <2>6. \A f \in Dir : s.child[f][k] = t.child[f][k]
    <3>1. s.child["left"][k] = l /\ s.child["right"][k] = r
      BY <1>3, <1>5, <2>3, <2>5
    <3> QED
      BY <1>1, <1>5, <3>1
  <2>7. s.child["left"][y] = Nil
    <3>1. t.child["left"][y] # y /\ y # Nil
      BY <1>1, <1>2, <1>4
    <3>2. a.child["left"][y] = t.child["left"][y]
      BY <1>4, <1>5, <2>2, <3>1
    <3>3. s.child["left"][y] = a.child["left"][y]
      BY <1>4, <1>5, <2>5
    <3> QED
      BY <1>1, <3>2, <3>3
  <2>8. \A f \in Dir, z \in Key \ {k, y} : s.child[f][z] = IF t.child[f][z] = y THEN x ELSE t.child[f][z]
    BY <2>2, <2>5
  <2>9. s.parent[x] = t.parent[y] /\ \A z \in Node : z # x /\ z # r => s.parent[z] = t.parent[z]
    BY <1>3, <1>4, <2>2, <2>5
  <2> QED
    BY <1>8, <2>2, <2>5, <2>6, <2>7, <2>8, <2>9 DEF Lifted
<1> QED
  BY <1>7, <1>8

LEMMA LiftedLink ==
    ASSUME NEW t, NEW N, NEW D, NEW k, NEW l, NEW r, NEW y, NEW x, Around(t, N, D, k, l, r, y, x),
           NEW s, Lifted(t, s, k, y, x, r)
    PROVE  OnlyLink(s, k) /\ s.parent[k] = t.parent[k]
<1>1. Shape(t, N, D) /\ k \in N
  BY DEF Around
<1>2. t \in TreeRecord /\ N \subseteq Key /\ Node = Key \cup {Nil} /\ Nil \notin Key
  BY <1>1, TreeTypes DEF Shape
<1>3. /\ k \in Key /\ l \in N /\ r \in N /\ y \in N /\ r # k /\ y # k /\ x # k /\ t.parent[k] # y
  BY SpliceNodes
<1>4. /\ s.root = t.root
      /\ \A f \in Dir : s.child[f][k] = t.child[f][k]
      /\ s.child["left"][y] = Nil /\ s.child["right"][y] = IF y = r THEN x ELSE r
      /\ \A f \in Dir, z \in Key \ {k, y} : s.child[f][z] = IF t.child[f][z] = y THEN x ELSE t.child[f][z]
      /\ \A z \in Node : z # x /\ z # r => s.parent[z] = t.parent[z]
  BY DEF Lifted
<1>5. OnlyLink(t, k)
  BY <1>1, NodeLink
<1>6. s.parent[k] = t.parent[k]
  BY <1>2, <1>3, <1>4
<1>7. \A f \in Dir, z \in Key : z # y => (s.child[f][z] = k <=> t.child[f][z] = k)
  <2>1. ASSUME NEW f \in Dir, NEW z \in Key, z # y
        PROVE  s.child[f][z] = k <=> t.child[f][z] = k
    <3>1. CASE z = k
      BY <1>4, <3>1
    <3>2. CASE z # k
      <4>1. s.child[f][z] = IF t.child[f][z] = y THEN x ELSE t.child[f][z]
        BY <1>4, <2>1, <3>2
      <4> QED
        BY <1>3, <4>1
    <3> QED
      BY <3>1, <3>2
  <2> QED
    BY <2>1
<1>8. \A f \in Dir : s.child[f][y] # k
  <2>1. \A f \in Dir : f = "left" \/ f = "right"
    BY DEF Dir
  <2>2. s.child["left"][y] # k /\ s.child["right"][y] # k
    BY <1>2, <1>3, <1>4
  <2> QED
    BY <2>1, <2>2
<1>9. PICK p : p = t.parent[k] /\ p # y
  BY <1>3
<1>10. /\ \A f \in Dir, a \in Key : t.child[f][a] = k => a = p
       /\ p = Nil => t.root = k
       /\ p # Nil => /\ p \in Key /\ t.root # k
                     /\ \E e \in Dir : t.child[e][p] = k
                     /\ \A e \in Dir : t.child[e][p] = k => t.child[Other(e)][p] # k
  BY <1>5, <1>9 DEF OnlyLink
<1>11. \A f \in Dir, a \in Key : s.child[f][a] = k => a = p
  BY <1>7, <1>8, <1>10
<1>12. p # Nil => /\ \E e \in Dir : s.child[e][p] = k
                  /\ \A e \in Dir : s.child[e][p] = k => s.child[Other(e)][p] # k
  <2>1. \A e \in Dir : Other(e) \in Dir
    BY SideFacts
  <2>2. p # Nil => \A e \in Dir : s.child[e][p] = k <=> t.child[e][p] = k
    BY <1>7, <1>9, <1>10
  <2> QED
    BY <1>10, <2>1, <2>2
<1>13. OnlyLink(s, k)
  BY <1>4, <1>6, <1>9, <1>10, <1>11, <1>12 DEF OnlyLink
<1> QED
  BY <1>6, <1>13

(* The four pieces of surgery that follow, one after the other. *)
Moved(t, s, b, c, e, u, k, l, y) ==
    /\ b.black = s.black /\ b.root = IF s.root = k THEN y ELSE s.root
    /\ \A f \in Dir, z \in Key : b.child[f][z] = IF s.child[f][z] = k THEN y ELSE s.child[f][z]
    /\ b.parent[y] = t.parent[k]
    /\ \A z \in Node : z # y => b.parent[z] = s.parent[z]
    /\ c.root = b.root /\ c.black = b.black
    /\ c.child["left"][y] = l /\ c.parent[l] = y
    /\ \A f \in Dir, z \in Key : f # "left" \/ z # y => c.child[f][z] = b.child[f][z]
    /\ \A z \in Node : z # l => c.parent[z] = b.parent[z]
    /\ e.root = c.root /\ e.child = c.child /\ e.parent = c.parent
    /\ e.black[y] = t.black[k] /\ \A z \in Node : z # y => e.black[z] = c.black[z]
    /\ u \in TreeRecord /\ u.root = e.root
    /\ \A f \in Dir : u.child[f][k] = Nil
    /\ \A f \in Dir, z \in Key : z # k => u.child[f][z] = e.child[f][z]
    /\ \A z \in Node : z # k => u.parent[z] = e.parent[z] /\ u.black[z] = e.black[z]

LEMMA SpliceMoves ==
    ASSUME NEW t, NEW N, NEW D, NEW k, NEW l, NEW r, NEW y, NEW x, Around(t, N, D, k, l, r, y, x),
           NEW s, Lifted(t, s, k, y, x, r), NEW b, b = Transplant(s, k, y),
           NEW c, c = Attach(b, "left", y, b.child["left"][k]),
           NEW e, e = Paint(c, y, t.black[k]), NEW u, u = Forget(e, k)
    PROVE  Moved(t, s, b, c, e, u, k, l, y)
<1>1. /\ Shape(t, N, D) /\ k \in N /\ l = t.child["left"][k] /\ r = t.child["right"][k]
  BY DEF Around
<1>2. /\ t \in TreeRecord /\ N \subseteq Key /\ Node = Key \cup {Nil} /\ Nil \notin Key
      /\ \A z \in Node : t.black[z] \in BOOLEAN
  BY <1>1, TreeTypes DEF Shape
<1>3. /\ k \in Key /\ l \in N /\ r \in N /\ y \in N /\ x \in N \cup {Nil}
      /\ l # k /\ r # k /\ l # r /\ y # k /\ y # l
      /\ x # k /\ x # l /\ x # r /\ x # y
      /\ y # t.root /\ (t.parent[y] = k <=> y = r)
      /\ t.parent[y] # Nil /\ t.parent[l] = k /\ t.parent[r] = k
      /\ \A z \in N : t.parent[z] = k => z = l \/ z = r
  BY SpliceNodes
<1>4. /\ x \in Node /\ y \in Key /\ y \in Node /\ k \in Node /\ l \in Node /\ r \in Node
      /\ t.black[k] \in BOOLEAN /\ Nil \in Node
  BY <1>2, <1>3
<1>5. "left" \in Dir /\ "right" \in Dir /\ \A f \in Dir : f = "left" \/ f = "right"
  BY DEF Dir
<1>6. /\ s \in TreeRecord /\ s.black = t.black /\ s.root = t.root
      /\ \A f \in Dir : s.child[f][k] = t.child[f][k]
      /\ s.child["right"][y] = IF y = r THEN x ELSE r
      /\ \A f \in Dir, z \in Key \ {k, y} : s.child[f][z] = IF t.child[f][z] = y THEN x ELSE t.child[f][z]
      /\ s.parent[x] = IF y = r THEN y ELSE t.parent[y]
      /\ y # r => s.parent[r] = y
      /\ \A z \in Node : z # x /\ z # r => s.parent[z] = t.parent[z]
  BY DEF Lifted
<1>7. /\ b \in TreeRecord /\ b.black = s.black
      /\ b.root = IF s.root = k THEN y ELSE s.root
      /\ \A f \in Dir, z \in Key : b.child[f][z] = IF s.child[f][z] = k THEN y ELSE s.child[f][z]
      /\ b.parent[y] = t.parent[k]
      /\ \A z \in Node : z # y => b.parent[z] = s.parent[z]
  <2>1. OnlyLink(s, k) /\ s.parent[k] = t.parent[k]
    BY LiftedLink
  <2>2. Transplanted(s, b, k, y)
    BY <1>3, <1>4, <1>6, <2>1, TransplantLinks
  <2> QED
    BY <2>1, <2>2 DEF Transplanted
<1>8. b.child["left"][k] = l
  BY <1>1, <1>3, <1>5, <1>6, <1>7
<1>9. /\ c \in TreeRecord /\ c.root = b.root /\ c.black = b.black
      /\ c.child["left"][y] = l /\ c.parent[l] = y
      /\ \A f \in Dir, z \in Key : f # "left" \/ z # y => c.child[f][z] = b.child[f][z]
      /\ \A z \in Node : z # l => c.parent[z] = b.parent[z]
  <2>1. PICK g \in Dir : g = "left"
    BY <1>5
  <2>2. b \in TreeRecord /\ y \in Key /\ l \in Node
    BY <1>4, <1>7
  <2>3. \A v : v = Attach(b, g, y, l) =>
            /\ v \in TreeRecord /\ v.root = b.root /\ v.black = b.black
            /\ v.child[g][y] = l /\ v.parent[l] = y
            /\ \A f \in Dir, z \in Key : f # g \/ z # y => v.child[f][z] = b.child[f][z]
            /\ \A z \in Node : z # l => v.parent[z] = b.parent[z]
    BY <2>2, AttachFacts
  <2>4. c = Attach(b, g, y, l)
    BY <1>8, <2>1
  <2> QED
    BY <2>1, <2>3, <2>4
<1>10. /\ e \in TreeRecord /\ e.root = c.root /\ e.child = c.child /\ e.parent = c.parent
       /\ e.black[y] = t.black[k] /\ \A z \in Node : z # y => e.black[z] = c.black[z]
  <2>1. Painted(c, e, y, t.black[k])
    BY <1>4, <1>9, PaintFacts
  <2> QED
    BY <2>1 DEF Painted, Repainted
<1>11. /\ u \in TreeRecord /\ u.root = e.root
       /\ \A f \in Dir : u.child[f][k] = Nil
       /\ \A f \in Dir, z \in Key : z # k => u.child[f][z] = e.child[f][z]
       /\ \A z \in Node : z # k => u.parent[z] = e.parent[z] /\ u.black[z] = e.black[z]
  <2>1. PICK h \in BOOLEAN : h = TRUE
    OBVIOUS
  <2>2. e \in TreeRecord /\ k \in Key /\ Nil \in Node
    BY <1>3, <1>4, <1>10
  <2>3. \A v : v = Leaf(e, k, Nil, h) =>
            /\ v \in TreeRecord /\ v.root = e.root
            /\ \A f \in Dir : v.child[f][k] = Nil
            /\ \A f \in Dir, z \in Key : z # k => v.child[f][z] = e.child[f][z]
            /\ \A z \in Node : z # k => v.parent[z] = e.parent[z] /\ v.black[z] = e.black[z]
    BY <2>2, LeafFacts
  <2>4. u = Leaf(e, k, Nil, h)
    BY <2>1 DEF Forget
  <2> QED
    BY <2>3, <2>4
<1> QED
  BY <1>7, <1>9, <1>10, <1>11 DEF Moved

(* Splicing out y is unlinking y and putting it in the place of k. *)
LEMMA SpliceLinks ==
    ASSUME NEW t, NEW N, NEW D, NEW k, NEW l, NEW r, NEW y, NEW x, Around(t, N, D, k, l, r, y, x),
           NEW s, Lifted(t, s, k, y, x, r), NEW b, NEW c, NEW e, NEW u, Moved(t, s, b, c, e, u, k, l, y),
           NEW a, Unlinked(t, a, y, x)
    PROVE  Replaced(a, u, N \ {y}, k, y, x)
<1>1. /\ Shape(t, N, D) /\ k \in N /\ l = t.child["left"][k] /\ r = t.child["right"][k]
  BY DEF Around
<1>2. /\ t \in TreeRecord /\ N \subseteq Key /\ Node = Key \cup {Nil} /\ Nil \notin Key
      /\ \A z \in Node : t.black[z] \in BOOLEAN
  BY <1>1, TreeTypes DEF Shape
<1>3. /\ k \in Key /\ l \in N /\ r \in N /\ y \in N /\ x \in N \cup {Nil}
      /\ l # k /\ r # k /\ l # r /\ y # k /\ y # l
      /\ x # k /\ x # l /\ x # r /\ x # y
      /\ y # t.root /\ (t.parent[y] = k <=> y = r)
      /\ t.parent[y] # Nil /\ t.parent[l] = k /\ t.parent[r] = k
      /\ \A z \in N : t.parent[z] = k => z = l \/ z = r
  BY SpliceNodes
<1>4. /\ x \in Node /\ y \in Key /\ y \in Node /\ k \in Node /\ l \in Node /\ r \in Node
      /\ t.black[k] \in BOOLEAN /\ Nil \in Node
  BY <1>2, <1>3
<1>5. "left" \in Dir /\ "right" \in Dir /\ \A f \in Dir : f = "left" \/ f = "right"
  BY DEF Dir
<1>6. /\ s \in TreeRecord /\ s.black = t.black /\ s.root = t.root
      /\ \A f \in Dir : s.child[f][k] = t.child[f][k]
      /\ s.child["right"][y] = IF y = r THEN x ELSE r
      /\ \A f \in Dir, z \in Key \ {k, y} : s.child[f][z] = IF t.child[f][z] = y THEN x ELSE t.child[f][z]
      /\ s.parent[x] = IF y = r THEN y ELSE t.parent[y]
      /\ y # r => s.parent[r] = y
      /\ \A z \in Node : z # x /\ z # r => s.parent[z] = t.parent[z]
  BY DEF Lifted
<1>7. /\ b.black = s.black /\ b.root = IF s.root = k THEN y ELSE s.root
      /\ \A f \in Dir, z \in Key : b.child[f][z] = IF s.child[f][z] = k THEN y ELSE s.child[f][z]
      /\ b.parent[y] = t.parent[k]
      /\ \A z \in Node : z # y => b.parent[z] = s.parent[z]
  BY DEF Moved
<1>9. /\ c.root = b.root /\ c.black = b.black
      /\ c.child["left"][y] = l /\ c.parent[l] = y
      /\ \A f \in Dir, z \in Key : f # "left" \/ z # y => c.child[f][z] = b.child[f][z]
      /\ \A z \in Node : z # l => c.parent[z] = b.parent[z]
  BY DEF Moved
<1>10. /\ e.root = c.root /\ e.child = c.child /\ e.parent = c.parent
       /\ e.black[y] = t.black[k] /\ \A z \in Node : z # y => e.black[z] = c.black[z]
  BY DEF Moved
<1>11. /\ u \in TreeRecord /\ u.root = e.root
       /\ \A f \in Dir : u.child[f][k] = Nil
       /\ \A f \in Dir, z \in Key : z # k => u.child[f][z] = e.child[f][z]
       /\ \A z \in Node : z # k => u.parent[z] = e.parent[z] /\ u.black[z] = e.black[z]
  BY DEF Moved
<1>12. /\ a.root = t.root
       /\ \A f \in Dir, z \in Key : z # y => a.child[f][z] = IF t.child[f][z] = y THEN x ELSE t.child[f][z]
       /\ a.parent[x] = t.parent[y]
       /\ \A z \in Node : z # y /\ z # x => a.parent[z] = t.parent[z]
       /\ \A z \in Node : z # y => a.black[z] = t.black[z]
  BY <1>3 DEF Unlinked
<1>13. \A f \in Dir : u.child[f][y] = a.child[f][k] /\ u.child[f][k] = Nil
  <2>1. u.child["left"][y] = l /\ a.child["left"][k] = l
    BY <1>1, <1>3, <1>4, <1>5, <1>9, <1>10, <1>11, <1>12
  <2>2. a.child["right"][k] = IF y = r THEN x ELSE r
    BY <1>1, <1>3, <1>5, <1>12
  <2>3. u.child["right"][y] = IF y = r THEN x ELSE r
    <3>1. u.child["right"][y] = b.child["right"][y]
      BY <1>3, <1>4, <1>5, <1>9, <1>10, <1>11
    <3>2. b.child["right"][y] = s.child["right"][y]
      BY <1>3, <1>4, <1>5, <1>6, <1>7
    <3> QED
      BY <1>6, <3>1, <3>2
  <2> QED
    BY <1>5, <1>11, <2>1, <2>2, <2>3
<1>14. \A f \in Dir, z \in Key \ {k, y} : u.child[f][z] = IF a.child[f][z] = k THEN y ELSE a.child[f][z]
  <2>1. ASSUME NEW f \in Dir, NEW z \in Key \ {k, y}
        PROVE  u.child[f][z] = IF a.child[f][z] = k THEN y ELSE a.child[f][z]
    <3>1. s.child[f][z] = a.child[f][z]
      BY <1>6, <1>12
    <3>2. u.child[f][z] = b.child[f][z]
      BY <1>9, <1>10, <1>11
    <3>3. b.child[f][z] = IF s.child[f][z] = k THEN y ELSE s.child[f][z]
      BY <1>7
    <3> QED
      BY <3>1, <3>2, <3>3
  <2> QED
    BY <2>1
<1>15. u.root = IF a.root = k THEN y ELSE a.root
  BY <1>6, <1>7, <1>9, <1>10, <1>11, <1>12
<1>16. \A z \in Node : z # k /\ z # l => u.parent[z] = b.parent[z]
  BY <1>9, <1>10, <1>11
<1>17. u.parent[y] = a.parent[k]
  <2>1. u.parent[y] = t.parent[k]
    BY <1>3, <1>4, <1>7, <1>16
  <2>2. a.parent[k] = t.parent[k]
    BY <1>3, <1>4, <1>12
  <2> QED
    BY <2>1, <2>2
<1>18. ASSUME NEW z \in ((N \ {y}) \ {k}) \cup {x}
       PROVE  u.parent[z] = IF a.parent[z] = k THEN y ELSE a.parent[z]
  <2>1. z \in Node /\ z # k /\ z # y
    BY <1>2, <1>3, <1>4
  <2>2. CASE z = x
    <3>1. u.parent[x] = s.parent[x]
      BY <1>3, <1>4, <1>7, <1>16
    <3> QED
      BY <1>3, <1>6, <1>12, <2>2, <3>1
  <2>3. CASE z = l
    <3>1. u.parent[l] = y
      BY <1>3, <1>4, <1>9, <1>10, <1>11
    <3>2. a.parent[l] = k
      BY <1>3, <1>4, <1>12
    <3> QED
      BY <2>3, <3>1, <3>2
  <2>4. CASE z = r
    <3>1. u.parent[r] = y
      BY <1>3, <1>4, <1>6, <1>7, <1>16, <2>1, <2>4
    <3>2. a.parent[r] = k
      BY <1>3, <1>4, <1>12, <2>1, <2>4
    <3> QED
      BY <2>4, <3>1, <3>2
  <2>5. CASE z # x /\ z # l /\ z # r
    <3>1. u.parent[z] = t.parent[z]
      BY <1>6, <1>7, <1>16, <2>1, <2>5
    <3>2. a.parent[z] = t.parent[z]
      BY <1>12, <2>1, <2>5
    <3>3. z \in N
      BY <2>5
    <3>4. t.parent[z] # k
      BY <1>3, <2>5, <3>3
    <3> QED
      BY <3>1, <3>2, <3>4
  <2> QED
    BY <2>2, <2>3, <2>4, <2>5
<1>19. u.black[y] = a.black[k] /\ \A z \in Node \ {k, y} : u.black[z] = a.black[z]
  <2>1. u.black[y] = t.black[k] /\ a.black[k] = t.black[k]
    BY <1>3, <1>4, <1>10, <1>11, <1>12
  <2>2. \A z \in Node \ {k, y} : u.black[z] = t.black[z] /\ a.black[z] = t.black[z]
    BY <1>6, <1>7, <1>9, <1>10, <1>11, <1>12
  <2> QED
    BY <2>1, <2>2
<1> QED
  BY <1>11, <1>13, <1>14, <1>15, <1>17, <1>18, <1>19 DEF Replaced

(* y is the next node after k. *)
LEMMA NextNode ==
    ASSUME NEW t, NEW N, NEW D, NEW k, NEW l, NEW r, NEW y, NEW x, Around(t, N, D, k, l, r, y, x),
           Extreme("left", D[r], y)
    PROVE  \A z \in (N \ {y}) \ {k}, f \in Dir : OnSide(f, z, k) <=> OnSide(f, z, y)
<1>1. PICK a \in Dir, b \in Dir : a = "left" /\ b = "right" /\ b = Other(a) /\ a = Other(b) /\ a # b
  BY DEF Dir, Other
<1>2. /\ Shape(t, N, D) /\ k \in N /\ l = t.child[a][k] /\ r = t.child[b][k] /\ y \in D[r]
  BY <1>1 DEF Around
<1>3. k \in Key /\ y \in N /\ y # k /\ N \subseteq Key /\ Key \subseteq Int /\ y \in Int /\ k \in Int
  <2>1. k \in Key /\ y \in N /\ y # k
    BY SpliceNodes
  <2> QED
    BY <1>2, <2>1, TreeAssumption DEF Shape
<1>4. OnSide(b, y, k)
  <2>1. \A v \in D[t.child[b][k]] : OnSide(b, v, k)
    BY <1>2, <1>3 DEF Shape
  <2> QED
    BY <1>2, <2>1
<1>5. D[k] = {k} \cup D[l] \cup D[r] /\ \A v \in D[l] : OnSide(a, v, k)
  <2>1. D[k] = {k} \cup D[t.child["left"][k]] \cup D[t.child["right"][k]]
    BY <1>2, <1>3 DEF Shape
  <2>2. \A v \in D[t.child[a][k]] : OnSide(a, v, k)
    BY <1>2, <1>3 DEF Shape
  <2> QED
    BY <1>1, <1>2, <2>1, <2>2
<1>6. ASSUME NEW z \in N, z # y, z # k, OnSide(b, z, k)
      PROVE  OnSide(b, z, y)
  <2>1. z \in Int
    BY <1>3
  <2>2. CASE z \in D[k]
    <3>1. z \in D[r]
      BY <1>1, <1>3, <1>5, <1>6, <2>1, <2>2, SideFacts
    <3>2. \A v \in D[r] : v = y \/ OnSide(Other(a), v, y)
      BY <1>1 DEF Extreme
    <3> QED
      BY <1>1, <1>6, <3>1, <3>2
  <2>3. CASE z \notin D[k]
    <3>1. PICK d \in Dir : \A v \in D[k] : OnSide(d, z, v)
      BY <1>2, <2>3, Convex
    <3>2. k \in D[k] /\ y \in D[k]
      BY <1>2, <1>5
    <3>3. OnSide(d, z, k) /\ OnSide(d, z, y)
      BY <3>1, <3>2
    <3>4. d = b
      BY <1>3, <1>6, <2>1, <3>3, SideFacts
    <3> QED
      BY <3>3, <3>4
  <2> QED
    BY <2>2, <2>3
<1>7. ASSUME NEW z \in N, z # y, z # k, OnSide(a, z, k)
      PROVE  OnSide(a, z, y)
  <2>1. z \in Int /\ OnSide(a, k, y)
    BY <1>1, <1>3, <1>4, SideFacts
  <2> QED
    BY <1>3, <1>7, <2>1, SideFacts
<1>8. ASSUME NEW z \in (N \ {y}) \ {k}, NEW f \in Dir
      PROVE  OnSide(f, z, k) <=> OnSide(f, z, y)
  <2>1. z \in N /\ z # y /\ z # k /\ z \in Int
    BY <1>3
  <2>2. f = a \/ f = b
    BY <1>1, SideFacts
  <2>3. OnSide(a, z, k) \/ OnSide(b, z, k)
    <3>1. OnSide(Toward(z, k), z, k) /\ Toward(z, k) \in Dir
      BY <1>3, <2>1, SideFacts
    <3>2. Toward(z, k) = a \/ Toward(z, k) = b
      BY <1>1, <3>1, SideFacts
    <3> QED
      BY <3>1, <3>2
  <2>4. ~(OnSide(a, z, k) /\ OnSide(b, z, k)) /\ ~(OnSide(a, z, y) /\ OnSide(b, z, y))
    BY <1>1, <1>3, <2>1, SideFacts
  <2> QED
    BY <1>6, <1>7, <2>1, <2>2, <2>3, <2>4
<1> QED
  BY <1>8

(* remove of a node with two children, up to the loop. *)
LEMMA SpliceStep ==
    ASSUME NEW D, Shape(tree, nodes, D), Idle(tree, nodes), NEW k \in nodes,
           NEW l, l = tree.child["left"][k], l # Nil, NEW r, r = tree.child["right"][k], r # Nil,
           NEW y, y = Most("left", r), NEW x, x = tree.child["right"][y]
    PROVE  /\ \E E : Shape(Forget(SpliceOut(k, y), k), nodes \ {k}, E)
           /\ tree.black[y] => Deleting(Forget(SpliceOut(k, y), k), nodes \ {k}, x)
           /\ ~tree.black[y] => Idle(Forget(SpliceOut(k, y), k), nodes \ {k})
           /\ y # k
<1>1. PICK t, N : t = tree /\ N = nodes
  OBVIOUS
<1>2. Extreme("left", D[r], y) /\ t.child["left"][y] = Nil
  <2>1. r \in Key
    <3>1. k \in Key /\ "right" \in Dir
      BY DEF Shape, Dir
    <3> QED
      BY <3>1, Children
  <2>2. "left" \in Dir
    BY DEF Dir
  <2> QED
    BY <1>1, <2>1, <2>2, MostEnds
<1>3. Around(t, N, D, k, l, r, y, x)
  BY <1>1, <1>2 DEF Around, Extreme
<1>4. /\ y \in N /\ y # k /\ x # k /\ x # y /\ x \in N \cup {Nil}
  BY <1>3, SpliceNodes
<1>5. Shape(t, N, D) /\ t \in TreeRecord /\ N \subseteq Key /\ y \in Key /\ x \in Node /\ Idle(t, N)
  <2>1. Shape(t, N, D) /\ Idle(t, N)
    BY <1>1
  <2>2. t \in TreeRecord /\ N \subseteq Key
    BY <2>1 DEF Shape
  <2> QED
    BY <1>4, <2>1, <2>2 DEF Node
<1>6. PICK a : a = Forget(Transplant(t, y, x), y)
  OBVIOUS
<1>7. Unlinked(t, a, y, x)
  <2>1. OnlyLink(t, y)
    BY <1>4, <1>5, NodeLink
  <2> QED
    BY <1>4, <1>5, <1>6, <2>1, UnlinkLinks
<1>8. PICK o \in Dir : o = "right" /\ Other(o) = "left"
  BY DEF Dir, Other
<1>9. x = t.child[o][y] /\ t.child[Other(o)][y] = Nil
  BY <1>1, <1>2, <1>8
<1>10. \E E : Shape(a, N \ {y}, E)
  BY <1>4, <1>5, <1>7, <1>9, UnlinkShape
<1>11. /\ t.black[y] => Deleting(a, N \ {y}, x)
       /\ ~t.black[y] => Idle(a, N \ {y})
  BY <1>4, <1>5, <1>7, <1>9, UnlinkColours
<1>12. PICK v : v = Transplant(t, y, x)
  OBVIOUS
<1>13. PICK s : s = IF t.parent[y] = k THEN WithParent(t, x, y) ELSE Attach(v, "right", y, v.child["right"][k])
  OBVIOUS
<1>14. PICK b : b = Transplant(s, k, y)
  OBVIOUS
<1>15. PICK c : c = Attach(b, "left", y, b.child["left"][k])
  OBVIOUS
<1>16. PICK e : e = Paint(c, y, t.black[k])
  OBVIOUS
<1>17. PICK u : u = Forget(e, k)
  OBVIOUS
<1>18. u = Forget(SpliceOut(k, y), k)
  <2>1. SpliceOut(k, y) = e
    BY <1>1, <1>12, <1>13, <1>14, <1>15, <1>16 DEF SpliceOut
  <2> QED
    BY <1>17, <2>1
<1>19. Lifted(t, s, k, y, x, r)
  BY <1>3, <1>12, <1>13, LiftLinks
<1>20. Moved(t, s, b, c, e, u, k, l, y)
  BY <1>3, <1>14, <1>15, <1>16, <1>17, <1>19, SpliceMoves
<1>21. Replaced(a, u, N \ {y}, k, y, x)
  BY <1>3, <1>7, <1>19, <1>20, SpliceLinks
<1>22. PICK E : Shape(a, N \ {y}, E)
  BY <1>10
<1>23. k \in N \ {y} /\ y \in Key \ (N \ {y}) /\ ((N \ {y}) \ {k}) \cup {y} = N \ {k}
  BY <1>1, <1>4, <1>5
<1>24. \A z \in (N \ {y}) \ {k}, f \in Dir : OnSide(f, z, k) <=> OnSide(f, z, y)
  BY <1>2, <1>3, NextNode
<1>25. PICK M : M = N \ {y}
  OBVIOUS
<1>26. \E G : Shape(u, (M \ {k}) \cup {y}, G)
  BY <1>21, <1>22, <1>23, <1>24, <1>25, ReplaceShape
<1>27. /\ Deleting(a, M, x) => Deleting(u, (M \ {k}) \cup {y}, x)
       /\ Idle(a, M) => Idle(u, (M \ {k}) \cup {y})
  BY <1>4, <1>21, <1>22, <1>23, <1>25, ReplaceColours
<1>28. (M \ {k}) \cup {y} = nodes \ {k}
  BY <1>1, <1>23, <1>25
<1> QED
  BY <1>1, <1>4, <1>11, <1>18, <1>25, <1>26, <1>27, <1>28

(* Where _first or _last goes when k goes: a child there is a red leaf, for *)
(* on the other side of k there is nothing.                                 *)
LEMMA RemoveEnd ==
    ASSUME NEW t, NEW N, NEW D, Shape(t, N, D), Idle(t, N), NEW d \in Dir, NEW k, Extreme(d, N, k),
           NEW o \in Dir, o = Other(d), N \ {k} # {},
           NEW m, m = IF t.child[o][k] # Nil THEN t.child[o][k] ELSE t.parent[k]
    PROVE  Extreme(d, N \ {k}, m)
<1>1. /\ t \in TreeRecord /\ N \subseteq Key /\ Nil \notin Key /\ Key \subseteq Int /\ D[Nil] = {}
      /\ D[t.root] = N
  BY TreeAssumption DEF Shape
<1>2. k \in N /\ k \in Key /\ t.child[d][k] = Nil
  <2>1. k \in N /\ t.child[d][k] = Nil
    BY EndChild
  <2> QED
    BY <1>1, <2>1
<1>3. \A z \in N : z = k \/ OnSide(o, z, k)
  BY DEF Extreme
<1>4. PICK c : c = t.child[o][k] /\ c \in N \cup {Nil}
  BY <1>2, ChildNode
<1>5. D[k] = {k} \cup D[c] /\ k \in D[k]
  <2>1. \A f \in Dir : D[k] = {k} \cup D[t.child[f][k]] \cup D[t.child[Other(f)][k]]
    BY <1>2, Children
  <2> QED
    BY <1>1, <1>2, <1>4, <2>1
<1>6. ASSUME NEW n \in N, NEW z \in N, z \notin D[n], k \in D[n]
      PROVE  OnSide(o, z, n)
  <2>1. PICK e \in Dir : \A v \in D[n] : OnSide(e, z, v)
    BY <1>6, Convex
  <2>2. n \in D[n] /\ z \in Int /\ k \in Int /\ n \in Int
    <3>1. n \in Key
      BY <1>1
    <3>2. n \in D[n]
      BY <3>1, Children
    <3> QED
      BY <1>1, <1>2, <3>1, <3>2
  <2>3. OnSide(e, z, k) /\ OnSide(e, z, n)
    BY <1>6, <2>1, <2>2
  <2>4. OnSide(o, z, k)
    BY <1>3, <1>6
  <2>5. e = o
    BY <2>2, <2>3, <2>4, SideFacts
  <2> QED
    BY <2>3, <2>5
<1>7. CASE c # Nil
  <2>1. c \in N /\ c \in Key /\ m = c
    BY <1>1, <1>4, <1>7
  <2>2. PICK H : Heights(t, N, H, Nil, "left")
    BY DEF Idle
  <2>3. \A a \in N, f \in Dir : ~t.black[a] => t.black[t.child[f][a]]
    BY <1>1, NoReds DEF Idle
  <2>4. /\ H[Nil] = 0
        /\ \A a \in N, f \in Dir : /\ H[a] = Ink(t, a) + H[t.child[f][a]]
                                   /\ H[t.child[f][a]] \in Nat /\ Ink(t, a) \in Nat
    BY <1>1, <2>2, PlainHeights
  <2>5. H[c] = 0
    <3>1. H[k] = Ink(t, k) + H[t.child[d][k]] /\ H[k] = Ink(t, k) + H[t.child[o][k]]
      BY <1>2, <2>4
    <3>2. H[k] = Ink(t, k) + 0 /\ H[k] = Ink(t, k) + H[c] /\ H[c] \in Nat /\ Ink(t, k) \in Nat
      BY <1>2, <1>4, <2>4, <3>1
    <3> QED
      BY <3>2
  <2>6. \A a \in N : H[a] = 0 => ~t.black[a] /\ \A f \in Dir : H[t.child[f][a]] = 0
    <3>1. ASSUME NEW a \in N, H[a] = 0, NEW f \in Dir
          PROVE  ~t.black[a] /\ H[t.child[f][a]] = 0
      <4>1. H[a] = Ink(t, a) + H[t.child[f][a]] /\ H[t.child[f][a]] \in Nat /\ Ink(t, a) \in Nat
        BY <2>4
      <4>2. Ink(t, a) = 0 /\ H[t.child[f][a]] = 0
        BY <3>1, <4>1
      <4> QED
        BY <4>2 DEF Ink
    <3> QED
      BY <3>1
  <2>7. \A f \in Dir : t.child[f][c] = Nil
    <3>1. \A f \in Dir : t.child[f][c] \in N \cup {Nil}
      BY <2>1, ChildNode
    <3> QED
      BY <2>1, <2>3, <2>5, <2>6, <3>1
  <2>8. D[c] = {c}
    <3>1. D[c] = {c} \cup D[t.child["left"][c]] \cup D[t.child["right"][c]]
      BY <2>1 DEF Shape
    <3>2. t.child["left"][c] = Nil /\ t.child["right"][c] = Nil
      BY <2>7 DEF Dir
    <3> QED
      BY <1>1, <3>1, <3>2
  <2>9. c # k
    <3>1. \A f \in Dir : k \notin D[t.child[f][k]]
      BY <1>2, Children
    <3> QED
      BY <1>4, <2>8, <3>1
  <2>10. ASSUME NEW z \in N \ {k}, z # c
         PROVE  OnSide(o, z, c)
    <3>1. PICK e \in Dir : \A v \in D[k] : OnSide(e, z, v)
      <4>1. z \notin D[k] /\ z \in N
        BY <1>5, <2>8, <2>10
      <4> QED
        BY <1>2, <4>1, Convex
    <3>2. OnSide(e, z, k) /\ OnSide(e, z, c)
      BY <1>5, <2>8, <3>1
    <3>3. OnSide(o, z, k) /\ z \in Int /\ k \in Int
      BY <1>1, <1>2, <1>3
    <3>4. e = o
      BY <3>2, <3>3, SideFacts
    <3> QED
      BY <3>2, <3>4
  <2> QED
    BY <2>1, <2>9, <2>10 DEF Extreme
<1>8. CASE c = Nil
  <2>1. PICK p : p = t.parent[k] /\ p = m
    BY <1>4, <1>8
  <2>2. D[k] = {k}
    BY <1>1, <1>5, <1>8
  <2>3. k # t.root
    BY <1>1, <2>2
  <2>4. p \in N /\ \E g \in Dir : t.child[g][p] = k
    <3>1. k # t.root => t.parent[k] \in N /\ \E e \in Dir : t.child[e][t.parent[k]] = k
      BY <1>2, Slot
    <3> QED
      BY <2>1, <2>3, <3>1
  <2>5. PICK g \in Dir : t.child[g][p] = k
    BY <2>4
  <2>6. p \in Key /\ p \in Int /\ k \in Int
    BY <1>1, <1>2, <2>4
  <2>7. OnSide(g, k, p)
    <3>1. \A v \in D[t.child[g][p]] : OnSide(g, v, p)
      BY <2>6 DEF Shape
    <3> QED
      BY <1>5, <2>5, <3>1
  <2>8. p # k /\ OnSide(o, p, k)
    BY <1>3, <2>4, <2>6, <2>7, SideFacts
  <2>9. g = d
    <3>1. OnSide(d, k, p)
      BY <2>6, <2>8, SideFacts
    <3> QED
      BY <2>6, <2>7, <3>1, SideFacts
  <2>10. D[p] = {p} \cup D[k] \cup D[t.child[o][p]] /\ \A v \in D[t.child[o][p]] : OnSide(o, v, p)
    <3>1. \A f \in Dir : D[p] = {p} \cup D[t.child[f][p]] \cup D[t.child[Other(f)][p]]
      BY <2>6, Children
    <3>2. D[p] = {p} \cup D[t.child[d][p]] \cup D[t.child[o][p]]
      BY <3>1
    <3>3. \A v \in D[t.child[o][p]] : OnSide(o, v, p)
      BY <2>6 DEF Shape
    <3> QED
      BY <2>5, <2>9, <3>2, <3>3
  <2>11. ASSUME NEW z \in N \ {k}, z # p
         PROVE  OnSide(o, z, p)
    <3>1. CASE z \in D[p]
      BY <2>2, <2>10, <2>11, <3>1
    <3>2. CASE z \notin D[p]
      <4>1. k \in D[p]
        BY <2>2, <2>10
      <4> QED
        BY <1>6, <2>4, <3>2, <4>1
    <3> QED
      BY <3>1, <3>2
  <2> QED
    BY <2>1, <2>4, <2>8, <2>11 DEF Extreme
<1> QED
  BY <1>7, <1>8

LEMMA RemoveParts ==
    ASSUME NEW k \in Key, Remove(k), NEW l, l = tree.child["left"][k], NEW r, r = tree.child["right"][k],
           NEW y, y = Most("left", r), NEW x, x = tree.child["right"][y], l # Nil /\ r # Nil => y # k
    PROVE  /\ SearchTree(k) = k /\ nodes' = nodes \ {k}
           /\ l = Nil \/ r = Nil =>
                /\ tree' = Forget(Transplant(tree, k, IF l = Nil THEN r ELSE l), k)
                /\ tree.black[k] => pc' = "delete" /\ cur' = (IF l = Nil THEN r ELSE l) /\ size' = size
                /\ ~tree.black[k] => pc' = pc /\ cur' = cur /\ size' = size - 1
           /\ l # Nil /\ r # Nil =>
                /\ tree' = Forget(SpliceOut(k, y), k)
                /\ tree.black[y] => pc' = "delete" /\ cur' = x /\ size' = size
                /\ ~tree.black[y] => pc' = pc /\ cur' = cur /\ size' = size - 1
  BY DEF Remove

(* remove of a node, up to the loop. *)
LEMMA RemoveStep ==
    ASSUME NEW D, Shape(tree, nodes, D), Idle(tree, nodes), NEW k \in Key, Remove(k)
    PROVE  /\ k \in nodes /\ nodes' = nodes \ {k}
           /\ \E E : Shape(tree', nodes', E)
           /\ \/ pc' = "delete" /\ size' = size /\ Deleting(tree', nodes', cur')
              \/ pc' = pc /\ cur' = cur /\ size' = size - 1 /\ Idle(tree', nodes')
<1>1. k \in nodes /\ tree \in TreeRecord
  <2>1. SearchTree(k) = k /\ k # Nil
    BY TreeAssumption DEF Remove
  <2>2. SearchTree(k) = IF k \in nodes THEN k ELSE Nil
    BY SearchTreeFinds
  <2> QED
    BY <2>1, <2>2 DEF Shape
<1>2. PICK l, r : l = tree.child["left"][k] /\ r = tree.child["right"][k]
  OBVIOUS
<1>3. PICK y : y = Most("left", r)
  OBVIOUS
<1>4. PICK x : x = tree.child["right"][y]
  OBVIOUS
<1>5. l # Nil /\ r # Nil =>
                           /\ \E E : Shape(Forget(SpliceOut(k, y), k), nodes \ {k}, E)
                           /\ tree.black[y] => Deleting(Forget(SpliceOut(k, y), k), nodes \ {k}, x)
                           /\ ~tree.black[y] => Idle(Forget(SpliceOut(k, y), k), nodes \ {k})
                           /\ y # k
  BY <1>1, <1>2, <1>3, <1>4, SpliceStep
<1>6. /\ nodes' = nodes \ {k}
      /\ l = Nil \/ r = Nil =>
                /\ tree' = Forget(Transplant(tree, k, IF l = Nil THEN r ELSE l), k)
                /\ tree.black[k] => pc' = "delete" /\ cur' = (IF l = Nil THEN r ELSE l) /\ size' = size
                /\ ~tree.black[k] => pc' = pc /\ cur' = cur /\ size' = size - 1
      /\ l # Nil /\ r # Nil =>
                /\ tree' = Forget(SpliceOut(k, y), k)
                /\ tree.black[y] => pc' = "delete" /\ cur' = x /\ size' = size
                /\ ~tree.black[y] => pc' = pc /\ cur' = cur /\ size' = size - 1
  <2>1. l # Nil /\ r # Nil => y # k
    BY <1>5
  <2>2. Remove(k)
    OBVIOUS
  <2> QED
    BY <1>2, <1>3, <1>4, <2>1, <2>2, RemoveParts
<1>7. CASE l # Nil /\ r # Nil
  <2>1. PICK u : u = Forget(SpliceOut(k, y), k)
    OBVIOUS
  <2>2. /\ \E E : Shape(u, nodes \ {k}, E)
        /\ tree.black[y] => Deleting(u, nodes \ {k}, x)
        /\ ~tree.black[y] => Idle(u, nodes \ {k})
    BY <1>5, <1>7, <2>1
  <2>3. tree' = u /\ (tree.black[y] => pc' = "delete" /\ cur' = x /\ size' = size)
                  /\ (~tree.black[y] => pc' = pc /\ cur' = cur /\ size' = size - 1)
    BY <1>6, <1>7, <2>1
  <2> QED
    BY <1>1, <1>6, <2>2, <2>3
<1>8. CASE l = Nil \/ r = Nil
  <2>1. PICK c : c = IF l = Nil THEN r ELSE l
    OBVIOUS
  <2>2. PICK f \in Dir : c = tree.child[f][k] /\ tree.child[Other(f)][k] = Nil
    BY <1>2, <1>8, <2>1 DEF Dir, Other
  <2>3. c \in Node /\ c # k
    <3>1. \A g \in Dir : tree.child[g][k] \in Node /\ k \notin D[tree.child[g][k]]
      BY Children
    <3>2. k \in D[k]
      BY Children
    <3> QED
      BY <2>2, <3>1, <3>2
  <2>4. PICK u : u = Forget(Transplant(tree, k, c), k)
    OBVIOUS
  <2>5. OnlyLink(tree, k)
    BY <1>1, NodeLink
  <2>6. Unlinked(tree, u, k, c)
    BY <1>1, <2>3, <2>4, <2>5, UnlinkLinks
  <2>7. \E E : Shape(u, nodes \ {k}, E)
    BY <1>1, <2>2, <2>6, UnlinkShape
  <2>8. /\ tree.black[k] => Deleting(u, nodes \ {k}, c)
        /\ ~tree.black[k] => Idle(u, nodes \ {k})
    BY <1>1, <2>2, <2>6, UnlinkColours
  <2>9. tree' = u /\ (tree.black[k] => pc' = "delete" /\ cur' = c /\ size' = size)
                  /\ (~tree.black[k] => pc' = pc /\ cur' = cur /\ size' = size - 1)
    BY <1>6, <1>8, <2>1, <2>4
  <2> QED
    BY <1>1, <1>6, <2>7, <2>8, <2>9
<1> QED
  BY <1>7, <1>8

(* _first and _last after a remove. *)
LEMMA RemoveEnds ==
    ASSUME NEW D, Shape(tree, nodes, D), Idle(tree, nodes), EndsRight, NEW k \in nodes, Remove(k),
           nodes \ {k} # {}
    PROVE  Extreme("left", nodes \ {k}, first') /\ Extreme("right", nodes \ {k}, last')
<1>1. /\ Extreme("left", nodes, first) /\ Extreme("right", nodes, last)
      /\ nodes \subseteq Key /\ Key \subseteq Int /\ first \in nodes /\ last \in nodes
  BY TreeAssumption DEF EndsRight, Extreme, Shape
<1>2. ASSUME NEW d \in Dir, NEW m, Extreme(d, nodes, m), m # k
      PROVE  Extreme(d, nodes \ {k}, m)
  BY <1>2 DEF Extreme
<1>3. ASSUME NEW d \in Dir, NEW o \in Dir, o = Other(d), Extreme(d, nodes, k), NEW m, m = EndAfter(k, o)
      PROVE  Extreme(d, nodes \ {k}, m)
  <2>1. m = IF tree.child[o][k] # Nil THEN tree.child[o][k] ELSE tree.parent[k]
    BY <1>3 DEF EndAfter
  <2> QED
    BY <1>3, <2>1, RemoveEnd
<1>4. /\ "left" \in Dir /\ "right" \in Dir /\ "left" = Other("right") /\ "right" = Other("left")
  BY DEF Dir, Other
<1>5. first = last => nodes \ {first} = {}
  <2>1. ASSUME first = last, NEW z \in nodes, z # first
        PROVE  FALSE
    <3>1. OnSide("right", z, first) /\ OnSide("left", z, first)
      BY <1>1, <1>4, <2>1 DEF Extreme
    <3>2. z \in Int /\ first \in Int
      BY <1>1
    <3> QED
      BY <3>1, <3>2 DEF OnSide
  <2> QED
    BY <2>1
<1>6. /\ k = first => first' = EndAfter(k, "right") /\ last' = last
      /\ k # first => first' = first
      /\ k # first /\ k = last => last' = EndAfter(k, "left")
      /\ k # last => last' = last
  BY DEF Remove
<1>7. Extreme("left", nodes \ {k}, first')
  <2>1. CASE k = first
    BY <1>1, <1>3, <1>4, <1>6, <2>1
  <2>2. CASE k # first
    BY <1>1, <1>2, <1>4, <1>6, <2>2
  <2> QED
    BY <2>1, <2>2
<1>8. Extreme("right", nodes \ {k}, last')
  <2>1. CASE k = last
    <3>1. k # first
      BY <1>5, <2>1
    <3> QED
      BY <1>1, <1>3, <1>4, <1>6, <2>1, <3>1
  <2>2. CASE k # last
    BY <1>1, <1>2, <1>4, <1>6, <2>2
  <2> QED
    BY <2>1, <2>2
<1> QED
  BY <1>7, <1>8

-----------------------------------------------------------------------------
(* The invariant *)

TreeInv == \E D : Shape(tree, nodes, D)

(* Between calls the colours are right; inside a loop they are but at cur. *)
ColourInv ==
    /\ pc = "idle" => cur = Nil /\ Idle(tree, nodes)
    /\ pc = "insert" => Inserting(tree, nodes, cur)
    /\ pc = "delete" => Deleting(tree, nodes, cur)

(* size is counted after the loop. *)
SizeInv ==
    /\ pc = "idle" => size = Cardinality(nodes)
    /\ pc = "insert" => size + 1 = Cardinality(nodes)
    /\ pc = "delete" => size = Cardinality(nodes) + 1
    /\ size \in Nat

PlainInv ==
    value \in [Key -> Value] /\ first \in Node /\ last \in Node /\ pc \in {"idle", "insert", "delete"}

Inv == PlainInv /\ TreeInv /\ ColourInv /\ SizeInv /\ EndsRight

LEMMA NodesFinite ==
    ASSUME TreeInv
    PROVE  /\ nodes \subseteq Key /\ IsFiniteSet(nodes) /\ Cardinality(nodes) \in Nat
           /\ nodes = {} <=> Cardinality(nodes) = 0
<1>1. nodes \subseteq Key /\ IsFiniteSet(Key)
  BY TreeAssumption DEF TreeInv, Shape
<1>2. IsFiniteSet(nodes)
  BY <1>1, FS_Subset
<1> QED
  BY <1>1, <1>2, FS_CardinalityType, FS_EmptySet

(* One node more, one node less. *)
LEMMA CountNodes ==
    ASSUME TreeInv, NEW k
    PROVE  /\ k \notin nodes => Cardinality(nodes \cup {k}) = Cardinality(nodes) + 1
           /\ k \in nodes => Cardinality(nodes \ {k}) = Cardinality(nodes) - 1
  BY NodesFinite, FS_AddElement, FS_RemoveElement

(* The invariant has the types in it. *)
LEMMA InvTypes ==
    Inv => TypeOK
<1> SUFFICES ASSUME Inv PROVE TypeOK
  OBVIOUS
<1>1. nodes \subseteq Key /\ tree \in TreeRecord
  BY DEF Inv, TreeInv, Shape
<1>2. cur \in Node
  <2>1. cur = Nil \/ cur \in nodes \cup {Nil}
    BY DEF Inv, ColourInv, PlainInv, Inserting, Deleting
  <2> QED
    BY <1>1, <2>1 DEF Node
<1> QED
  BY <1>1, <1>2 DEF Inv, PlainInv, SizeInv, TypeOK, TreeRecord

LEMMA FirstValueType ==
    FirstValue \in Value /\ \A k \in Key : ValuesOf(k) \subseteq Value
  BY TreeAssumption DEF FirstValue, ValuesOf

(* The empty tree. *)
LEMMA EmptyTree ==
    ASSUME NEW t \in TreeRecord, t.root = Nil, \A d \in Dir, k \in Key : t.child[d][k] = Nil, t.black[Nil]
    PROVE  (\E D : Shape(t, {}, D)) /\ Idle(t, {})
<1>1. Node = Key \cup {Nil} /\ Nil \notin Key /\ Dir = {"left", "right"}
  BY TreeAssumption DEF Node, Dir
<1>2. Shape(t, {}, [x \in Node |-> {x} \ {Nil}])
  <2> DEFINE D == [x \in Node |-> {x} \ {Nil}]
  <2>1. D \in [Node -> SUBSET Key] /\ D[Nil] = {} /\ \A k \in Key : D[k] = {k}
    BY <1>1
  <2> HIDE DEF D
  <2>2. \A k \in Key : t.child["left"][k] = Nil /\ t.child["right"][k] = Nil
    BY <1>1
  <2>3. Shape(t, {}, D)
    BY <1>1, <2>1, <2>2 DEF Shape
  <2> QED
    BY <2>3 DEF D
<1>3. Reds(t, {}, Nil, Nil)
  BY DEF Reds
<1>4. [x \in Node |-> 0] \in [Node -> Nat] /\ [x \in Node |-> 0][Nil] = 0
  BY <1>1
<1>5. Heights(t, {}, [x \in Node |-> 0], Nil, "left")
  BY <1>4 DEF Heights
<1> QED
  BY <1>2, <1>3, <1>5 DEF Idle

LEMMA InitInv ==
    Init => Inv
<1> SUFFICES ASSUME Init PROVE Inv
  OBVIOUS
<1>1. Node = Key \cup {Nil} /\ Nil \notin Key
  BY TreeAssumption DEF Node
<1>2. /\ tree.root = Nil /\ tree.child = [d \in Dir |-> [k \in Key |-> Nil]]
      /\ tree.black = [n \in Node |-> TRUE] /\ tree \in TreeRecord
  BY <1>1 DEF Init, TreeRecord
<1>3. \A d \in Dir, k \in Key : tree.child[d][k] = Nil
  BY <1>2
<1>4. tree.black[Nil]
  BY <1>1, <1>2
<1>5. (\E D : Shape(tree, {}, D)) /\ Idle(tree, {})
  BY <1>2, <1>3, <1>4, EmptyTree
<1>6. PlainInv
  BY <1>1, FirstValueType DEF Init, PlainInv
<1>7. SizeInv
  BY FS_EmptySet DEF Init, SizeInv
<1> QED
  BY <1>5, <1>6, <1>7 DEF Init, Inv, TreeInv, ColourInv, EndsRight

LEMMA InsertEqualInv ==
    ASSUME Inv, NEW k \in Key, NEW v \in Value, InsertEqual(k, v)
    PROVE  Inv'
<1>1. UNCHANGED <<nodes, tree, first, last, size, pc, cur>> /\ value' \in [Key -> Value]
  BY DEF InsertEqual, Inv, PlainInv
<1>2. PlainInv' /\ SizeInv' /\ EndsRight'
  BY <1>1 DEF Inv, PlainInv, SizeInv, EndsRight
<1>3. TreeInv' /\ ColourInv'
  BY <1>1 DEF Inv, TreeInv, ColourInv
<1> QED
  BY <1>2, <1>3 DEF Inv

LEMMA InsertNodeInv ==
    ASSUME Inv, NEW k \in Key, NEW v \in Value, InsertNode(k, v)
    PROVE  Inv'
<1>1. PICK D : Shape(tree, nodes, D)
  BY DEF Inv, TreeInv
<1>2. pc = "idle" /\ pc' = "insert" /\ size' = size /\ value' = [value EXCEPT ![k] = v]
  BY DEF InsertNode
<1>3. Idle(tree, nodes) /\ EndsRight /\ TreeInv
  BY <1>2 DEF Inv, ColourInv
<1>4. /\ k \notin nodes /\ nodes' = nodes \cup {k}
      /\ \E E : Shape(tree', nodes', E)
      /\ Inserting(tree', nodes', cur')
      /\ Extreme("left", nodes', first') /\ Extreme("right", nodes', last')
  BY <1>1, <1>3, InsertNodeStep
<1>5. TreeInv'
  BY <1>4 DEF TreeInv
<1>6. nodes' \subseteq Key
  BY <1>1, <1>4 DEF Shape
<1>7. PlainInv'
  <2>1. first' \in Node /\ last' \in Node
    BY <1>4, <1>6 DEF Extreme, Node
  <2>2. value' \in [Key -> Value]
    BY <1>2 DEF Inv, PlainInv
  <2> QED
    BY <1>2, <2>1, <2>2 DEF PlainInv
<1>8. ColourInv'
  BY <1>2, <1>4 DEF ColourInv
<1>9. SizeInv'
  <2>1. Cardinality(nodes') = Cardinality(nodes) + 1
    BY <1>3, <1>4, CountNodes
  <2> QED
    BY <1>2, <2>1 DEF Inv, SizeInv
<1>10. EndsRight'
  BY <1>4 DEF EndsRight
<1> QED
  BY <1>5, <1>7, <1>8, <1>9, <1>10 DEF Inv

LEMMA RemoveInv ==
    ASSUME Inv, NEW k \in Key, Remove(k)
    PROVE  Inv'
<1>1. PICK D : Shape(tree, nodes, D)
  BY DEF Inv, TreeInv
<1>2. pc = "idle" /\ value' = [value EXCEPT ![k] = FirstValue]
  BY DEF Remove
<1>3. Idle(tree, nodes) /\ EndsRight /\ TreeInv /\ cur = Nil /\ size = Cardinality(nodes)
  BY <1>2 DEF Inv, ColourInv, SizeInv
<1>4. /\ k \in nodes /\ nodes' = nodes \ {k}
      /\ \E E : Shape(tree', nodes', E)
      /\ \/ pc' = "delete" /\ size' = size /\ Deleting(tree', nodes', cur')
         \/ pc' = pc /\ cur' = cur /\ size' = size - 1 /\ Idle(tree', nodes')
  BY <1>1, <1>3, RemoveStep
<1>5. TreeInv'
  BY <1>4 DEF TreeInv
<1>6. PlainInv'
  <2>1. first' \in Node /\ last' \in Node
    <3>1. \A d \in Dir : EndAfter(k, d) \in Node
      BY <1>1, TreeTypes DEF EndAfter, Shape, Node
    <3>2. first \in Node /\ last \in Node /\ "left" \in Dir /\ "right" \in Dir
      BY DEF Inv, PlainInv, Dir
    <3>3. first' \in {EndAfter(k, "right"), first} /\ last' \in {EndAfter(k, "left"), last}
      BY DEF Remove
    <3> QED
      BY <3>1, <3>2, <3>3
  <2>2. value' \in [Key -> Value]
    BY <1>2, FirstValueType DEF Inv, PlainInv
  <2> QED
    BY <1>2, <1>4, <2>1, <2>2 DEF PlainInv
<1>7. ColourInv'
  BY <1>2, <1>3, <1>4 DEF ColourInv
<1>8. SizeInv'
  <2>1. Cardinality(nodes') = Cardinality(nodes) - 1 /\ Cardinality(nodes) \in Nat
    BY <1>3, <1>4, CountNodes, NodesFinite
  <2>2. Cardinality(nodes) # 0
    BY <1>3, <1>4, NodesFinite
  <2> QED
    BY <1>2, <1>3, <1>4, <2>1, <2>2 DEF SizeInv
<1>9. EndsRight'
  <2>1. nodes' # {} => Extreme("left", nodes', first') /\ Extreme("right", nodes', last')
    BY <1>1, <1>3, <1>4, RemoveEnds
  <2> QED
    BY <2>1 DEF EndsRight
<1> QED
  BY <1>5, <1>6, <1>7, <1>8, <1>9 DEF Inv

LEMMA ClearInv ==
    ASSUME Inv, Clear
    PROVE  Inv'
<1>1. PICK D : Shape(tree, nodes, D)
  BY DEF Inv, TreeInv
<1>2. Node = Key \cup {Nil} /\ Nil \notin Key /\ tree \in TreeRecord
  BY <1>1, TreeAssumption DEF Node, Shape
<1>3. PICK q : q = [n \in Node |-> IF n = Nil THEN tree.parent[n] ELSE Nil]
  OBVIOUS
<1>4. q \in [Node -> Node]
  BY <1>2, <1>3, TreeTypes
<1>5. tree' = [tree EXCEPT !.root = Nil, !.child = [d \in Dir |-> [k \in Key |-> Nil]],
                           !.parent = q, !.black = [n \in Node |-> TRUE]]
  BY <1>3 DEF Clear
<1>6. /\ tree' \in TreeRecord /\ tree'.root = Nil
      /\ tree'.child = [d \in Dir |-> [k \in Key |-> Nil]]
      /\ tree'.black = [n \in Node |-> TRUE]
  BY <1>2, <1>4, <1>5 DEF TreeRecord
<1>7. (\A d \in Dir, k \in Key : tree'.child[d][k] = Nil) /\ tree'.black[Nil]
  BY <1>2, <1>6
<1>8. PICK u : u = tree'
  OBVIOUS
<1>9. (\E E : Shape(u, {}, E)) /\ Idle(u, {})
  BY <1>6, <1>7, <1>8, EmptyTree
<1>10. /\ nodes' = {} /\ pc = "idle" /\ size' = size - Cardinality(nodes) /\ UNCHANGED <<first, last, pc, cur>>
       /\ value' = [k \in Key |-> FirstValue]
  BY DEF Clear
<1>11. TreeInv' /\ ColourInv' /\ EndsRight'
  BY <1>8, <1>9, <1>10 DEF Inv, TreeInv, ColourInv, EndsRight
<1>12. SizeInv'
  <2>1. size = Cardinality(nodes) /\ Cardinality(nodes) \in Nat
    BY <1>10, NodesFinite DEF Inv, SizeInv
  <2> QED
    BY <1>10, <2>1, FS_EmptySet DEF SizeInv
<1>13. PlainInv'
  BY <1>10, FirstValueType DEF Inv, PlainInv
<1> QED
  BY <1>11, <1>12, <1>13 DEF Inv

(* The loops leave everything alone but the tree and their node. *)
LEMMA LoopInv ==
    ASSUME Inv, RebalanceInsert \/ RebalanceDelete
    PROVE  Inv'
<1>1. PICK D : Shape(tree, nodes, D)
  BY DEF Inv, TreeInv
<1>2. UNCHANGED <<nodes, value, first, last, size, pc>>
  BY DEF RebalanceInsert, RebalanceDelete
<1>3. PlainInv' /\ SizeInv' /\ EndsRight'
  BY <1>2 DEF Inv, PlainInv, SizeInv, EndsRight
<1>4. CASE RebalanceInsert
  <2>1. pc = "insert" /\ Inserting(tree, nodes, cur)
    BY <1>4 DEF RebalanceInsert, Inv, ColourInv
  <2>2. (\E E : Shape(tree', nodes, E)) /\ Inserting(tree', nodes, cur')
    BY <1>1, <1>4, <2>1, InsertStep
  <2>3. TreeInv' /\ ColourInv'
    BY <1>2, <2>1, <2>2 DEF TreeInv, ColourInv
  <2> QED
    BY <1>3, <2>3 DEF Inv
<1>5. CASE RebalanceDelete
  <2>1. pc = "delete" /\ Deleting(tree, nodes, cur)
    BY <1>5 DEF RebalanceDelete, Inv, ColourInv
  <2>2. (\E E : Shape(tree', nodes, E)) /\ Deleting(tree', nodes, cur')
    BY <1>1, <1>5, <2>1, DeleteStep
  <2>3. TreeInv' /\ ColourInv'
    BY <1>2, <2>1, <2>2 DEF TreeInv, ColourInv
  <2> QED
    BY <1>3, <2>3 DEF Inv
<1> QED
  BY <1>4, <1>5

LEMMA LoopDoneInv ==
    ASSUME Inv, RebalanceInsertDone \/ RebalanceDeleteDone
    PROVE  Inv'
<1>1. PICK D : Shape(tree, nodes, D)
  BY DEF Inv, TreeInv
<1>2. UNCHANGED <<nodes, value, first, last>> /\ pc' = "idle" /\ cur' = Nil
  BY DEF RebalanceInsertDone, RebalanceDeleteDone
<1>3. PlainInv' /\ EndsRight'
  BY <1>2 DEF Inv, PlainInv, EndsRight
<1>4. Cardinality(nodes) \in Nat
  BY NodesFinite DEF Inv
<1>5. CASE RebalanceInsertDone
  <2>1. pc = "insert" /\ Inserting(tree, nodes, cur) /\ size' = size + 1 /\ size + 1 = Cardinality(nodes)
    BY <1>5 DEF RebalanceInsertDone, Inv, ColourInv, SizeInv
  <2>2. Shape(tree', nodes, D) /\ Idle(tree', nodes)
    BY <1>1, <1>5, <2>1, InsertDoneStep
  <2>3. TreeInv' /\ ColourInv'
    BY <1>2, <2>2 DEF TreeInv, ColourInv
  <2>4. SizeInv'
    BY <1>2, <1>4, <2>1 DEF SizeInv
  <2> QED
    BY <1>3, <2>3, <2>4 DEF Inv
<1>6. CASE RebalanceDeleteDone
  <2>1. /\ pc = "delete" /\ Deleting(tree, nodes, cur) /\ size' = size - 1
        /\ size = Cardinality(nodes) + 1
    BY <1>6 DEF RebalanceDeleteDone, Inv, ColourInv, SizeInv
  <2>2. Shape(tree', nodes, D) /\ Idle(tree', nodes)
    BY <1>1, <1>6, <2>1, DeleteDoneStep
  <2>3. TreeInv' /\ ColourInv'
    BY <1>2, <2>2 DEF TreeInv, ColourInv
  <2>4. SizeInv'
    BY <1>2, <1>4, <2>1 DEF SizeInv
  <2> QED
    BY <1>3, <2>3, <2>4 DEF Inv
<1> QED
  BY <1>5, <1>6

LEMMA NextInv ==
    Inv /\ [Next]_vars => Inv'
<1> SUFFICES ASSUME Inv, [Next]_vars PROVE Inv'
  OBVIOUS
<1>1. CASE UNCHANGED vars
  <2>1. UNCHANGED <<nodes, value, tree, first, last, size, pc, cur>>
    BY <1>1 DEF vars
  <2>2. PlainInv' /\ SizeInv' /\ EndsRight'
    BY <2>1 DEF Inv, PlainInv, SizeInv, EndsRight
  <2>3. TreeInv' /\ ColourInv'
    BY <2>1 DEF Inv, TreeInv, ColourInv
  <2> QED
    BY <2>2, <2>3 DEF Inv
<1>2. ASSUME NEW k \in Key, NEW v \in ValuesOf(k), InsertEqual(k, v) \/ InsertNode(k, v)
      PROVE  Inv'
  <2>1. v \in Value
    BY FirstValueType
  <2> QED
    BY <1>2, <2>1, InsertEqualInv, InsertNodeInv
<1>3. ASSUME NEW k \in Key, Remove(k)
      PROVE  Inv'
  BY <1>3, RemoveInv
<1>4. CASE Clear
  BY <1>4, ClearInv
<1>5. CASE Rebalance
  BY <1>5, LoopInv, LoopDoneInv DEF Rebalance
<1> QED
  BY <1>1, <1>2, <1>3, <1>4, <1>5 DEF Next

(* In every reachable state, inside the loops of rebalance_insert and       *)
(* rebalance_delete too, the links form a search tree of the nodes, the     *)
(* colours are those of a red-black tree but at the loop's node, _first and *)
(* _last are the ends and _size is the number of nodes or one off.          *)
THEOREM TreeInvariant ==
    Spec => []Inv
<1> QED
  BY InitInv, NextInv, PTL DEF Spec

(* Links, colours and iterators are nodes or _nil in every reachable state. *)
THEOREM TreeTypeOK ==
    Spec => []TypeOK
<1> QED
  BY TreeInvariant, InvTypes, PTL

-----------------------------------------------------------------------------
(* Iteration: what the walks of a bounded number of steps compute *)

LEMMA LeastNatural ==
    ASSUME NEW T, T \subseteq Nat, T # {}
    PROVE  \E n \in T : \A i \in T : n <= i
<1>1. PICK n \in T : \A i \in T : ~(<<i, n>> \in OpToRel(<, Nat))
  BY WFMin, NatLessThanWellFounded
<1>2. ASSUME NEW i \in T, ~(n <= i)
      PROVE  FALSE
  <2>1. <<i, n>> \in Nat \X Nat /\ i < n
    BY <1>2
  <2>2. <<i, n>> \in OpToRel(<, Nat)
    BY <2>1 DEF OpToRel
  <2> QED
    BY <1>1, <2>2
<1> QED
  BY <1>2

(* f takes m steps with G, from a. *)
Iterates(m, S, a, G, f) ==
    /\ \A i \in 0 .. m : f[i] \in S
    /\ f[0] = a
    /\ \A i \in 1 .. m : f[i] = G[f[i - 1]]

(* Such an f exists, *)
LEMMA IterateExists ==
    ASSUME NEW m \in Nat, NEW S, NEW a \in S, NEW G \in [S -> S]
    PROVE  \E f : f \in [0 .. m -> S] /\ Iterates(m, S, a, G, f)
<1> DEFINE Bad == {j \in Nat : ~\E f : f \in [0 .. j -> S] /\ Iterates(j, S, a, G, f)}
<1>1. ASSUME Bad # {}
      PROVE  FALSE
  <2>1. PICK j \in Bad : \A i \in Bad : j <= i
    BY <1>1, LeastNatural
  <2>2. j \in Nat /\ ~\E f : f \in [0 .. j -> S] /\ Iterates(j, S, a, G, f)
    BY <2>1
  <2>3. j # 0
    <3>1. ASSUME j = 0
          PROVE  FALSE
      <4>1. PICK f : f = [i \in 0 .. 0 |-> a]
        OBVIOUS
      <4>2. f \in [0 .. j -> S] /\ Iterates(j, S, a, G, f)
        BY <3>1, <4>1 DEF Iterates
      <4> QED
        BY <2>2, <4>2
    <3> QED
      BY <3>1
  <2>4. j - 1 \in Nat /\ j - 1 \notin Bad
    BY <2>1, <2>2, <2>3
  <2>5. PICK f : f \in [0 .. j - 1 -> S] /\ Iterates(j - 1, S, a, G, f)
    BY <2>4
  <2>6. /\ f[0] = a /\ \A i \in 1 .. j - 1 : f[i] = G[f[i - 1]]
        /\ \A i \in 0 .. j - 1 : f[i] \in S
    BY <2>5 DEF Iterates
  <2>7. PICK g : g = [i \in 0 .. j |-> IF i = j THEN G[f[j - 1]] ELSE f[i]]
    OBVIOUS
  <2>8. g[0] = a /\ \A i \in 0 .. j - 1 : g[i] = f[i]
    BY <2>2, <2>3, <2>6, <2>7
  <2>9. g[j] = G[f[j - 1]] /\ f[j - 1] \in S /\ G[f[j - 1]] \in S
    BY <2>2, <2>4, <2>6, <2>7
  <2>10. \A i \in 1 .. j : g[i] = G[g[i - 1]]
    <3>1. ASSUME NEW i \in 1 .. j
          PROVE  g[i] = G[g[i - 1]]
      <4>1. CASE i = j
        BY <2>4, <2>8, <2>9, <4>1
      <4>2. CASE i # j
        <5>1. i \in 1 .. j - 1 /\ i \in 0 .. j - 1 /\ i - 1 \in 0 .. j - 1
          BY <2>2, <4>2
        <5> QED
          BY <2>6, <2>8, <5>1
      <4> QED
        BY <4>1, <4>2
    <3> QED
      BY <3>1
  <2>11. \A i \in 0 .. j : g[i] \in S
    BY <2>2, <2>6, <2>8, <2>9
  <2>12. g \in [0 .. j -> S]
    BY <2>7, <2>11
  <2> QED
    BY <2>2, <2>8, <2>10, <2>11, <2>12 DEF Iterates
<1> QED
  BY <1>1

(* and what takes these steps as long as it stays in S never leaves S. *)
LEMMA IterateStays ==
    ASSUME NEW m \in Nat, NEW S, NEW a \in S, NEW G \in [S -> S], NEW f, f[0] = a,
           \A i \in 1 .. m : f[i - 1] \in S => f[i] = G[f[i - 1]]
    PROVE  Iterates(m, S, a, G, f)
<1> DEFINE Bad == {i \in 0 .. m : f[i] \notin S}
<1>1. ASSUME Bad # {}
      PROVE  FALSE
  <2>1. PICK j \in Bad : \A i \in Bad : j <= i
    <3>1. Bad \subseteq Nat
      OBVIOUS
    <3> HIDE DEF Bad
    <3> QED
      BY <1>1, <3>1, LeastNatural
  <2>2. j \in 0 .. m /\ f[j] \notin S
    BY <2>1
  <2>3. j # 0
    BY <2>2
  <2>4. j \in 1 .. m /\ j - 1 \in 0 .. m /\ ~(j <= j - 1)
    BY <2>2, <2>3
  <2>5. f[j - 1] \in S
    BY <2>1, <2>4
  <2> QED
    BY <2>2, <2>4, <2>5
<1>2. \A i \in 0 .. m : f[i] \in S
  BY <1>1
<1>3. \A i \in 1 .. m : i - 1 \in 0 .. m
  OBVIOUS
<1> QED
  BY <1>2, <1>3 DEF Iterates

(* A rank that falls until it is 0 is 0 after as many steps as it was high. *)
LEMMA IterateEnds ==
    ASSUME NEW m \in Nat, NEW S, NEW a, NEW G \in [S -> S], NEW f, Iterates(m, S, a, G, f),
           NEW R \in [S -> Nat], R[a] <= m,
           \A s \in S : (R[s] = 0 /\ R[G[s]] = 0) \/ R[G[s]] < R[s]
    PROVE  R[f[m]] = 0
<1>1. \A i \in 0 .. m : f[i] \in S /\ R[f[i]] \in Nat
  BY DEF Iterates
<1> DEFINE Bad == {i \in 0 .. m : ~(R[f[i]] = 0 \/ R[f[i]] <= m - i)}
<1>2. ASSUME Bad # {}
      PROVE  FALSE
  <2>1. PICK j \in Bad : \A i \in Bad : j <= i
    <3>1. Bad \subseteq Nat
      OBVIOUS
    <3> HIDE DEF Bad
    <3> QED
      BY <1>2, <3>1, LeastNatural
  <2>2. j \in 0 .. m /\ ~(R[f[j]] = 0 \/ R[f[j]] <= m - j)
    BY <2>1
  <2>3. j # 0
    BY <2>2 DEF Iterates
  <2>4. j \in 1 .. m /\ j - 1 \in 0 .. m /\ ~(j <= j - 1)
    BY <2>2, <2>3
  <2>5. R[f[j - 1]] = 0 \/ R[f[j - 1]] <= m - (j - 1)
    BY <2>1, <2>4
  <2>6. PICK s \in S : s = f[j - 1] /\ f[j] = G[s]
    BY <1>1, <2>4 DEF Iterates
  <2>7. PICK q \in Nat, r \in Nat : q = R[s] /\ r = R[G[s]]
    BY <2>6
  <2>8. (q = 0 /\ r = 0) \/ r < q
    BY <2>7
  <2>9. (q = 0 \/ q <= m - (j - 1)) /\ ~(r = 0 \/ r <= m - j)
    BY <2>2, <2>5, <2>6, <2>7
  <2> QED
    BY <2>2, <2>8, <2>9
<1>3. R[f[m]] = 0 \/ R[f[m]] <= m - m
  BY <1>2
<1> QED
  BY <1>1, <1>3

(* The number of steps. *)
LEMMA StepsFacts ==
    Cardinality(Key) \in Nat /\ Steps = 0 .. Cardinality(Key)
  BY TreeAssumption, FS_CardinalityType DEF Steps

(* Smaller sets of nodes. *)
LEMMA FewerNodes ==
    ASSUME NEW A, A \subseteq Key, NEW B, B \subseteq A
    PROVE  /\ Cardinality(B) \in Nat /\ Cardinality(A) \in Nat /\ Cardinality(B) <= Cardinality(A)
           /\ Cardinality(A) <= Cardinality(Key)
           /\ B # A => Cardinality(B) < Cardinality(A)
           /\ Cardinality(A) = 0 <=> A = {}
<1>1. IsFiniteSet(Key)
  BY TreeAssumption
<1>2. IsFiniteSet(A) /\ Cardinality(A) <= Cardinality(Key)
  BY <1>1, FS_Subset
<1>3. IsFiniteSet(B) /\ Cardinality(B) <= Cardinality(A) /\ (Cardinality(A) = Cardinality(B) => A = B)
  BY <1>2, FS_Subset
<1>4. Cardinality(B) \in Nat /\ Cardinality(A) \in Nat /\ (Cardinality(A) = 0 <=> A = {})
  BY <1>2, <1>3, FS_CardinalityType, FS_EmptySet
<1> QED
  BY <1>2, <1>3, <1>4

(* The nodes that are collected step by step below n are all below n. *)
LEMMA BelowIs ==
    ASSUME NEW D, Shape(tree, nodes, D), NEW n \in Node
    PROVE  Below(n) = D[n]
<1> DEFINE S == {g \in SUBSET D[n] : n # Nil => n \in g}
           E(g) == g \cup {c \in Key : \E d \in Dir, k \in g : c = tree.child[d][k]}
           G == [g \in S |-> E(g)]
           R == [g \in S |-> Cardinality(D[n] \ g)]
           a == {n} \ {Nil}
           grow == CHOOSE f : f = [i \in Steps |->
                        IF i = 0 THEN {n} \ {Nil}
                        ELSE f[i - 1] \cup {c \in Key : \E d \in Dir, k \in f[i - 1] : c = tree.child[d][k]}]
           C == Cardinality(Key)
<1>1. /\ Node = Key \cup {Nil} /\ Nil \notin Key /\ D[Nil] = {} /\ D[n] \subseteq Key
      /\ n # Nil => n \in D[n] /\ n \in Key
  <2>1. Node = Key \cup {Nil} /\ Nil \notin Key /\ D[Nil] = {} /\ D[n] \subseteq Key
    BY TreeAssumption DEF Shape, Node
  <2> QED
    BY <2>1, Children
<1>2. a \in S
  BY <1>1
<1>3. ASSUME NEW g \in S
      PROVE  E(g) \in S
  <2>1. ASSUME NEW d \in Dir, NEW k \in g
        PROVE  tree.child[d][k] = Nil \/ tree.child[d][k] \in D[n]
    <3>1. k \in D[n] /\ k \in Key /\ n \in Key
      BY <1>1
    <3>2. D[k] \subseteq D[n]
      BY <3>1, BelowBelow
    <3>3. tree.child[d][k] # Nil => tree.child[d][k] \in D[k]
      BY <3>1, Children
    <3> QED
      BY <3>2, <3>3
  <2>2. g \subseteq D[n] /\ (n # Nil => n \in g)
    OBVIOUS
  <2>3. E(g) \subseteq D[n]
    BY <1>1, <2>1, <2>2
  <2> QED
    BY <2>2, <2>3
<1>4. ASSUME NEW g \in S, g # D[n]
      PROVE  \E x \in D[n] : x \in E(g) /\ x \notin g
  <2>1. PICK B : B = D[n] \ g /\ B \subseteq Key /\ B # {}
    BY <1>1, <1>4
  <2>2. PICK x \in B : \A k \in B, d \in Dir : tree.child[d][k] # x
    <3> HIDE DEF S, E, G, R, a, grow, C
    <3>1. B \subseteq Key /\ B # {}
      BY <2>1
    <3> QED
      BY <3>1, Highest
  <2>3. x \in D[n] /\ x \notin g /\ n # Nil /\ n \in Key /\ x # n /\ x # Nil
    BY <1>1, <2>1
  <2>4. x \in Key /\ tree.parent[x] \in D[n] /\ \E d \in Dir : tree.child[d][tree.parent[x]] = x
    BY <2>3, ParentBelow
  <2>5. PICK p \in D[n], d \in Dir : tree.child[d][p] = x
    BY <2>4
  <2>6. p \in g
    BY <2>1, <2>2, <2>5
  <2> QED
    BY <2>3, <2>4, <2>5, <2>6
<1>5. G \in [S -> S] /\ C \in Nat /\ Steps = 0 .. C
  BY <1>3, StepsFacts
<1>6. R \in [S -> Nat] /\ R[a] <= C
  <2>1. \A g \in S : Cardinality(D[n] \ g) \in Nat /\ Cardinality(D[n] \ g) <= C
    <3>1. ASSUME NEW g \in S
          PROVE  Cardinality(D[n] \ g) \in Nat /\ Cardinality(D[n] \ g) <= C
      <4>1. PICK A : A = D[n] \ g /\ A \subseteq Key
        BY <1>1
      <4> QED
        BY <4>1, FewerNodes
    <3> QED
      BY <3>1
  <2> QED
    BY <1>2, <2>1
<1>7. \A g \in S : (R[g] = 0 <=> g = D[n]) /\ (g # D[n] => R[G[g]] < R[g]) /\ (g = D[n] => G[g] = g)
  <2>1. ASSUME NEW g \in S
        PROVE  (R[g] = 0 <=> g = D[n]) /\ (g # D[n] => R[G[g]] < R[g]) /\ (g = D[n] => G[g] = g)
    <3>1. PICK A : A = D[n] \ g /\ A \subseteq Key /\ R[g] = Cardinality(A)
      BY <1>1
    <3>2. PICK e : e = E(g) /\ e \in S /\ g \subseteq e /\ G[g] = e
      <4>1. E(g) \in S /\ g \subseteq E(g) /\ G[g] = E(g)
        BY <1>3
      <4> HIDE DEF S, E, G, R, a, grow, C
      <4> QED
        BY <4>1
    <3>3. PICK B : B = D[n] \ e /\ B \subseteq A /\ R[e] = Cardinality(B)
      BY <3>1, <3>2
    <3>4. g # D[n] => B # A
      BY <1>4, <3>1, <3>2, <3>3
    <3>5. /\ B # A => Cardinality(B) < Cardinality(A)
          /\ Cardinality(A) = 0 <=> A = {}
      BY <3>1, <3>3, FewerNodes
    <3>6. A = {} <=> g = D[n]
      BY <3>1
    <3>7. g = D[n] => e = g
      BY <3>2
    <3> HIDE DEF S, E, G, R, a, grow, C
    <3> QED
      BY <3>1, <3>2, <3>3, <3>4, <3>5, <3>6, <3>7
  <2> HIDE DEF S, E, G, R, a, grow, C
  <2> QED
    BY <2>1
<1>8. \A g \in S : G[g] = E(g)
  OBVIOUS
<1>9. Below(n) = grow[C]
  BY Zenon DEF Below
<1>10. \E f : f = [i \in Steps |->
                    IF i = 0 THEN {n} \ {Nil}
                    ELSE f[i - 1] \cup {c \in Key : \E d \in Dir, k \in f[i - 1] : c = tree.child[d][k]}]
  <2> HIDE DEF S, G, a, C
  <2>1. PICK f : f \in [0 .. C -> S] /\ Iterates(C, S, a, G, f)
    BY <1>2, <1>5, IterateExists
  <2>2. f[0] = a /\ \A i \in 1 .. C : f[i] = E(f[i - 1])
    <3>1. \A i \in 1 .. C : i - 1 \in 0 .. C
      BY <1>5
    <3> QED
      BY <1>8, <2>1, <3>1 DEF Iterates
  <2>3. \A i \in 0 .. C : f[i] = IF i = 0 THEN a ELSE E(f[i - 1])
    <3> HIDE DEF E, grow, R
    <3> QED
      BY <1>5, <2>2
  <2>4. f = [i \in 0 .. C |-> IF i = 0 THEN a ELSE E(f[i - 1])]
    <3> HIDE DEF E
    <3> QED
      BY <2>1, <2>3
  <2> QED
    BY <1>5, <2>4 DEF a
<1>11. grow = [i \in Steps |->
                    IF i = 0 THEN {n} \ {Nil}
                    ELSE grow[i - 1] \cup {c \in Key : \E d \in Dir, k \in grow[i - 1] : c = tree.child[d][k]}]
  BY <1>10, Zenon
<1> HIDE DEF grow
<1>12. grow[0] = a /\ \A i \in 1 .. C : grow[i] = E(grow[i - 1])
  <2>1. grow = [i \in 0 .. C |-> IF i = 0 THEN a ELSE E(grow[i - 1])]
    BY <1>5, <1>11
  <2> HIDE DEF E, a, C
  <2> QED
    BY <1>5, <2>1
<1> HIDE DEF S, E, G, R, a, C
<1>13. Iterates(C, S, a, G, grow)
  BY <1>2, <1>5, <1>8, <1>12, IterateStays
<1>14. R[grow[C]] = 0
  <2>1. C \in Nat /\ G \in [S -> S] /\ R \in [S -> Nat] /\ R[a] <= C
    BY <1>5, <1>6
  <2>2. \A g \in S : (R[g] = 0 /\ R[G[g]] = 0) \/ R[G[g]] < R[g]
    BY <1>7
  <2> QED
    BY <1>13, <2>1, <2>2, IterateEnds
<1>15. grow[C] \in S
  BY <1>5, <1>13 DEF Iterates
<1> QED
  BY <1>7, <1>9, <1>14, <1>15

(* In every reachable state, inside the rebalancing loops too, the root     *)
(* reaches exactly the nodes, every node is linked both ways, and smaller   *)
(* keys are on its left, larger ones on its right.                          *)
THEOREM TreeSearchOrder ==
    Spec => []SearchTreeOrder
<1>1. Inv => SearchTreeOrder
  <2> SUFFICES ASSUME Inv PROVE SearchTreeOrder
    OBVIOUS
  <2>1. PICK D : Shape(tree, nodes, D)
    BY DEF Inv, TreeInv
  <2>2. /\ tree.root \in Node /\ D[tree.root] = nodes /\ nodes \subseteq Key /\ Key \subseteq Int
        /\ tree.root # Nil => tree.parent[tree.root] = Nil
    BY <2>1, TreeTypes DEF Shape
  <2>3. Below(tree.root) = nodes
    BY <2>1, <2>2, BelowIs
  <2>4. ASSUME NEW k \in nodes, NEW d \in Dir
        PROVE  LET c == tree.child[d][k] IN
               /\ c # Nil => tree.parent[c] = k
               /\ \A x \in Below(c) : Toward(x, k) = d /\ x # k
    <3>1. PICK c : c = tree.child[d][k]
      OBVIOUS
    <3>2. /\ k \in Key /\ c \in Node /\ D[c] \subseteq Key /\ (c # Nil => tree.parent[c] = k)
          /\ \A x \in D[c] : OnSide(d, x, k)
      BY <2>1, <2>2, <3>1, TreeTypes DEF Shape
    <3>3. Below(c) = D[c]
      BY <2>1, <3>2, BelowIs
    <3>4. \A x \in D[c] : Toward(x, k) = d /\ x # k
      BY <2>2, <3>2, SideFacts
    <3> QED
      BY <3>1, <3>2, <3>3, <3>4
  <2> QED
    BY <2>2, <2>3, <2>4 DEF SearchTreeOrder
<1> QED
  BY <1>1, TreeInvariant, PTL

(* The nodes above x, x included: one step up leaves one behind. *)
Above(N, D, x) == {z \in N : x \in D[z]}

LEMMA AboveFacts ==
    ASSUME NEW t, NEW N, NEW D, Shape(t, N, D)
    PROVE  /\ Above(N, D, Nil) = {}
           /\ \A x \in N : /\ x \in Above(N, D, x) /\ t.parent[x] \in N \cup {Nil}
                           /\ Above(N, D, t.parent[x]) \subseteq Above(N, D, x)
                           /\ x \notin Above(N, D, t.parent[x])
           /\ \A x \in N \cup {Nil} :
                /\ Cardinality(Above(N, D, x)) \in Nat /\ Cardinality(Above(N, D, x)) <= Cardinality(Key)
                /\ Cardinality(Above(N, D, x)) = 0 <=> x = Nil
                /\ x # Nil => Cardinality(Above(N, D, t.parent[x])) < Cardinality(Above(N, D, x))
<1>1. N \subseteq Key /\ Nil \notin Key /\ \A z \in Key : D[z] \subseteq Key
  BY TreeAssumption DEF Shape, Node
<1>2. Above(N, D, Nil) = {}
  BY <1>1 DEF Above
<1>3. ASSUME NEW x \in N
      PROVE  /\ x \in Above(N, D, x) /\ t.parent[x] \in N \cup {Nil}
             /\ Above(N, D, t.parent[x]) \subseteq Above(N, D, x)
             /\ x \notin Above(N, D, t.parent[x])
  <2>1. x \in Key
    BY <1>1
  <2>2. x \in D[x]
    BY <2>1, Children
  <2>3. CASE x = t.root
    <3>1. t.parent[x] = Nil
      BY <2>3, Slot
    <3> QED
      BY <1>2, <2>2, <3>1 DEF Above
  <2>4. CASE x # t.root
    <3>1. t.parent[x] \in N /\ \E e \in Dir : t.child[e][t.parent[x]] = x
      BY <2>4, Slot
    <3>2. PICK p \in N, e \in Dir : p = t.parent[x] /\ t.child[e][p] = x
      BY <3>1
    <3>3. p \in Key
      BY <1>1
    <3>4. p \in D[p] /\ \A f \in Dir : D[t.child[f][p]] \subseteq D[p] /\ p \notin D[t.child[f][p]]
      BY <3>3, Children
    <3>5. x \in D[p] /\ p \notin D[x]
      BY <2>2, <3>2, <3>4
    <3>6. ASSUME NEW z \in N, p \in D[z]
          PROVE  x \in D[z]
      <4>1. z \in Key
        BY <1>1
      <4>2. D[p] \subseteq D[z]
        BY <3>6, <4>1, BelowBelow
      <4> QED
        BY <3>5, <4>2
    <3> QED
      BY <2>2, <3>2, <3>5, <3>6 DEF Above
  <2> QED
    BY <2>3, <2>4
<1>4. ASSUME NEW x \in N \cup {Nil}
      PROVE  /\ Cardinality(Above(N, D, x)) \in Nat /\ Cardinality(Above(N, D, x)) <= Cardinality(Key)
             /\ Cardinality(Above(N, D, x)) = 0 <=> x = Nil
             /\ x # Nil => Cardinality(Above(N, D, t.parent[x])) < Cardinality(Above(N, D, x))
  <2>1. PICK A : A = Above(N, D, x) /\ A \subseteq Key
    BY <1>1 DEF Above
  <2>2. A = {} <=> x = Nil
    BY <1>1, <1>2, <1>3, <2>1
  <2>3. /\ Cardinality(A) \in Nat /\ Cardinality(A) <= Cardinality(Key)
        /\ Cardinality(A) = 0 <=> A = {}
    BY <2>1, FewerNodes
  <2>4. x # Nil => Cardinality(Above(N, D, t.parent[x])) < Cardinality(A)
    <3>1. ASSUME x # Nil
          PROVE  Cardinality(Above(N, D, t.parent[x])) < Cardinality(A)
      <4>1. PICK B : B = Above(N, D, t.parent[x]) /\ B \subseteq A /\ B # A
        BY <1>3, <2>1, <3>1
      <4> QED
        BY <2>1, <4>1, FewerNodes
    <3> QED
      BY <3>1
  <2> QED
    BY <2>1, <2>2, <2>3, <2>4
<1> QED
  BY <1>2, <1>3, <1>4

(* From a node that misses a child to the root there are as many black      *)
(* nodes as from the root down.                                             *)
LEMMA BlackDepthIs ==
    ASSUME NEW D, Shape(tree, nodes, D), NEW H, Heights(tree, nodes, H, Nil, "left"),
           NEW n \in nodes, NEW e \in Dir, tree.child[e][n] = Nil
    PROVE  BlackDepth(n) = H[tree.root]
<1> DEFINE S == {u \in (nodes \cup {Nil}) \X Nat :
                    IF u[1] = Nil THEN u[2] = H[tree.root] ELSE H[u[1]] = u[2] + Ink(tree, u[1])}
           E(u) == IF u[1] = Nil THEN u
                   ELSE <<tree.parent[u[1]], u[2] + (IF tree.black[u[1]] THEN 1 ELSE 0)>>
           G == [u \in S |-> E(u)]
           R == [u \in S |-> Cardinality(Above(nodes, D, u[1]))]
           a == <<n, 0>>
           up == CHOOSE f : f = [i \in Steps |->
                    IF i = 0 THEN <<n, 0>>
                    ELSE IF f[i - 1][1] = Nil THEN f[i - 1]
                    ELSE <<tree.parent[f[i - 1][1]],
                           f[i - 1][2] + (IF tree.black[f[i - 1][1]] THEN 1 ELSE 0)>>]
           C == Cardinality(Key)
<1>1. /\ nodes \subseteq Key /\ Nil \notin Key /\ tree \in TreeRecord
  BY TreeAssumption DEF Shape
<1>2. /\ H[Nil] = 0 /\ H \in [Node -> Nat]
      /\ \A x \in nodes, f \in Dir : /\ H[x] = Ink(tree, x) + H[tree.child[f][x]]
                                     /\ H[tree.child[f][x]] \in Nat /\ Ink(tree, x) \in Nat
  BY <1>1, PlainHeights
<1>3. a \in S
  <2>1. H[n] = 0 + Ink(tree, n) /\ n # Nil
    BY <1>1, <1>2
  <2> QED
    BY <2>1
<1>4. ASSUME NEW x \in nodes, NEW c \in Nat, <<x, c>> \in S
      PROVE  E(<<x, c>>) \in S
  <2>1. x # Nil /\ H[x] = c + Ink(tree, x) /\ Ink(tree, x) \in Nat /\ H[x] \in Nat
    BY <1>1, <1>2, <1>4 DEF Node
  <2>2. E(<<x, c>>) = <<tree.parent[x], c + Ink(tree, x)>>
    BY <2>1 DEF Ink
  <2>3. CASE x = tree.root
    <3>1. tree.parent[x] = Nil
      BY <2>3, Slot
    <3>2. <<Nil, c + Ink(tree, x)>> \in S
      BY <2>1, <2>3
    <3> HIDE DEF S, E
    <3> QED
      BY <2>2, <3>1, <3>2
  <2>4. CASE x # tree.root
    <3>1. tree.parent[x] \in nodes /\ \E f \in Dir : tree.child[f][tree.parent[x]] = x
      BY <2>4, Slot
    <3>2. PICK p \in nodes, f \in Dir : p = tree.parent[x] /\ tree.child[f][p] = x
      BY <3>1
    <3>3. H[p] = Ink(tree, p) + H[x] /\ Ink(tree, p) \in Nat
      BY <1>2, <3>2
    <3>4. PICK b \in Nat : b = c + Ink(tree, x)
      BY <2>1
    <3>5. H[p] = b + Ink(tree, p) /\ p # Nil
      BY <1>1, <2>1, <3>3, <3>4
    <3>6. <<p, b>> \in S
      BY <3>5
    <3> HIDE DEF S, E
    <3> QED
      BY <2>2, <3>2, <3>4, <3>6
  <2> QED
    BY <2>3, <2>4
<1>5. \A u \in S : E(u) \in S
  <2>1. ASSUME NEW u \in S
        PROVE  E(u) \in S
    <3>1. CASE u[1] = Nil
      BY <3>1
    <3>2. CASE u[1] # Nil
      <4>1. PICK x \in nodes, c \in Nat : u = <<x, c>>
        BY <3>2
      <4> HIDE DEF S, E
      <4> QED
        BY <1>4, <4>1
    <3> QED
      BY <3>1, <3>2
  <2> HIDE DEF S, E
  <2> QED
    BY <2>1
<1>6. G \in [S -> S] /\ C \in Nat /\ Steps = 0 .. C
  BY <1>5, StepsFacts
<1>7. \A u \in S : u[1] \in nodes \cup {Nil} /\ (u[1] = Nil => E(u) = u) /\ (u[1] # Nil => E(u)[1] = tree.parent[u[1]])
  OBVIOUS
<1>8. \A u \in S : G[u] = E(u) /\ R[u] = Cardinality(Above(nodes, D, u[1]))
  OBVIOUS
<1>9. \A u \in S : u[1] = Nil => u[2] = H[tree.root]
  OBVIOUS
<1>10. BlackDepth(n) = up[C][2]
  BY Zenon DEF BlackDepth
<1> HIDE DEF R
<1>11. \E f : f = [i \in Steps |->
                    IF i = 0 THEN <<n, 0>>
                    ELSE IF f[i - 1][1] = Nil THEN f[i - 1]
                    ELSE <<tree.parent[f[i - 1][1]],
                           f[i - 1][2] + (IF tree.black[f[i - 1][1]] THEN 1 ELSE 0)>>]
  <2> HIDE DEF S, G, a, C
  <2>1. PICK f : f \in [0 .. C -> S] /\ Iterates(C, S, a, G, f)
    BY <1>3, <1>6, IterateExists
  <2>2. f[0] = a /\ \A i \in 1 .. C : f[i] = E(f[i - 1])
    <3>1. \A i \in 1 .. C : i - 1 \in 0 .. C
      BY <1>6
    <3> HIDE DEF E
    <3> QED
      BY <1>8, <2>1, <3>1 DEF Iterates
  <2>3. \A i \in 0 .. C : f[i] = IF i = 0 THEN a ELSE E(f[i - 1])
    <3> HIDE DEF E
    <3> QED
      BY <1>6, <2>2
  <2>4. f = [i \in 0 .. C |-> IF i = 0 THEN a ELSE E(f[i - 1])]
    <3> HIDE DEF E
    <3> QED
      BY <2>1, <2>3
  <2> QED
    BY <1>6, <2>4 DEF a
<1>12. up = [i \in Steps |->
                    IF i = 0 THEN <<n, 0>>
                    ELSE IF up[i - 1][1] = Nil THEN up[i - 1]
                    ELSE <<tree.parent[up[i - 1][1]],
                           up[i - 1][2] + (IF tree.black[up[i - 1][1]] THEN 1 ELSE 0)>>]
  BY <1>11, Zenon
<1> HIDE DEF up
<1>13. up[0] = a /\ \A i \in 1 .. C : up[i] = E(up[i - 1])
  <2>1. up = [i \in 0 .. C |-> IF i = 0 THEN a ELSE E(up[i - 1])]
    BY <1>6, <1>12
  <2> HIDE DEF E, a, C
  <2> QED
    BY <1>6, <2>1
<1> HIDE DEF S, E, G, a, C
<1>14. Iterates(C, S, a, G, up)
  BY <1>3, <1>6, <1>8, <1>13, IterateStays
<1>15. /\ R \in [S -> Nat] /\ R[a] <= C
       /\ \A u \in S : (R[u] = 0 <=> u[1] = Nil) /\ ((R[u] = 0 /\ R[G[u]] = 0) \/ R[G[u]] < R[u])
  <2>1. \A x \in nodes \cup {Nil} :
                /\ Cardinality(Above(nodes, D, x)) \in Nat /\ Cardinality(Above(nodes, D, x)) <= C
                /\ Cardinality(Above(nodes, D, x)) = 0 <=> x = Nil
                /\ x # Nil => Cardinality(Above(nodes, D, tree.parent[x])) < Cardinality(Above(nodes, D, x))
    BY AboveFacts DEF C
  <2>2. R \in [S -> Nat]
    BY <1>7, <2>1 DEF R
  <2>3. R[a] <= C
    BY <1>3, <1>7, <1>8, <2>1
  <2>4. ASSUME NEW u \in S
        PROVE  (R[u] = 0 <=> u[1] = Nil) /\ ((R[u] = 0 /\ R[G[u]] = 0) \/ R[G[u]] < R[u])
    <3>1. R[u] = 0 <=> u[1] = Nil
      BY <1>7, <1>8, <2>1
    <3>2. PICK w \in S : w = G[u] /\ w = E(u) /\ R[w] = Cardinality(Above(nodes, D, w[1]))
      BY <1>5, <1>8
    <3>3. u[1] = Nil => R[w] = 0
      BY <1>7, <3>1, <3>2
    <3>4. u[1] # Nil => R[w] < R[u]
      BY <1>7, <1>8, <2>1, <3>2
    <3> QED
      BY <3>1, <3>2, <3>3, <3>4
  <2> QED
    BY <2>2, <2>3, <2>4
<1>16. R[up[C]] = 0
  <2>1. C \in Nat /\ G \in [S -> S] /\ R \in [S -> Nat] /\ R[a] <= C
    BY <1>6, <1>15
  <2>2. \A u \in S : (R[u] = 0 /\ R[G[u]] = 0) \/ R[G[u]] < R[u]
    BY <1>15
  <2> QED
    BY <1>14, <2>1, <2>2, IterateEnds
<1>17. up[C] \in S
  BY <1>6, <1>14 DEF Iterates
<1> QED
  BY <1>9, <1>10, <1>15, <1>16, <1>17

(* After every call of insert, remove or clear the root is black, no red    *)
(* node has a red child, and as many black nodes are above every missing    *)
(* child.                                                                   *)
THEOREM TreeBalanced ==
    Spec => []Balanced
<1>1. Inv => Balanced
  <2> SUFFICES ASSUME Inv, pc = "idle"
               PROVE  /\ tree.black[tree.root] /\ tree.black[Nil]
                      /\ \A k \in nodes, d \in Dir : ~tree.black[k] => tree.black[tree.child[d][k]]
                      /\ \A k, m \in nodes :
                            /\ \E d \in Dir : tree.child[d][k] = Nil
                            /\ \E d \in Dir : tree.child[d][m] = Nil
                            => BlackDepth(k) = BlackDepth(m)
    BY DEF Balanced
  <2>1. PICK D : Shape(tree, nodes, D)
    BY DEF Inv, TreeInv
  <2>2. tree \in TreeRecord /\ nodes \subseteq Key
    BY <2>1 DEF Shape
  <2>3. Idle(tree, nodes)
    BY DEF Inv, ColourInv
  <2>4. PICK H : Heights(tree, nodes, H, Nil, "left")
    BY <2>3 DEF Idle
  <2>5. \A k \in nodes : (\E d \in Dir : tree.child[d][k] = Nil) => BlackDepth(k) = H[tree.root]
    BY <2>1, <2>4, BlackDepthIs
  <2>6. /\ tree.black[Nil] /\ tree.black[tree.root]
        /\ \A k \in nodes, d \in Dir : ~tree.black[k] => tree.black[tree.child[d][k]]
    BY <2>2, <2>3, NoReds DEF Idle
  <2> QED
    BY <2>5, <2>6
<1> QED
  BY <1>1, TreeInvariant, PTL

-----------------------------------------------------------------------------
(* The map *)

(* find answers with the values of the nodes. *)
FoundRight == Found = [k \in nodes |-> value[k]]

LEMMA FoundIs ==
    TreeInv => FoundRight
<1> SUFFICES ASSUME TreeInv PROVE FoundRight
  OBVIOUS
<1>1. PICK D : Shape(tree, nodes, D)
  BY DEF TreeInv
<1>2. nodes \subseteq Key /\ Nil \notin Key
  BY <1>1, TreeAssumption DEF Shape
<1>3. \A k \in Key : SearchTree(k) = k <=> k \in nodes
  BY <1>1, <1>2, SearchTreeFinds
<1>4. {x \in Key : SearchTree(x) = x} = nodes
  BY <1>2, <1>3
<1> QED
  BY <1>4 DEF Found, FoundRight

LEMMA MapInit ==
    Init => Map!Init
<1> SUFFICES ASSUME Init PROVE Map!Init
  OBVIOUS
<1>1. TreeInv
  BY InitInv DEF Inv
<1>2. Found = [k \in {} |-> value[k]]
  BY <1>1, FoundIs DEF Init, FoundRight
<1>3. Found = << >>
  BY <1>2
<1>4. (pc # "idle") = FALSE
  BY DEF Init
<1> QED
  BY <1>3, <1>4 DEF Map!Init

(* What a call makes of the map. *)
LEMMA MapCalls ==
    ASSUME NEW m, NEW n
    PROVE  /\ \A k \in Key, v \in Value : n = Map!Put(m, k, v) => n \in Map!Results(m)
           /\ \A k \in Key : n = Map!Delete(m, k) => n \in Map!Results(m)
           /\ n = << >> => n \in Map!Results(m)
  BY DEF Map!Results

LEMMA MapStep ==
    Inv /\ Inv' /\ [Next]_vars => [Map!Next]_(Map!vars)
<1> SUFFICES ASSUME Inv, Inv', [Next]_vars PROVE [Map!Next]_(Map!vars)
  OBVIOUS
<1>1. TreeInv /\ TreeInv' /\ value \in [Key -> Value] /\ nodes \subseteq Key
  BY NodesFinite DEF Inv, PlainInv
<1>2. Found = [k \in nodes |-> value[k]] /\ DOMAIN Found = nodes
  BY <1>1, FoundIs DEF FoundRight
<1>3. Found' = [k \in nodes' |-> value'[k]]
  <2>1. TreeInv' => FoundRight'
    BY FoundIs, PTL
  <2> QED
    BY <1>1, <2>1 DEF FoundRight
<1>4. PICK m, n : m = Found /\ n = Found'
  OBVIOUS
<1>5. pc = "idle" /\ Found' \in Map!Results(Found) => Map!Next
  BY DEF Map!Next, Map!Call
<1>6. UNCHANGED <<nodes, value>> => Found' = Found
  BY <1>2, <1>3
<1>7. UNCHANGED <<nodes, value, pc>> => [Map!Next]_(Map!vars)
  BY <1>6 DEF Map!vars
<1>8. ASSUME NEW k \in Key, NEW v \in Value, InsertEqual(k, v) \/ InsertNode(k, v)
      PROVE  [Map!Next]_(Map!vars)
  <2>1. pc = "idle" /\ value' = [value EXCEPT ![k] = v] /\ nodes' = nodes \cup {k}
    <3>1. CASE InsertEqual(k, v)
      <4>1. k \in nodes
        <5>1. PICK D : Shape(tree, nodes, D)
          BY <1>1 DEF TreeInv
        <5>2. SearchTree(k) = k /\ k # Nil
          BY <3>1, TreeAssumption DEF InsertEqual
        <5> QED
          BY <5>1, <5>2, SearchTreeFinds
      <4> QED
        BY <3>1, <4>1 DEF InsertEqual
    <3>2. CASE InsertNode(k, v)
      BY <3>2 DEF InsertNode
    <3> QED
      BY <1>8, <3>1, <3>2
  <2>2. Found' = Map!Put(Found, k, v)
    BY <1>1, <1>2, <1>3, <2>1 DEF Map!Put
  <2>3. Found' \in Map!Results(Found)
    BY <2>2, MapCalls
  <2> QED
    BY <1>5, <2>1, <2>3
<1>9. ASSUME NEW k \in Key, Remove(k)
      PROVE  [Map!Next]_(Map!vars)
  <2>1. pc = "idle" /\ value' = [value EXCEPT ![k] = FirstValue] /\ nodes' = nodes \ {k}
    BY <1>9 DEF Remove
  <2>2. Found' = Map!Delete(Found, k)
    BY <1>1, <1>2, <1>3, <2>1 DEF Map!Delete
  <2>3. Found' \in Map!Results(Found)
    BY <2>2, MapCalls
  <2> QED
    BY <1>5, <2>1, <2>3
<1>10. CASE Clear
  <2>1. pc = "idle" /\ nodes' = {}
    BY <1>10 DEF Clear
  <2>2. Found' = << >>
    BY <1>3, <2>1
  <2>3. Found' \in Map!Results(Found)
    BY <2>2, MapCalls
  <2> QED
    BY <1>5, <2>1, <2>3
<1>11. CASE RebalanceInsert \/ RebalanceDelete
  BY <1>7, <1>11 DEF RebalanceInsert, RebalanceDelete
<1>12. CASE RebalanceInsertDone \/ RebalanceDeleteDone
  <2>1. UNCHANGED <<nodes, value>> /\ pc # "idle" /\ pc' = "idle"
    BY <1>12 DEF RebalanceInsertDone, RebalanceDeleteDone
  <2>2. Map!Return
    BY <1>6, <2>1 DEF Map!Return
  <2> QED
    BY <2>2 DEF Map!Next
<1>13. CASE UNCHANGED vars
  BY <1>7, <1>13 DEF vars
<1>14. \A k \in Key : \A v \in ValuesOf(k) : v \in Value
  BY FirstValueType
<1> QED
  BY <1>8, <1>9, <1>10, <1>11, <1>12, <1>13, <1>14 DEF Next, Rebalance

(* The tree implements the map: an insertion, removal or clear changes what *)
(* find answers at once and as the map says, and no rotation or repainting  *)
(* on the way back changes it.                                              *)
THEOREM TreeImplementsMap ==
    Spec => ImplementsMap
<1>1. Inv /\ Inv' /\ [Next]_vars => [Map!Next]_(Map!vars)
  BY MapStep
<1> QED
  BY <1>1, MapInit, TreeInvariant, PTL DEF Spec, ImplementsMap, Map!Spec

-----------------------------------------------------------------------------
(* lower_bound and upper_bound *)

(* One step of the walk: U are the keys the walk looks for. *)
BoundPairs == Node \X Node
BoundStep(U, b) ==
    IF b[2] = Nil THEN b
    ELSE IF b[2] \in U THEN <<b[2], tree.child["left"][b[2]]>>
    ELSE <<b[1], tree.child["right"][b[2]]>>

(* m is the least node in U, and _last when there is none. *)
BoundGoal(U, m) ==
    /\ \A x, y \in Key : x \in U /\ x < y => y \in U
    /\ \/ nodes \cap U = {} /\ m = last
       \/ m \in nodes \cap U /\ \A x \in nodes \cap U : m <= x

(* The walk ends with m. *)
BoundWalk(U, m) ==
    /\ \E f : /\ f \in [Steps -> BoundPairs] /\ f[0] = <<last, tree.root>>
              /\ \A i \in 1 .. Cardinality(Key) : f[i] = BoundStep(U, f[i - 1])
    /\ \A f : /\ f[0] = <<last, tree.root>>
              /\ \A i \in 1 .. Cardinality(Key) :
                    f[i - 1] \in BoundPairs => f[i] = BoundStep(U, f[i - 1])
              => f[Cardinality(Key)][1] = m

LEMMA BoundFinds ==
    ASSUME NEW D, Shape(tree, nodes, D), last \in Node, NEW U, NEW m, BoundGoal(U, m)
    PROVE  BoundWalk(U, m)
<1> USE DEF BoundGoal
<1> DEFINE S == {b \in Node \X (nodes \cup {Nil}) : \/ m \in U /\ m \in D[b[2]]
                                                    \/ b[1] = m /\ D[b[2]] \cap U = {}}
           G == [b \in S |-> BoundStep(U, b)]
           R == [b \in S |-> Cardinality(D[b[2]])]
           a == <<last, tree.root>>
           C == Cardinality(Key)
<1>1. /\ nodes \subseteq Key /\ Nil \notin Key /\ D[Nil] = {} /\ Node = Key \cup {Nil} /\ Key \subseteq Int
      /\ tree.root \in nodes \cup {Nil} /\ D[tree.root] = nodes /\ C \in Nat /\ Steps = 0 .. C
      /\ \A n \in Node : D[n] \subseteq Key
  <2>1. /\ nodes \subseteq Key /\ Nil \notin Key /\ D[Nil] = {} /\ Node = Key \cup {Nil} /\ Key \subseteq Int
        /\ D[tree.root] = nodes /\ tree.root \in Node
        /\ \A n \in Node : D[n] \subseteq Key
    BY TreeAssumption, TreeTypes DEF Shape
  <2>2. tree.root \in nodes \cup {Nil}
    BY <2>1, Children
  <2> QED
    BY <2>1, <2>2, StepsFacts
<1>2. ASSUME NEW n \in nodes, NEW d \in Dir
      PROVE  /\ n \in D[n] /\ n \in Key /\ D[n] \subseteq nodes /\ tree.child[d][n] \in nodes \cup {Nil}
             /\ D[n] = {n} \cup D[tree.child["left"][n]] \cup D[tree.child["right"][n]]
             /\ D[tree.child[d][n]] \subseteq D[n] /\ D[tree.child[d][n]] # D[n]
             /\ \A x \in D[tree.child[d][n]] : OnSide(d, x, n)
  <2>1. n \in Key
    BY <1>1
  <2>2. n \in D[n] /\ D[tree.child[d][n]] \subseteq D[n] /\ D[tree.child[d][n]] # D[n]
    BY <2>1, Children
  <2>3. D[n] \subseteq nodes
    BY NodeFacts
  <2>4. tree.child[d][n] \in nodes \cup {Nil}
    BY ChildNode
  <2> QED
    BY <2>1, <2>2, <2>3, <2>4 DEF Shape
<1>3. a \in S
  BY <1>1
<1>4. ASSUME NEW b1 \in Node, NEW n \in nodes, <<b1, n>> \in S
      PROVE  BoundStep(U, <<b1, n>>) \in S
  <2>1. PICK l, r : l = tree.child["left"][n] /\ r = tree.child["right"][n]
    OBVIOUS
  <2>2. /\ l \in nodes \cup {Nil} /\ r \in nodes \cup {Nil} /\ n \in D[n] /\ n \in Key /\ D[n] \subseteq nodes
        /\ D[n] = {n} \cup D[l] \cup D[r]
        /\ \A x \in D[l] : x < n
        /\ \A x \in D[r] : n < x
    <3>1. "left" \in Dir /\ "right" \in Dir /\ \A x : (OnSide("left", x, n) <=> x < n) /\ (OnSide("right", x, n) <=> n < x)
      BY DEF OnSide, Dir
    <3> QED
      BY <1>2, <2>1, <3>1
  <2>3. \/ m \in U /\ m \in D[n]
        \/ b1 = m /\ D[n] \cap U = {}
    BY <1>4
  <2>4. n # Nil /\ n \in Node
    BY <1>1, <2>2
  <2>5. CASE n \in U
    <3>1. m \in U /\ m \in D[n] /\ m \in nodes
      BY <2>2, <2>3, <2>5
    <3>2. \A x \in nodes \cap U : m <= x
      BY <3>1
    <3>3. m = n \/ m \in D[l]
      <4>1. m <= n /\ m \in Int /\ n \in Int
        BY <1>1, <2>2, <2>5, <3>1, <3>2
      <4>2. m \notin D[r]
        BY <2>2, <4>1
      <4> QED
        BY <2>2, <3>1, <4>2
    <3>4. m = n => D[l] \cap U = {}
      <4>1. ASSUME m = n, NEW x \in D[l], x \in U
            PROVE  FALSE
        <5>1. x \in nodes /\ x < m /\ x \in Int /\ m \in Int
          BY <1>1, <2>2, <3>1, <4>1
        <5>2. m <= x
          BY <3>2, <4>1, <5>1
        <5> QED
          BY <5>1, <5>2
      <4> QED
        BY <4>1
    <3>5. <<n, l>> \in S
      BY <2>2, <2>4, <3>1, <3>3, <3>4
    <3>6. BoundStep(U, <<b1, n>>) = <<n, l>>
      BY <2>1, <2>4, <2>5 DEF BoundStep
    <3> HIDE DEF S
    <3> QED
      BY <3>5, <3>6
  <2>6. CASE n \notin U
    <3>1. ASSUME m \in U, m \in D[n]
          PROVE  m \in D[r]
      <4>1. ASSUME m \in D[l]
            PROVE  FALSE
        <5>1. m < n /\ m \in Key
          BY <1>1, <2>2, <4>1
        <5> QED
          BY <2>2, <2>6, <3>1, <5>1
      <4> QED
        BY <2>2, <2>6, <3>1, <4>1
    <3>2. D[n] \cap U = {} => D[r] \cap U = {}
      BY <2>2
    <3>3. <<b1, r>> \in S
      BY <2>2, <2>3, <3>1, <3>2
    <3>4. BoundStep(U, <<b1, n>>) = <<b1, r>>
      BY <2>1, <2>4, <2>6 DEF BoundStep
    <3> HIDE DEF S
    <3> QED
      BY <3>3, <3>4
  <2> QED
    BY <2>5, <2>6
<1>5. \A b \in S : BoundStep(U, b) \in S
  <2>1. ASSUME NEW b \in S
        PROVE  BoundStep(U, b) \in S
    <3>1. CASE b[2] = Nil
      BY <3>1 DEF BoundStep
    <3>2. CASE b[2] # Nil
      <4>1. PICK b1 \in Node, n \in nodes : b = <<b1, n>>
        BY <3>2
      <4> HIDE DEF S
      <4> QED
        BY <1>4, <4>1
    <3> QED
      BY <3>1, <3>2
  <2> HIDE DEF S
  <2> QED
    BY <2>1
<1>6. G \in [S -> S]
  BY <1>5
<1>7. \A b \in S : /\ G[b] = BoundStep(U, b) /\ R[b] = Cardinality(D[b[2]]) /\ b \in BoundPairs
                   /\ b[2] \in nodes \cup {Nil}
                   /\ b[2] = Nil => b[1] = m /\ BoundStep(U, b) = b
                   /\ b[2] # Nil => \E d \in Dir : BoundStep(U, b)[2] = tree.child[d][b[2]]
  <2>1. "left" \in Dir /\ "right" \in Dir
    BY DEF Dir
  <2> QED
    BY <1>1, <2>1 DEF BoundStep, BoundPairs
<1> HIDE DEF S, G, R, a, C
<1>8. \E f : /\ f \in [Steps -> BoundPairs] /\ f[0] = a
             /\ \A i \in 1 .. C : f[i] = BoundStep(U, f[i - 1])
  <2>1. PICK f : f \in [0 .. C -> S] /\ Iterates(C, S, a, G, f)
    BY <1>1, <1>3, <1>6, IterateExists
  <2>2. \A i \in 1 .. C : i - 1 \in 0 .. C
    BY <1>1
  <2>3. f[0] = a /\ \A i \in 1 .. C : f[i] = BoundStep(U, f[i - 1])
    BY <1>7, <2>1, <2>2 DEF Iterates
  <2>4. f \in [Steps -> BoundPairs]
    BY <1>1, <1>7, <2>1
  <2> QED
    BY <2>3, <2>4
<1>9. /\ R \in [S -> Nat] /\ R[a] <= C
      /\ \A b \in S : (R[b] = 0 <=> b[2] = Nil) /\ ((R[b] = 0 /\ R[G[b]] = 0) \/ R[G[b]] < R[b])
  <2>1. ASSUME NEW x \in nodes \cup {Nil}
        PROVE  /\ Cardinality(D[x]) \in Nat /\ Cardinality(D[x]) <= C /\ (Cardinality(D[x]) = 0 <=> x = Nil)
               /\ x # Nil => \A d \in Dir : Cardinality(D[tree.child[d][x]]) < Cardinality(D[x])
    <3>1. PICK A : A = D[x] /\ A \subseteq Key
      BY <1>1
    <3>2. A = {} <=> x = Nil
      BY <1>1, <1>2, <3>1 DEF Dir
    <3>3. Cardinality(A) \in Nat /\ Cardinality(A) <= C /\ (Cardinality(A) = 0 <=> A = {})
      BY <3>1, FewerNodes DEF C
    <3>4. ASSUME x # Nil, NEW d \in Dir
          PROVE  Cardinality(D[tree.child[d][x]]) < Cardinality(A)
      <4>1. PICK B : B = D[tree.child[d][x]] /\ B \subseteq A /\ B # A
        BY <1>2, <3>1, <3>4
      <4> QED
        BY <3>1, <4>1, FewerNodes
    <3> QED
      BY <3>1, <3>2, <3>3, <3>4
  <2>2. R \in [S -> Nat]
    BY <1>7, <2>1 DEF R
  <2>3. R[a] <= C
    BY <1>3, <1>7, <2>1
  <2>4. ASSUME NEW b \in S
        PROVE  (R[b] = 0 <=> b[2] = Nil) /\ ((R[b] = 0 /\ R[G[b]] = 0) \/ R[G[b]] < R[b])
    <3>1. R[b] = 0 <=> b[2] = Nil
      BY <1>7, <2>1
    <3>2. PICK w \in S : w = G[b] /\ w = BoundStep(U, b) /\ R[w] = Cardinality(D[w[2]])
      BY <1>5, <1>7
    <3>3. b[2] = Nil => R[w] = 0
      BY <1>7, <3>1, <3>2
    <3>4. b[2] # Nil => R[w] < R[b]
      BY <1>7, <2>1, <3>2
    <3> QED
      BY <3>1, <3>2, <3>3, <3>4
  <2> QED
    BY <2>2, <2>3, <2>4
<1>10. ASSUME NEW f, f[0] = a, \A i \in 1 .. C : f[i - 1] \in BoundPairs => f[i] = BoundStep(U, f[i - 1])
       PROVE  f[C][1] = m
  <2>1. \A i \in 1 .. C : f[i - 1] \in S => f[i] = G[f[i - 1]]
    BY <1>7, <1>10
  <2>2. Iterates(C, S, a, G, f)
    BY <1>1, <1>3, <1>6, <1>10, <2>1, IterateStays
  <2>3. R[f[C]] = 0
    <3>1. C \in Nat /\ G \in [S -> S] /\ R \in [S -> Nat] /\ R[a] <= C
      BY <1>1, <1>6, <1>9
    <3>2. \A b \in S : (R[b] = 0 /\ R[G[b]] = 0) \/ R[G[b]] < R[b]
      BY <1>9
    <3> QED
      BY <2>2, <3>1, <3>2, IterateEnds
  <2>4. f[C] \in S
    BY <1>1, <2>2 DEF Iterates
  <2> QED
    BY <1>7, <1>9, <2>3, <2>4
<1> QED
  BY <1>8, <1>10 DEF a, C, BoundWalk

(* lower_bound finds the first key that is not smaller than k. *)
LEMMA LowerBoundFinds ==
    ASSUME NEW D, Shape(tree, nodes, D), last \in Node, NEW k \in Key, NEW m,
           \/ (\A x \in nodes : x < k) /\ m = last
           \/ m \in nodes /\ ~(m < k) /\ \A x \in nodes : ~(x < k) => m <= x
    PROVE  LowerBound(k) = m
<1> DEFINE U == {x \in Key : ~(x < k)}
           C == Cardinality(Key)
           at == CHOOSE f : f = [i \in Steps |->
                    IF i = 0 THEN <<last, tree.root>>
                    ELSE IF f[i - 1][2] = Nil THEN f[i - 1]
                    ELSE IF ~(f[i - 1][2] < k) THEN <<f[i - 1][2], tree.child["left"][f[i - 1][2]]>>
                    ELSE <<f[i - 1][1], tree.child["right"][f[i - 1][2]]>>]
<1>1. /\ nodes \subseteq Key /\ Key \subseteq Int /\ Node = Key \cup {Nil} /\ Nil \notin Key
      /\ C \in Nat /\ Steps = 0 .. C
  BY TreeTypes, StepsFacts DEF Shape
<1>2. \A x, y \in Key : x \in U /\ x < y => y \in U
  BY <1>1
<1>3. \/ nodes \cap U = {} /\ m = last
      \/ m \in nodes \cap U /\ \A x \in nodes \cap U : m <= x
  BY <1>1
<1>4. /\ \E f : /\ f \in [Steps -> BoundPairs] /\ f[0] = <<last, tree.root>>
                /\ \A i \in 1 .. C : f[i] = BoundStep(U, f[i - 1])
      /\ \A f : /\ f[0] = <<last, tree.root>>
                /\ \A i \in 1 .. C : f[i - 1] \in BoundPairs => f[i] = BoundStep(U, f[i - 1])
                => f[C][1] = m
  <2> HIDE DEF U, at
  <2>1. BoundGoal(U, m)
    BY <1>2, <1>3 DEF BoundGoal
  <2>2. BoundWalk(U, m)
    BY <2>1, BoundFinds
  <2> QED
    BY <2>2 DEF BoundWalk
<1>5. ASSUME NEW b \in BoundPairs
      PROVE  BoundStep(U, b) = IF b[2] = Nil THEN b
                               ELSE IF ~(b[2] < k) THEN <<b[2], tree.child["left"][b[2]]>>
                               ELSE <<b[1], tree.child["right"][b[2]]>>
  <2>1. b[2] # Nil => b[2] \in Key
    BY <1>1 DEF BoundPairs
  <2>2. b[2] # Nil => (b[2] \in U <=> ~(b[2] < k))
    BY <2>1
  <2> HIDE DEF U
  <2> QED
    BY <2>2 DEF BoundStep
<1>6. LowerBound(k) = at[C][1]
  BY Zenon DEF LowerBound, Bound
<1>7. \E f : f = [i \in Steps |->
                    IF i = 0 THEN <<last, tree.root>>
                    ELSE IF f[i - 1][2] = Nil THEN f[i - 1]
                    ELSE IF ~(f[i - 1][2] < k) THEN <<f[i - 1][2], tree.child["left"][f[i - 1][2]]>>
                    ELSE <<f[i - 1][1], tree.child["right"][f[i - 1][2]]>>]
  <2> HIDE DEF U, C
  <2>1. PICK f : /\ f \in [Steps -> BoundPairs] /\ f[0] = <<last, tree.root>>
                 /\ \A i \in 1 .. C : f[i] = BoundStep(U, f[i - 1])
    BY <1>4
  <2>2. ASSUME NEW i \in Steps, i # 0
        PROVE  f[i] = IF f[i - 1][2] = Nil THEN f[i - 1]
                      ELSE IF ~(f[i - 1][2] < k) THEN <<f[i - 1][2], tree.child["left"][f[i - 1][2]]>>
                      ELSE <<f[i - 1][1], tree.child["right"][f[i - 1][2]]>>
    <3>1. i \in 1 .. C /\ i - 1 \in Steps
      BY <1>1, <2>2
    <3>2. PICK b \in BoundPairs : b = f[i - 1]
      BY <2>1, <3>1
    <3> QED
      BY <1>5, <2>1, <3>1, <3>2
  <2>3. f = [i \in Steps |->
                    IF i = 0 THEN <<last, tree.root>>
                    ELSE IF f[i - 1][2] = Nil THEN f[i - 1]
                    ELSE IF ~(f[i - 1][2] < k) THEN <<f[i - 1][2], tree.child["left"][f[i - 1][2]]>>
                    ELSE <<f[i - 1][1], tree.child["right"][f[i - 1][2]]>>]
    BY <2>1, <2>2
  <2> QED
    BY <2>3
<1>8. at = [i \in Steps |->
                    IF i = 0 THEN <<last, tree.root>>
                    ELSE IF at[i - 1][2] = Nil THEN at[i - 1]
                    ELSE IF ~(at[i - 1][2] < k) THEN <<at[i - 1][2], tree.child["left"][at[i - 1][2]]>>
                    ELSE <<at[i - 1][1], tree.child["right"][at[i - 1][2]]>>]
  BY <1>7, Zenon
<1> HIDE DEF at, U, C
<1>9. at[0] = <<last, tree.root>>
  <2>1. 0 \in Steps
    BY <1>1
  <2> QED
    BY <1>8, <2>1
<1>10. ASSUME NEW i \in 1 .. C, at[i - 1] \in BoundPairs
       PROVE  at[i] = BoundStep(U, at[i - 1])
  <2>1. i \in Steps /\ i # 0
    BY <1>1
  <2>2. at[i] = IF at[i - 1][2] = Nil THEN at[i - 1]
                ELSE IF ~(at[i - 1][2] < k) THEN <<at[i - 1][2], tree.child["left"][at[i - 1][2]]>>
                ELSE <<at[i - 1][1], tree.child["right"][at[i - 1][2]]>>
    BY <1>8, <2>1
  <2>3. PICK b \in BoundPairs : b = at[i - 1]
    BY <1>10
  <2> QED
    BY <1>5, <2>2, <2>3
<1> QED
  BY <1>4, <1>6, <1>9, <1>10

(* upper_bound finds the first key that is larger than k. *)
LEMMA UpperBoundFinds ==
    ASSUME NEW D, Shape(tree, nodes, D), last \in Node, NEW k \in Key, NEW m,
           \/ (\A x \in nodes : ~(k < x)) /\ m = last
           \/ m \in nodes /\ k < m /\ \A x \in nodes : k < x => m <= x
    PROVE  UpperBound(k) = m
<1> DEFINE U == {x \in Key : k < x}
           C == Cardinality(Key)
           at == CHOOSE f : f = [i \in Steps |->
                    IF i = 0 THEN <<last, tree.root>>
                    ELSE IF f[i - 1][2] = Nil THEN f[i - 1]
                    ELSE IF k < f[i - 1][2] THEN <<f[i - 1][2], tree.child["left"][f[i - 1][2]]>>
                    ELSE <<f[i - 1][1], tree.child["right"][f[i - 1][2]]>>]
<1>1. /\ nodes \subseteq Key /\ Key \subseteq Int /\ Node = Key \cup {Nil} /\ Nil \notin Key
      /\ C \in Nat /\ Steps = 0 .. C
  BY TreeTypes, StepsFacts DEF Shape
<1>2. \A x, y \in Key : x \in U /\ x < y => y \in U
  BY <1>1
<1>3. \/ nodes \cap U = {} /\ m = last
      \/ m \in nodes \cap U /\ \A x \in nodes \cap U : m <= x
  BY <1>1
<1>4. /\ \E f : /\ f \in [Steps -> BoundPairs] /\ f[0] = <<last, tree.root>>
                /\ \A i \in 1 .. C : f[i] = BoundStep(U, f[i - 1])
      /\ \A f : /\ f[0] = <<last, tree.root>>
                /\ \A i \in 1 .. C : f[i - 1] \in BoundPairs => f[i] = BoundStep(U, f[i - 1])
                => f[C][1] = m
  <2> HIDE DEF U, at
  <2>1. BoundGoal(U, m)
    BY <1>2, <1>3 DEF BoundGoal
  <2>2. BoundWalk(U, m)
    BY <2>1, BoundFinds
  <2> QED
    BY <2>2 DEF BoundWalk
<1>5. ASSUME NEW b \in BoundPairs
      PROVE  BoundStep(U, b) = IF b[2] = Nil THEN b
                               ELSE IF k < b[2] THEN <<b[2], tree.child["left"][b[2]]>>
                               ELSE <<b[1], tree.child["right"][b[2]]>>
  <2>1. b[2] # Nil => b[2] \in Key
    BY <1>1 DEF BoundPairs
  <2>2. b[2] # Nil => (b[2] \in U <=> k < b[2])
    BY <2>1
  <2> HIDE DEF U
  <2> QED
    BY <2>2 DEF BoundStep
<1>6. UpperBound(k) = at[C][1]
  BY Zenon DEF UpperBound, Bound
<1>7. \E f : f = [i \in Steps |->
                    IF i = 0 THEN <<last, tree.root>>
                    ELSE IF f[i - 1][2] = Nil THEN f[i - 1]
                    ELSE IF k < f[i - 1][2] THEN <<f[i - 1][2], tree.child["left"][f[i - 1][2]]>>
                    ELSE <<f[i - 1][1], tree.child["right"][f[i - 1][2]]>>]
  <2> HIDE DEF U, C
  <2>1. PICK f : /\ f \in [Steps -> BoundPairs] /\ f[0] = <<last, tree.root>>
                 /\ \A i \in 1 .. C : f[i] = BoundStep(U, f[i - 1])
    BY <1>4
  <2>2. ASSUME NEW i \in Steps, i # 0
        PROVE  f[i] = IF f[i - 1][2] = Nil THEN f[i - 1]
                      ELSE IF k < f[i - 1][2] THEN <<f[i - 1][2], tree.child["left"][f[i - 1][2]]>>
                      ELSE <<f[i - 1][1], tree.child["right"][f[i - 1][2]]>>
    <3>1. i \in 1 .. C /\ i - 1 \in Steps
      BY <1>1, <2>2
    <3>2. PICK b \in BoundPairs : b = f[i - 1]
      BY <2>1, <3>1
    <3> QED
      BY <1>5, <2>1, <3>1, <3>2
  <2>3. f = [i \in Steps |->
                    IF i = 0 THEN <<last, tree.root>>
                    ELSE IF f[i - 1][2] = Nil THEN f[i - 1]
                    ELSE IF k < f[i - 1][2] THEN <<f[i - 1][2], tree.child["left"][f[i - 1][2]]>>
                    ELSE <<f[i - 1][1], tree.child["right"][f[i - 1][2]]>>]
    BY <2>1, <2>2
  <2> QED
    BY <2>3
<1>8. at = [i \in Steps |->
                    IF i = 0 THEN <<last, tree.root>>
                    ELSE IF at[i - 1][2] = Nil THEN at[i - 1]
                    ELSE IF k < at[i - 1][2] THEN <<at[i - 1][2], tree.child["left"][at[i - 1][2]]>>
                    ELSE <<at[i - 1][1], tree.child["right"][at[i - 1][2]]>>]
  BY <1>7, Zenon
<1> HIDE DEF at, U, C
<1>9. at[0] = <<last, tree.root>>
  <2>1. 0 \in Steps
    BY <1>1
  <2> QED
    BY <1>8, <2>1
<1>10. ASSUME NEW i \in 1 .. C, at[i - 1] \in BoundPairs
       PROVE  at[i] = BoundStep(U, at[i - 1])
  <2>1. i \in Steps /\ i # 0
    BY <1>1
  <2>2. at[i] = IF at[i - 1][2] = Nil THEN at[i - 1]
                ELSE IF k < at[i - 1][2] THEN <<at[i - 1][2], tree.child["left"][at[i - 1][2]]>>
                ELSE <<at[i - 1][1], tree.child["right"][at[i - 1][2]]>>
    BY <1>8, <2>1
  <2>3. PICK b \in BoundPairs : b = at[i - 1]
    BY <1>10
  <2> QED
    BY <1>5, <2>2, <2>3
<1> QED
  BY <1>4, <1>6, <1>9, <1>10

(* Integers from k on have a least one. *)
LEMMA LeastFrom ==
    ASSUME NEW k \in Int, NEW T, T \subseteq Int, T # {}, \A x \in T : k <= x
    PROVE  Min(T) \in T /\ \A x \in T : Min(T) <= x
<1> DEFINE B == {x - k : x \in T}
<1>1. B \subseteq Nat /\ B # {}
  <2>1. \A x \in T : x - k \in Nat
    OBVIOUS
  <2>2. PICK y : y \in T
    OBVIOUS
  <2>3. y - k \in B
    BY <2>2
  <2> QED
    BY <2>1, <2>3
<1>2. PICK n \in B : \A i \in B : n <= i
  <2> HIDE DEF B
  <2> QED
    BY <1>1, LeastNatural
<1>3. PICK m \in T : n = m - k
  OBVIOUS
<1>4. \A x \in T : m <= x
  <2>1. ASSUME NEW x \in T
        PROVE  m <= x
    <3>1. n <= x - k
      BY <1>2
    <3> QED
      BY <1>3, <3>1
  <2> QED
    BY <2>1
<1> HIDE DEF B
<1> QED
  BY <1>4 DEF Min

(* Between calls lower_bound gives the first key that is not smaller and    *)
(* upper_bound the first larger one, and both the last key where there is   *)
(* none.                                                                    *)
THEOREM TreeBoundsRight ==
    Spec => []BoundsRight
<1>1. Inv => BoundsRight
  <2> SUFFICES ASSUME Inv, nodes # {}, NEW k \in Key
               PROVE  LET above == {x \in nodes : x > k}
                          least(S) == IF S = {} THEN Max(nodes) ELSE Min(S)
                      IN LowerBound(k) = least({x \in nodes : x >= k}) /\ UpperBound(k) = least(above)
    BY DEF BoundsRight
  <2>1. PICK D : Shape(tree, nodes, D)
    BY DEF Inv, TreeInv
  <2>2. nodes \subseteq Int /\ k \in Int /\ last \in Node
    BY <2>1, TreeAssumption DEF Inv, PlainInv, Shape
  <2>3. last \in nodes /\ \A x \in nodes : x <= last
    <3>1. Extreme("right", nodes, last) /\ Other("right") = "left"
      BY DEF Inv, EndsRight, Other
    <3>2. \A x \in nodes : x = last \/ x < last
      BY <3>1 DEF Extreme, OnSide
    <3> QED
      BY <2>2, <3>1, <3>2 DEF Extreme
  <2>4. Max(nodes) = last
    <3>1. \A x \in nodes : (\A y \in nodes : x >= y) => x = last
      BY <2>2, <2>3
    <3>2. \A y \in nodes : last >= y
      BY <2>2, <2>3
    <3> QED
      BY <2>3, <3>1, <3>2 DEF Max
  <2>5. LowerBound(k) = IF {x \in nodes : x >= k} = {} THEN Max(nodes) ELSE Min({x \in nodes : x >= k})
    <3>1. PICK T : T = {x \in nodes : x >= k}
      OBVIOUS
    <3>2. CASE T = {}
      <4>1. \A x \in nodes : x < k
        BY <2>2, <3>1, <3>2
      <4>2. LowerBound(k) = last
        BY <2>1, <2>2, <4>1, LowerBoundFinds
      <4> QED
        BY <2>4, <3>1, <3>2, <4>2
    <3>3. CASE T # {}
      <4>1. T \subseteq Int /\ \A x \in T : k <= x
        BY <2>2, <3>1
      <4>2. PICK m : m = Min(T) /\ m \in T /\ \A x \in T : m <= x
        BY <2>2, <3>3, <4>1, LeastFrom
      <4>3. m \in nodes /\ ~(m < k) /\ \A x \in nodes : ~(x < k) => m <= x
        BY <2>2, <3>1, <4>2
      <4>4. LowerBound(k) = m
        BY <2>1, <2>2, <4>3, LowerBoundFinds
      <4> QED
        BY <3>1, <3>3, <4>2, <4>4
    <3> QED
      BY <3>2, <3>3
  <2>6. UpperBound(k) = IF {x \in nodes : x > k} = {} THEN Max(nodes) ELSE Min({x \in nodes : x > k})
    <3>1. PICK T : T = {x \in nodes : x > k}
      OBVIOUS
    <3>2. CASE T = {}
      <4>1. \A x \in nodes : ~(k < x)
        BY <2>2, <3>1, <3>2
      <4>2. UpperBound(k) = last
        BY <2>1, <2>2, <4>1, UpperBoundFinds
      <4> QED
        BY <2>4, <3>1, <3>2, <4>2
    <3>3. CASE T # {}
      <4>1. T \subseteq Int /\ \A x \in T : k <= x
        <5>1. \A x \in T : x \in Int /\ x > k
          BY <2>2, <3>1
        <5> QED
          BY <2>2, <5>1
      <4>2. PICK m : m = Min(T) /\ m \in T /\ \A x \in T : m <= x
        BY <2>2, <3>3, <4>1, LeastFrom
      <4>3. m \in nodes /\ k < m /\ \A x \in nodes : k < x => m <= x
        BY <2>2, <3>1, <4>2
      <4>4. UpperBound(k) = m
        BY <2>1, <2>2, <4>3, UpperBoundFinds
      <4> QED
        BY <3>1, <3>3, <4>2, <4>4
    <3> QED
      BY <3>2, <3>3
  <2> QED
    BY <2>5, <2>6
<1> QED
  BY <1>1, TreeInvariant, PTL

-----------------------------------------------------------------------------
(* Iterators *)

(* m is the next node after n on side d, _nil when n is the outermost one. *)
IsNext(d, n, m) ==
    \/ m = Nil /\ \A z \in nodes : ~OnSide(d, z, n)
    \/ m \in nodes /\ OnSide(d, m, n) /\ \A z \in nodes : OnSide(d, z, n) => z = m \/ OnSide(d, z, m)

(* What is not below q and lies on side d of one node below q lies there of *)
(* them all.                                                                *)
LEMMA Outside ==
    ASSUME NEW D, Shape(tree, nodes, D), NEW d \in Dir, NEW q \in nodes, NEW z \in nodes, z \notin D[q],
           NEW x \in D[q], NEW y \in D[q], OnSide(d, z, x)
    PROVE  OnSide(d, z, y)
<1>1. q \in Key /\ z \in Int /\ Key \subseteq Int
  BY TreeAssumption DEF Shape
<1>2. x \in Int /\ y \in Int
  BY <1>1, BelowBelow
<1>3. PICK e \in Dir : \A w \in D[q] : OnSide(e, z, w)
  BY Convex
<1>4. e = d
  BY <1>1, <1>2, <1>3, SideFacts
<1> QED
  BY <1>3, <1>4

(* The next node below n. *)
LEMMA NextBelow ==
    ASSUME NEW D, Shape(tree, nodes, D), NEW d \in Dir, NEW n \in nodes, NEW c, c = tree.child[d][n],
           c # Nil, NEW m, Extreme(Other(d), D[c], m)
    PROVE  IsNext(d, n, m)
<1>1. n \in Key /\ nodes \subseteq Key /\ Key \subseteq Int /\ Other(d) \in Dir /\ Other(Other(d)) = d
  BY TreeAssumption, SideFacts DEF Shape
<1>2. /\ m \in D[c] /\ \A x \in D[c] : x = m \/ OnSide(d, x, m)
  BY <1>1 DEF Extreme
<1>3. PICK o : o = tree.child[Other(d)][n]
  OBVIOUS
<1>4. /\ n \in D[n] /\ D[c] \subseteq D[n] /\ D[n] = {n} \cup D[c] \cup D[o]
  BY <1>1, <1>3, Children
<1>5. /\ \A x \in D[c] : OnSide(d, x, n)
      /\ \A x \in D[o] : OnSide(Other(d), x, n)
  BY <1>1, <1>3 DEF Shape
<1>6. D[n] \subseteq nodes
  BY NodeFacts
<1>7. m \in nodes /\ OnSide(d, m, n)
  BY <1>2, <1>4, <1>5, <1>6
<1>8. ASSUME NEW z \in nodes, OnSide(d, z, n), z # m
      PROVE  OnSide(d, z, m)
  <2>1. z \in Int /\ n \in Int
    BY <1>1
  <2>2. z # n /\ ~OnSide(Other(d), z, n)
    BY <1>8, <2>1, SideFacts
  <2>3. CASE z \in D[n]
    BY <1>2, <1>4, <1>5, <1>8, <2>2, <2>3
  <2>4. CASE z \notin D[n]
    BY <1>2, <1>4, <1>8, <2>4, Outside
  <2> QED
    BY <2>3, <2>4
<1> QED
  BY <1>7, <1>8 DEF IsNext

(* One step of the climb. *)
LEMMA ClimbUp ==
    ASSUME NEW D, Shape(tree, nodes, D), NEW d \in Dir, NEW n \in nodes, NEW c \in nodes, Extreme(d, D[c], n),
           NEW a, a = tree.parent[c]
    PROVE  /\ a # Nil /\ c = tree.child[d][a] => a \in nodes /\ Extreme(d, D[a], n)
           /\ a = Nil \/ c # tree.child[d][a] => IsNext(d, n, a)
<1>1. n \in Int /\ nodes \subseteq Key /\ Key \subseteq Int /\ Nil \notin Key /\ D[tree.root] = nodes
  BY TreeAssumption DEF Shape
<1>2. Other(d) \in Dir /\ Other(d) # d /\ Other(Other(d)) = d
  BY SideFacts
<1>3. n \in D[c] /\ \A x \in D[c] : x = n \/ OnSide(Other(d), x, n)
  BY DEF Extreme
<1>4. CASE a = Nil
  <2>0. c # tree.root => tree.parent[c] \in nodes
    BY Slot
  <2>1. c = tree.root
    BY <1>1, <1>4, <2>0
  <2>2. \A z \in nodes : z \in Int /\ (z = n \/ OnSide(Other(d), z, n))
    BY <1>1, <1>3, <2>1
  <2>3. \A z \in nodes : ~OnSide(d, z, n)
    BY <1>1, <1>2, <2>2, SideFacts
  <2> QED
    BY <1>4, <2>3 DEF IsNext
<1>5. CASE a # Nil
  <2>1. c # tree.root
    BY <1>5, Slot
  <2>2. a \in nodes /\ \E e \in Dir : tree.child[e][a] = c
    BY <2>1, Slot
  <2>3. a \in Key /\ a \in Int
    BY <1>1, <2>2
  <2>4. c = tree.child[d][a] \/ c = tree.child[Other(d)][a]
    BY <2>2, SideFacts
  <2>5. PICK l, o : l = tree.child[d][a] /\ o = tree.child[Other(d)][a]
    OBVIOUS
  <2>6. /\ a \in D[a] /\ D[a] = {a} \cup D[l] \cup D[o] /\ D[a] \subseteq nodes
    BY <2>2, <2>3, <2>5, Children, NodeFacts
  <2>7. /\ \A x \in D[l] : OnSide(d, x, a)
        /\ \A x \in D[o] : OnSide(Other(d), x, a)
    BY <1>2, <2>3, <2>5 DEF Shape
  <2>8. CASE c = l
    <3>1. OnSide(Other(d), a, n)
      BY <1>1, <1>3, <2>3, <2>7, <2>8, SideFacts
    <3>2. ASSUME NEW x \in D[o]
          PROVE  OnSide(Other(d), x, n)
      <4>1. x \in Int /\ OnSide(Other(d), x, a)
        BY <1>1, <2>6, <2>7
      <4> QED
        BY <1>1, <1>2, <2>3, <3>1, <4>1, SideFacts
    <3>3. n \in D[a] /\ \A x \in D[a] : x = n \/ OnSide(Other(d), x, n)
      BY <1>3, <2>6, <2>8, <3>1, <3>2
    <3> QED
      BY <1>5, <2>2, <2>5, <2>8, <3>3 DEF Extreme
  <2>9. CASE c # l
    <3>1. c = o
      BY <2>4, <2>5, <2>9
    <3>2. OnSide(d, a, n) /\ n \in D[a]
      <4>1. OnSide(Other(d), n, a)
        BY <1>3, <2>7, <3>1
      <4> QED
        BY <1>1, <1>2, <1>3, <2>3, <2>6, <3>1, <4>1, SideFacts
    <3>3. ASSUME NEW z \in nodes, OnSide(d, z, n), z # a
          PROVE  OnSide(d, z, a)
      <4>1. z \in Int
        BY <1>1
      <4>2. z \notin D[o]
        BY <1>1, <1>2, <1>3, <3>1, <3>3, <4>1, SideFacts
      <4>3. CASE z \in D[a]
        BY <2>6, <2>7, <3>3, <4>2, <4>3
      <4>4. CASE z \notin D[a]
        BY <2>2, <2>6, <3>2, <3>3, <4>4, Outside
      <4> QED
        BY <4>3, <4>4
    <3> QED
      BY <1>5, <2>2, <2>5, <2>9, <3>2, <3>3 DEF IsNext
  <2> QED
    BY <2>8, <2>9
<1> QED
  BY <1>4, <1>5

(* successor and predecessor find the next node. *)
LEMMA NeighbourIs ==
    ASSUME NEW D, Shape(tree, nodes, D), NEW d \in Dir, NEW n \in nodes
    PROVE  IsNext(d, n, Neighbour(d, n))
<1>1. nodes \subseteq Key /\ Nil \notin Key /\ tree \in TreeRecord /\ n \in Key /\ Key \subseteq Int
  BY TreeAssumption DEF Shape
<1>2. ASSUME tree.child[d][n] # Nil
      PROVE  IsNext(d, n, Neighbour(d, n))
  <2>1. PICK c : c = tree.child[d][n] /\ c \in Key
    BY <1>1, <1>2, Children
  <2>2. PICK m : m = Most(Other(d), c)
    OBVIOUS
  <2>3. Extreme(Other(d), D[c], m)
    BY <2>1, <2>2, MostEnds, SideFacts
  <2>4. Neighbour(d, n) = m
    BY <1>2, <2>1, <2>2 DEF Neighbour
  <2> QED
    BY <1>2, <2>1, <2>3, <2>4, NextBelow
<1>3. ASSUME tree.child[d][n] = Nil
      PROVE  IsNext(d, n, Neighbour(d, n))
  <2> DEFINE S == {u \in nodes \X (nodes \cup {Nil}) : u[2] = tree.parent[u[1]] /\ Extreme(d, D[u[1]], n)}
             On(u) == u[2] # Nil /\ u[1] = tree.child[d][u[2]]
             E(u) == IF u[2] # Nil /\ u[1] = tree.child[d][u[2]] THEN <<u[2], tree.parent[u[2]]>> ELSE u
             G == [u \in S |-> E(u)]
             R == [u \in S |-> IF On(u) THEN Cardinality(Above(nodes, D, u[1])) ELSE 0]
             a == <<n, tree.parent[n]>>
             climb == CHOOSE f : f = [i \in Steps |->
                        IF i = 0 THEN <<n, tree.parent[n]>>
                        ELSE IF f[i - 1][2] # Nil /\ f[i - 1][1] = tree.child[d][f[i - 1][2]]
                             THEN <<f[i - 1][2], tree.parent[f[i - 1][2]]>> ELSE f[i - 1]]
             C == Cardinality(Key)
  <2>1. \A x \in nodes : tree.parent[x] \in nodes \cup {Nil}
    BY AboveFacts
  <2>2. a \in S
    <3>1. PICK o : o = tree.child[Other(d)][n] /\ D[n] = {n} \cup D[o]
      <4>1. D[n] = {n} \cup D[tree.child[d][n]] \cup D[tree.child[Other(d)][n]]
        BY <1>1, Children
      <4>2. D[Nil] = {}
        BY DEF Shape
      <4> QED
        BY <1>3, <4>1, <4>2
    <3>2. \A x \in D[o] : OnSide(Other(d), x, n)
      BY <1>1, <3>1, SideFacts DEF Shape
    <3>3. Extreme(d, D[n], n)
      BY <3>1, <3>2 DEF Extreme
    <3> QED
      BY <2>1, <3>3
  <2>3. \A u \in S : /\ u[1] \in nodes /\ u[2] = tree.parent[u[1]] /\ u[2] \in nodes \cup {Nil}
                     /\ Extreme(d, D[u[1]], n)
    OBVIOUS
  <2>4. \A x \in nodes : Extreme(d, D[x], n) => <<x, tree.parent[x]>> \in S
    BY <2>1
  <2>5. \A u : /\ On(u) => E(u) = <<u[2], tree.parent[u[2]]>> /\ E(u)[1] = u[2]
               /\ ~On(u) => E(u) = u
    OBVIOUS
  <2>6. \A u \in S : G[u] = E(u) /\ R[u] = IF On(u) THEN Cardinality(Above(nodes, D, u[1])) ELSE 0
    OBVIOUS
  <2>7. \A u : On(u) <=> u[2] # Nil /\ u[1] = tree.child[d][u[2]]
    OBVIOUS
  <2>8. Neighbour(d, n) = climb[C][2]
    BY <1>3, Zenon DEF Neighbour
  <2>9. C \in Nat /\ Steps = 0 .. C
    BY StepsFacts
  <2> HIDE DEF S, On
  <2>10. \A u \in S : E(u) \in S
    <3>1. ASSUME NEW u \in S
          PROVE  E(u) \in S
      <4>1. CASE On(u)
        <5>1. PICK c \in nodes, p \in nodes \cup {Nil} : c = u[1] /\ p = u[2] /\ p = tree.parent[c] /\ Extreme(d, D[c], n)
          BY <2>3
        <5>2. p \in nodes /\ Extreme(d, D[p], n)
          BY <2>7, <4>1, <5>1, ClimbUp
        <5>3. E(u) = <<p, tree.parent[p]>>
          BY <2>5, <4>1, <5>1
        <5> QED
          BY <2>4, <5>2, <5>3
      <4>2. CASE ~On(u)
        <5> HIDE DEF E
        <5> QED
          BY <2>5, <4>2
      <4> QED
        BY <4>1, <4>2
    <3> HIDE DEF E
    <3> QED
      BY <3>1
  <2>11. G \in [S -> S]
    BY <2>10
  <2> HIDE DEF R, G
  <2>12. \E f : f = [i \in Steps |->
                        IF i = 0 THEN <<n, tree.parent[n]>>
                        ELSE IF f[i - 1][2] # Nil /\ f[i - 1][1] = tree.child[d][f[i - 1][2]]
                             THEN <<f[i - 1][2], tree.parent[f[i - 1][2]]>> ELSE f[i - 1]]
    <3> HIDE DEF a, C
    <3>1. PICK f : f \in [0 .. C -> S] /\ Iterates(C, S, a, G, f)
      BY <2>2, <2>9, <2>11, IterateExists
    <3>2. f[0] = a /\ \A i \in 1 .. C : f[i] = E(f[i - 1])
      <4>1. \A i \in 1 .. C : i - 1 \in 0 .. C
        BY <2>9
      <4> HIDE DEF E
      <4> QED
        BY <2>6, <3>1, <4>1 DEF Iterates
    <3>3. \A i \in 0 .. C : f[i] = IF i = 0 THEN a ELSE E(f[i - 1])
      <4> HIDE DEF E
      <4> QED
        BY <2>9, <3>2
    <3>4. f = [i \in 0 .. C |-> IF i = 0 THEN a ELSE E(f[i - 1])]
      <4> HIDE DEF E
      <4> QED
        BY <3>1, <3>3
    <3> QED
      BY <2>9, <3>4 DEF a
  <2>13. climb = [i \in Steps |->
                        IF i = 0 THEN <<n, tree.parent[n]>>
                        ELSE IF climb[i - 1][2] # Nil /\ climb[i - 1][1] = tree.child[d][climb[i - 1][2]]
                             THEN <<climb[i - 1][2], tree.parent[climb[i - 1][2]]>> ELSE climb[i - 1]]
    BY <2>12, Zenon
  <2> HIDE DEF climb
  <2>14. climb[0] = a /\ \A i \in 1 .. C : climb[i] = E(climb[i - 1])
    <3>1. climb = [i \in 0 .. C |-> IF i = 0 THEN a ELSE E(climb[i - 1])]
      BY <2>9, <2>13
    <3> HIDE DEF E, a, C
    <3> QED
      BY <2>9, <3>1
  <2> HIDE DEF E, a, C
  <2>15. Iterates(C, S, a, G, climb)
    BY <2>2, <2>6, <2>9, <2>11, <2>14, IterateStays
  <2>16. \A x \in nodes \cup {Nil} :
                /\ Cardinality(Above(nodes, D, x)) \in Nat /\ Cardinality(Above(nodes, D, x)) <= C
                /\ Cardinality(Above(nodes, D, x)) = 0 <=> x = Nil
                /\ x # Nil => Cardinality(Above(nodes, D, tree.parent[x])) < Cardinality(Above(nodes, D, x))
    BY AboveFacts DEF C
  <2>17. R \in [S -> Nat] /\ \A u \in S : R[u] <= C /\ (R[u] = 0 <=> ~On(u))
    <3>1. \A u \in S : R[u] \in Nat /\ R[u] <= C /\ (R[u] = 0 <=> ~On(u))
      <4>1. ASSUME NEW u \in S
            PROVE  R[u] \in Nat /\ R[u] <= C /\ (R[u] = 0 <=> ~On(u))
        <5>0. PICK x \in nodes : x = u[1]
          BY <2>3
        <5>1. PICK r : r = Cardinality(Above(nodes, D, x))
          OBVIOUS
        <5>2. r \in Nat /\ r <= C /\ r # 0
          BY <1>1, <2>16, <5>1
        <5>3. R[u] = IF On(u) THEN r ELSE 0
          BY <2>6, <5>0, <5>1
        <5> QED
          BY <2>9, <5>2, <5>3
      <4> QED
        BY <4>1
    <3> QED
      BY <3>1 DEF R
  <2>18. ASSUME NEW u \in S
         PROVE  (R[u] = 0 /\ R[G[u]] = 0) \/ R[G[u]] < R[u]
    <3>1. PICK w \in S : w = G[u] /\ w = E(u)
      BY <2>6, <2>10
    <3>2. CASE ~On(u)
      BY <2>5, <2>17, <3>1, <3>2
    <3>3. CASE On(u)
      <4>1. PICK x \in nodes : x = u[1] /\ w[1] = tree.parent[x]
        BY <2>3, <2>5, <3>1, <3>3
      <4>2. PICK r \in Nat, q \in Nat : r = R[u] /\ q = R[w]
        BY <2>17
      <4>3. r # 0
        BY <2>17, <3>3, <4>2
      <4>4. r = Cardinality(Above(nodes, D, x))
        BY <2>6, <3>3, <4>1, <4>2
      <4>5. q = 0 \/ q = Cardinality(Above(nodes, D, tree.parent[x]))
        BY <2>6, <4>1, <4>2
      <4>6. Cardinality(Above(nodes, D, tree.parent[x])) < r
        BY <1>1, <2>16, <4>4
      <4> QED
        BY <3>1, <4>2, <4>3, <4>5, <4>6
    <3> QED
      BY <3>2, <3>3
  <2>19. R[climb[C]] = 0
    BY <2>2, <2>9, <2>11, <2>15, <2>17, <2>18, IterateEnds
  <2>20. PICK u \in S : u = climb[C] /\ ~On(u)
    BY <2>9, <2>15, <2>17, <2>19 DEF Iterates
  <2>21. PICK c \in nodes, p \in nodes \cup {Nil} : c = u[1] /\ p = u[2] /\ p = tree.parent[c] /\ Extreme(d, D[c], n)
    BY <2>3
  <2>22. IsNext(d, n, p)
    BY <2>7, <2>20, <2>21, ClimbUp
  <2> QED
    BY <2>8, <2>20, <2>21, <2>22
<1> QED
  BY <1>2, <1>3

(* The nodes an iterator in direction d meets before it comes to k. *)
Before(d, k) == {x \in nodes : OnSide(Other(d), x, k)}

(* One node further, one node more behind. *)
LEMMA BeforeFacts ==
    ASSUME NEW D, Shape(tree, nodes, D), NEW d \in Dir, NEW k \in nodes
    PROVE  /\ Cardinality(Before(d, k)) \in Nat /\ Cardinality(nodes) \in Nat
           /\ Cardinality(Before(d, k)) < Cardinality(nodes)
           /\ \A m : IsNext(d, k, m) =>
                /\ m = Nil => Cardinality(nodes) = Cardinality(Before(d, k)) + 1
                /\ m # Nil => m \in nodes /\ Cardinality(Before(d, m)) = Cardinality(Before(d, k)) + 1
           /\ \A m \in nodes : Cardinality(Before(d, m)) = Cardinality(Before(d, k)) => m = k
           /\ Extreme(Other(d), nodes, k) => Cardinality(Before(d, k)) = 0
<1>1. nodes \subseteq Key /\ Key \subseteq Int /\ IsFiniteSet(Key) /\ Nil \notin Key /\ nodes \subseteq Int
  BY TreeAssumption DEF Shape
<1>2. Other(d) \in Dir /\ Other(Other(d)) = d /\ k \in Int
  BY <1>1, SideFacts
<1>3. \A x \in nodes : Before(d, x) \subseteq nodes /\ x \notin Before(d, x)
  BY <1>1, <1>2, SideFacts DEF Before
<1>4. ASSUME NEW x \in nodes
      PROVE  /\ Cardinality(Before(d, x)) \in Nat /\ Cardinality(nodes) \in Nat
             /\ Cardinality(Before(d, x)) < Cardinality(nodes) /\ IsFiniteSet(Before(d, x))
  <2>1. PICK B : B = Before(d, x) /\ B \subseteq nodes /\ B # nodes
    BY <1>3
  <2>2. IsFiniteSet(B)
    BY <1>1, <2>1, FS_Subset
  <2> QED
    BY <1>1, <2>1, <2>2, FewerNodes
<1>5. PICK B : B = Before(d, k)
  OBVIOUS
<1>6. k \notin B /\ IsFiniteSet(B) /\ Cardinality(B \cup {k}) = Cardinality(B) + 1
  BY <1>3, <1>4, <1>5, FS_AddElement
<1>7. ASSUME NEW m, IsNext(d, k, m)
      PROVE  /\ m = Nil => Cardinality(nodes) = Cardinality(B) + 1
             /\ m # Nil => m \in nodes /\ Cardinality(Before(d, m)) = Cardinality(B) + 1
  <2>1. \A z \in nodes : z = k \/ OnSide(d, z, k) \/ OnSide(Other(d), z, k)
    BY <1>1, <1>2, SideFacts
  <2>2. CASE m = Nil
    <3>1. \A z \in nodes : ~OnSide(d, z, k)
      BY <1>1, <1>7, <2>2 DEF IsNext
    <3>2. nodes = B \cup {k}
      BY <1>5, <2>1, <3>1 DEF Before
    <3> QED
      BY <1>6, <2>2, <3>2
  <2>3. CASE m # Nil
    <3>1. m \in nodes /\ OnSide(d, m, k) /\ \A z \in nodes : OnSide(d, z, k) => z = m \/ OnSide(d, z, m)
      BY <1>7, <2>3 DEF IsNext
    <3>2. OnSide(Other(d), k, m) /\ m \in Int
      BY <1>1, <1>2, <3>1, SideFacts
    <3>3. ASSUME NEW z \in nodes
          PROVE  OnSide(Other(d), z, m) <=> OnSide(Other(d), z, k) \/ z = k
      <4>1. z \in Int
        BY <1>1
      <4>2. ASSUME OnSide(Other(d), z, k)
            PROVE  OnSide(Other(d), z, m)
        BY <1>2, <3>2, <4>1, <4>2, SideFacts
      <4>3. ASSUME OnSide(d, z, k)
            PROVE  ~OnSide(Other(d), z, m)
        BY <1>2, <3>1, <3>2, <4>1, <4>3, SideFacts
      <4> QED
        BY <2>1, <3>2, <4>2, <4>3
    <3>4. Before(d, m) = B \cup {k}
      BY <1>5, <3>3 DEF Before
    <3> QED
      BY <1>6, <2>3, <3>1, <3>4
  <2> QED
    BY <2>2, <2>3
<1>8. ASSUME NEW x \in nodes, NEW y \in nodes, OnSide(d, y, x)
      PROVE  Cardinality(Before(d, x)) # Cardinality(Before(d, y))
  <2>1. x \in Int /\ y \in Int /\ OnSide(Other(d), x, y)
    BY <1>1, <1>2, <1>8, SideFacts
  <2>2. ASSUME NEW z \in Before(d, x)
        PROVE  z \in Before(d, y)
    <3>1. z \in nodes /\ z \in Int /\ OnSide(Other(d), z, x)
      BY <1>1, <2>2 DEF Before
    <3>2. OnSide(Other(d), z, y)
      BY <1>2, <2>1, <3>1, SideFacts
    <3> QED
      BY <3>1, <3>2 DEF Before
  <2>3. x \in Before(d, y)
    BY <2>1 DEF Before
  <2>4. PICK A, E : A = Before(d, y) /\ E = Before(d, x) /\ A \subseteq Key /\ E \subseteq A /\ E # A
    BY <1>1, <1>3, <2>2, <2>3
  <2>5. Cardinality(E) < Cardinality(A) /\ Cardinality(E) \in Nat /\ Cardinality(A) \in Nat
    BY <2>4, FewerNodes
  <2> QED
    BY <2>4, <2>5
<1>9. ASSUME NEW m \in nodes, Cardinality(Before(d, m)) = Cardinality(Before(d, k)), m # k
      PROVE  FALSE
  <2>1. m \in Int
    BY <1>1
  <2>2. OnSide(d, m, k) \/ OnSide(d, k, m)
    BY <1>2, <1>9, <2>1, SideFacts
  <2> QED
    BY <1>8, <1>9, <2>2
<1>10. ASSUME Extreme(Other(d), nodes, k)
       PROVE  Cardinality(Before(d, k)) = 0
  <2>1. \A x \in nodes : x = k \/ OnSide(d, x, k)
    BY <1>2, <1>10 DEF Extreme
  <2>2. \A x \in nodes : x \in Int /\ ~OnSide(Other(d), x, k)
    BY <1>1, <1>2, <2>1, SideFacts
  <2>3. Before(d, k) = {}
    BY <2>2 DEF Before
  <2> QED
    BY <2>3, FS_EmptySet
<1> QED
  BY <1>4, <1>5, <1>7, <1>9, <1>10

(* An iterator that starts at the outermost node meets every node when its  *)
(* turn has come, and then is not valid.                                    *)
LEMMA VisitsAll ==
    ASSUME NEW D, Shape(tree, nodes, D), NEW d \in Dir, NEW n \in nodes, Extreme(Other(d), nodes, n)
    PROVE  /\ \A k \in nodes : Visits(d, n)[Cardinality(Before(d, k))] = k
           /\ Visits(d, n)[Cardinality(nodes)] = Nil
<1> DEFINE S == nodes \cup {Nil}
           E(s) == IF s = Nil THEN Nil ELSE Neighbour(d, s)
           G == [s \in S |-> E(s)]
           v == CHOOSE f : f = [i \in Steps |->
                    IF i = 0 THEN n ELSE IF f[i - 1] = Nil THEN Nil ELSE Neighbour(d, f[i - 1])]
           C == Cardinality(Key)
           M == Cardinality(nodes)
           Pos(k) == Cardinality(Before(d, k))
           Right(i, s) == IF s = Nil THEN M <= i ELSE s \in nodes /\ Pos(s) = i
<1>1. nodes \subseteq Key /\ Nil \notin Key /\ n \in S /\ n # Nil
  BY TreeAssumption DEF Shape
<1>2. C \in Nat /\ Steps = 0 .. C /\ M \in Nat /\ M <= C
  BY <1>1, StepsFacts, FewerNodes
<1>3. \A s \in nodes : IsNext(d, s, Neighbour(d, s))
  BY NeighbourIs
<1>4. \A s \in nodes : /\ Pos(s) \in Nat /\ Pos(s) < M
                       /\ Neighbour(d, s) = Nil => M = Pos(s) + 1
                       /\ Neighbour(d, s) # Nil => Neighbour(d, s) \in nodes /\ Pos(Neighbour(d, s)) = Pos(s) + 1
                       /\ \A k \in nodes : Pos(k) = Pos(s) => k = s
  BY <1>3, BeforeFacts
<1>5. Pos(n) = 0
  BY BeforeFacts
<1>6. Visits(d, n) = v
  BY Zenon DEF Visits
<1> HIDE DEF Pos, M, C
<1>7. G \in [S -> S] /\ \A s \in S : G[s] = E(s)
  BY <1>1, <1>4
<1> HIDE DEF G
<1>8. \E f : f = [i \in Steps |->
                    IF i = 0 THEN n ELSE IF f[i - 1] = Nil THEN Nil ELSE Neighbour(d, f[i - 1])]
  <2> HIDE DEF S
  <2>1. PICK f : f \in [0 .. C -> S] /\ Iterates(C, S, n, G, f)
    BY <1>1, <1>2, <1>7, IterateExists
  <2>2. f[0] = n /\ \A i \in 1 .. C : f[i] = E(f[i - 1])
    <3>1. \A i \in 1 .. C : i - 1 \in 0 .. C
      BY <1>2
    <3> HIDE DEF E
    <3> QED
      BY <1>7, <2>1, <3>1 DEF Iterates
  <2>3. \A i \in 0 .. C : f[i] = IF i = 0 THEN n ELSE E(f[i - 1])
    <3> HIDE DEF E
    <3> QED
      BY <1>2, <2>2
  <2>4. f = [i \in 0 .. C |-> IF i = 0 THEN n ELSE E(f[i - 1])]
    <3> HIDE DEF E
    <3> QED
      BY <2>1, <2>3
  <2> QED
    BY <1>2, <2>4
<1>9. v = [i \in Steps |->
                    IF i = 0 THEN n ELSE IF v[i - 1] = Nil THEN Nil ELSE Neighbour(d, v[i - 1])]
  BY <1>8, Zenon
<1> HIDE DEF v
<1>10. v[0] = n /\ \A i \in 1 .. C : v[i] = E(v[i - 1])
  <2>1. v = [i \in 0 .. C |-> IF i = 0 THEN n ELSE E(v[i - 1])]
    BY <1>2, <1>9
  <2> HIDE DEF E
  <2> QED
    BY <1>2, <2>1
<1> DEFINE Bad == {i \in 0 .. C : ~Right(i, v[i])}
<1>11. ASSUME Bad # {}
       PROVE  FALSE
  <2>1. PICK j \in Bad : \A i \in Bad : j <= i
    <3>1. Bad \subseteq Nat
      BY <1>2
    <3> HIDE DEF Bad
    <3> QED
      BY <1>11, <3>1, LeastNatural
  <2>2. j \in 0 .. C /\ ~Right(j, v[j])
    BY <2>1
  <2>3. j # 0
    BY <1>1, <1>5, <1>10, <2>2
  <2>4. j \in 1 .. C /\ j - 1 \in 0 .. C /\ ~(j <= j - 1) /\ j \in Nat
    BY <1>2, <2>2, <2>3
  <2>5. Right(j - 1, v[j - 1])
    <3> HIDE DEF Right
    <3> QED
      BY <2>1, <2>4
  <2>6. PICK s : s = v[j - 1] /\ v[j] = E(s)
    BY <1>10, <2>4
  <2>7. CASE s = Nil
    <3>1. M <= j - 1 /\ v[j] = Nil
      BY <2>5, <2>6, <2>7
    <3>2. M <= j
      BY <1>2, <2>4, <3>1
    <3> QED
      BY <2>2, <3>1, <3>2
  <2>8. CASE s # Nil
    <3>1. s \in nodes /\ Pos(s) = j - 1 /\ v[j] = Neighbour(d, s)
      BY <2>5, <2>6, <2>8
    <3>2. Pos(s) + 1 = j
      BY <2>4, <3>1
    <3>3. v[j] = Nil => M <= j
      <4>1. v[j] = Nil => M = j
        BY <1>4, <3>1, <3>2
      <4> QED
        BY <1>2, <4>1
    <3>4. v[j] # Nil => v[j] \in nodes /\ Pos(v[j]) = j
      BY <1>4, <3>1, <3>2
    <3> QED
      BY <2>2, <3>3, <3>4
  <2> QED
    BY <2>7, <2>8
<1>12. \A i \in 0 .. C : Right(i, v[i])
  <2> HIDE DEF Right
  <2> QED
    BY <1>11
<1>13. ASSUME NEW k \in nodes
       PROVE  v[Pos(k)] = k
  <2>1. PICK i : i = Pos(k) /\ i \in 0 .. C /\ i < M
    BY <1>2, <1>4
  <2>2. Right(i, v[i])
    BY <1>12, <2>1
  <2>3. v[i] # Nil
    BY <1>2, <2>1, <2>2
  <2>4. v[i] \in nodes /\ Pos(v[i]) = i
    BY <2>2, <2>3
  <2> QED
    BY <1>4, <2>1, <2>4
<1>14. v[M] = Nil
  <2>1. Right(M, v[M])
    BY <1>2, <1>12
  <2>2. ASSUME v[M] # Nil
        PROVE  FALSE
    <3>1. v[M] \in nodes /\ Pos(v[M]) = M
      BY <2>1, <2>2
    <3> QED
      BY <1>2, <1>4, <3>1
  <2> QED
    BY <2>2
<1> QED
  BY <1>6, <1>13, <1>14 DEF Pos, M

(* Between calls the iterators of begin and rbegin visit every node once,   *)
(* in ascending and in descending order of the keys, and then are not       *)
(* valid, and size counts the nodes.                                        *)
THEOREM TreeIterationOrder ==
    Spec => []IterationOrder
<1>1. Inv => IterationOrder
  <2> SUFFICES ASSUME Inv, pc = "idle"
               PROVE  /\ size = Cardinality(nodes)
                      /\ nodes # {} =>
                          \A k \in nodes :
                              /\ ForwardIterator[Cardinality({x \in nodes : x < k})] = k
                              /\ ReverseIterator[Cardinality({x \in nodes : x > k})] = k
                      /\ nodes # {} => ForwardIterator[size] = Nil /\ ReverseIterator[size] = Nil
    BY DEF IterationOrder
  <2>1. PICK D : Shape(tree, nodes, D)
    BY DEF Inv, TreeInv
  <2>2. size = Cardinality(nodes)
    BY DEF Inv, SizeInv
  <2>3. ASSUME nodes # {}
        PROVE  /\ \A k \in nodes :
                      /\ ForwardIterator[Cardinality({x \in nodes : x < k})] = k
                      /\ ReverseIterator[Cardinality({x \in nodes : x > k})] = k
               /\ ForwardIterator[size] = Nil /\ ReverseIterator[size] = Nil
    <3>1. /\ Extreme(Other("right"), nodes, first) /\ Extreme(Other("left"), nodes, last)
          /\ "right" \in Dir /\ "left" \in Dir /\ first \in nodes /\ last \in nodes
      BY <2>3 DEF Inv, EndsRight, Other, Dir, Extreme
    <3>2. /\ \A k \in nodes : ForwardIterator[Cardinality(Before("right", k))] = k
          /\ ForwardIterator[Cardinality(nodes)] = Nil
      BY <2>1, <3>1, VisitsAll DEF ForwardIterator
    <3>3. /\ \A k \in nodes : ReverseIterator[Cardinality(Before("left", k))] = k
          /\ ReverseIterator[Cardinality(nodes)] = Nil
      BY <2>1, <3>1, VisitsAll DEF ReverseIterator
    <3>4. nodes \subseteq Int
      BY <2>1, TreeAssumption DEF Shape
    <3>5. \A k \in nodes : /\ Before("right", k) = {x \in nodes : x < k}
                           /\ Before("left", k) = {x \in nodes : x > k}
      BY <3>4 DEF Before, Other, OnSide
    <3> QED
      BY <2>2, <3>2, <3>3, <3>5
  <2> QED
    BY <2>2, <2>3
<1> QED
  BY <1>1, TreeInvariant, PTL

-----------------------------------------------------------------------------
(* The loops end *)

(* One step up leaves exactly one node behind. *)
LEMMA AboveOne ==
    ASSUME NEW t, NEW N, NEW D, Shape(t, N, D), NEW x \in N
    PROVE  Cardinality(Above(N, D, x)) = Cardinality(Above(N, D, t.parent[x])) + 1
<1>1. N \subseteq Key /\ Nil \notin Key /\ D[t.root] = N /\ x \in Key
  BY TreeAssumption DEF Shape
<1>2. PICK A, B : A = Above(N, D, x) /\ B = Above(N, D, t.parent[x])
  OBVIOUS
<1>3. x \in A /\ x \notin B /\ B \subseteq A
  BY <1>2, AboveFacts
<1>4. ASSUME NEW z \in A, z # x
      PROVE  z \in B
  <2>1. z \in N /\ z \in Key /\ x \in D[z]
    BY <1>1, <1>2 DEF Above
  <2>2. t.parent[x] \in D[z]
    BY <1>4, <2>1, ParentBelow
  <2> QED
    BY <1>2, <2>1, <2>2 DEF Above
<1>5. A = B \cup {x}
  BY <1>3, <1>4
<1>6. IsFiniteSet(B)
  <2>1. B \subseteq Key /\ IsFiniteSet(Key)
    BY <1>1, <1>2, TreeAssumption DEF Above
  <2> QED
    BY <2>1, FS_Subset
<1>7. Cardinality(B \cup {x}) = Cardinality(B) + 1
  BY <1>3, <1>6, FS_AddElement
<1> QED
  BY <1>2, <1>5, <1>7

(* The depth of a node is the number of nodes above it. *)
LEMMA DepthIs ==
    ASSUME NEW D, Shape(tree, nodes, D), NEW n, tree.parent[n] \in nodes \cup {Nil}
    PROVE  Depth(n) = Cardinality(Above(nodes, D, tree.parent[n]))
<1> DEFINE W(x) == Cardinality(Above(nodes, D, x))
           K == W(tree.parent[n])
           S == {u \in (nodes \cup {Nil}) \X Nat : W(u[1]) + u[2] = K}
           E(u) == IF u[1] = Nil THEN u ELSE <<tree.parent[u[1]], u[2] + 1>>
           G == [u \in S |-> E(u)]
           R == [u \in S |-> W(u[1])]
           a == <<tree.parent[n], 0>>
           up == CHOOSE f : f = [i \in Steps |->
                    IF i = 0 THEN <<tree.parent[n], 0>>
                    ELSE IF f[i - 1][1] = Nil THEN f[i - 1]
                    ELSE <<tree.parent[f[i - 1][1]], f[i - 1][2] + 1>>]
           C == Cardinality(Key)
<1>1. nodes \subseteq Key /\ Nil \notin Key
  BY TreeAssumption DEF Shape
<1>2. C \in Nat /\ Steps = 0 .. C
  BY StepsFacts
<1>3. /\ \A x \in nodes \cup {Nil} : W(x) \in Nat /\ W(x) <= C /\ (W(x) = 0 <=> x = Nil)
      /\ \A x \in nodes : tree.parent[x] \in nodes \cup {Nil}
  BY AboveFacts
<1>4. \A x \in nodes : W(x) = W(tree.parent[x]) + 1
  BY AboveOne
<1>5. Depth(n) = up[C][2]
  BY Zenon DEF Depth
<1> HIDE DEF W, C
<1>6. a \in S
  BY <1>3
<1>7. \A u \in S : u[1] \in nodes \cup {Nil} /\ u[2] \in Nat /\ W(u[1]) + u[2] = K
  OBVIOUS
<1>8. \A x \in nodes \cup {Nil}, c \in Nat : W(x) + c = K => <<x, c>> \in S
  OBVIOUS
<1>9. \A u : (u[1] = Nil => E(u) = u) /\ (u[1] # Nil => E(u) = <<tree.parent[u[1]], u[2] + 1>>)
  OBVIOUS
<1>10. \A u \in S : G[u] = E(u) /\ R[u] = W(u[1])
  OBVIOUS
<1> HIDE DEF S, K
<1>11. ASSUME NEW u \in S
       PROVE  E(u) \in S /\ ((W(u[1]) = 0 /\ W(E(u)[1]) = 0) \/ W(E(u)[1]) < W(u[1]))
  <2>1. CASE u[1] = Nil
    BY <1>3, <1>9, <2>1
  <2>2. CASE u[1] # Nil
    <3>1. PICK x \in nodes : x = u[1]
      BY <1>7, <2>2
    <3>2. PICK c \in Nat : c = u[2]
      BY <1>7
    <3>3. PICK y \in nodes \cup {Nil} : y = tree.parent[x]
      BY <1>3
    <3>4. PICK q \in Nat, r \in Nat : q = W(x) /\ r = W(y) /\ q = r + 1
      BY <1>3, <1>4, <3>3
    <3>5. q + c = K
      BY <1>7, <3>1, <3>2, <3>4
    <3>6. r + (c + 1) = K /\ c + 1 \in Nat /\ r < q
      BY <3>4, <3>5
    <3>7. <<y, c + 1>> \in S
      BY <1>8, <3>4, <3>6
    <3>8. E(u) = <<y, c + 1>>
      BY <1>9, <2>2, <3>1, <3>2, <3>3
    <3> QED
      BY <3>1, <3>4, <3>6, <3>7, <3>8
  <2> QED
    BY <2>1, <2>2
<1>12. G \in [S -> S]
  BY <1>11
<1>13. R \in [S -> Nat] /\ R[a] <= C /\ \A u \in S : R[u] = 0 <=> u[1] = Nil
  <2>1. \A u \in S : R[u] \in Nat /\ R[u] <= C /\ (R[u] = 0 <=> u[1] = Nil)
    BY <1>3, <1>7, <1>10
  <2> QED
    BY <1>6, <2>1
<1>14. \A u \in S : (R[u] = 0 /\ R[G[u]] = 0) \/ R[G[u]] < R[u]
  <2> HIDE DEF E, G, R
  <2> QED
    BY <1>10, <1>11
<1> HIDE DEF R, G
<1>15. \E f : f = [i \in Steps |->
                    IF i = 0 THEN <<tree.parent[n], 0>>
                    ELSE IF f[i - 1][1] = Nil THEN f[i - 1]
                    ELSE <<tree.parent[f[i - 1][1]], f[i - 1][2] + 1>>]
  <2> HIDE DEF a
  <2>1. PICK f : f \in [0 .. C -> S] /\ Iterates(C, S, a, G, f)
    BY <1>2, <1>6, <1>12, IterateExists
  <2>2. f[0] = a /\ \A i \in 1 .. C : f[i] = E(f[i - 1])
    <3>1. \A i \in 1 .. C : i - 1 \in 0 .. C
      BY <1>2
    <3> HIDE DEF E
    <3> QED
      BY <1>10, <2>1, <3>1 DEF Iterates
  <2>3. \A i \in 0 .. C : f[i] = IF i = 0 THEN a ELSE E(f[i - 1])
    <3> HIDE DEF E
    <3> QED
      BY <1>2, <2>2
  <2>4. f = [i \in 0 .. C |-> IF i = 0 THEN a ELSE E(f[i - 1])]
    <3> HIDE DEF E
    <3> QED
      BY <2>1, <2>3
  <2> QED
    BY <1>2, <2>4 DEF a
<1>16. up = [i \in Steps |->
                    IF i = 0 THEN <<tree.parent[n], 0>>
                    ELSE IF up[i - 1][1] = Nil THEN up[i - 1]
                    ELSE <<tree.parent[up[i - 1][1]], up[i - 1][2] + 1>>]
  BY <1>15, Zenon
<1> HIDE DEF up
<1>17. up[0] = a /\ \A i \in 1 .. C : up[i] = E(up[i - 1])
  <2>1. up = [i \in 0 .. C |-> IF i = 0 THEN a ELSE E(up[i - 1])]
    BY <1>2, <1>16
  <2> HIDE DEF E, a
  <2> QED
    BY <1>2, <2>1
<1> HIDE DEF E, a
<1>18. Iterates(C, S, a, G, up)
  <2>1. up[0] = a /\ \A i \in 1 .. C : up[i - 1] \in S => up[i] = G[up[i - 1]]
    BY <1>10, <1>17
  <2> QED
    BY <1>2, <1>6, <1>12, <2>1, IterateStays
<1>19. R[up[C]] = 0
  BY <1>2, <1>6, <1>12, <1>13, <1>14, <1>18, IterateEnds
<1>20. PICK u \in S : u = up[C] /\ u[1] = Nil
  BY <1>2, <1>13, <1>18, <1>19 DEF Iterates
<1>21. W(Nil) + u[2] = K /\ W(Nil) = 0 /\ u[2] \in Nat
  BY <1>3, <1>7, <1>20
<1>22. u[2] = K
  BY <1>21
<1> QED
  BY <1>5, <1>20, <1>22 DEF K, W

(* The number of nodes above n. *)
Height(N, D, t, n) == Cardinality(Above(N, D, t.parent[n]))

(* After a rotation rebalance_insert finds a black parent. *)
LEMMA LiftEnds ==
    ASSUME NEW t, NEW N, NEW D, Shape(t, N, D), NEW n, Inserting(t, N, n), NEW d \in Dir,
           NEW p \in N, NEW g \in N, t.parent[n] = p, t.parent[p] = g,
           t.child[d][p] = n, t.child[d][g] = p, NEW u, u = LiftParent(t, n, d)
    PROVE  u.black[u.parent[n]]
<1>1. t \in TreeRecord /\ N \subseteq Key /\ Node = Key \cup {Nil} /\ Nil \notin Key
  BY TreeTypes DEF Shape
<1>2. PICK o \in Dir : o = Other(d) /\ o # d /\ Other(o) = d
  BY SideFacts
<1>3. n \in N /\ n \in Key /\ p \in Key /\ g \in Key /\ p # Nil /\ n \in Node
  BY <1>1 DEF Inserting
<1>4. PICK m : m = t.child[o][p]
  OBVIOUS
<1>5. p = t.child[Other(o)][g] /\ m = t.child[o][p] /\ p # g /\ m # n
  <2>1. g \notin D[t.child[d][g]] /\ p \in D[p]
    BY <1>3, Children
  <2>2. m # n
    BY <1>2, <1>3, <1>4, OnlySlot
  <2> QED
    BY <1>2, <1>4, <2>1, <2>2
<1>6. n # p /\ n # g
  <2>1. p \notin D[t.child[d][p]] /\ n \in D[n] /\ D[n] \subseteq D[p] /\ D[p] = D[t.child[d][g]]
    BY <1>3, Children
  <2>2. g \notin D[t.child[d][g]]
    BY <1>3, Children
  <2> QED
    BY <2>1, <2>2
<1>7. PICK q : q = Paint(Paint(t, p, TRUE), g, FALSE)
  OBVIOUS
<1>8. TwoPainted(t, q, p, TRUE, g, FALSE)
  BY <1>1, <1>3, <1>5, <1>7, PaintBlackRed
<1>9. q \in TreeRecord /\ q.root = t.root /\ q.child = t.child /\ q.parent = t.parent /\ q.black[p] = TRUE
  BY <1>8 DEF TwoPainted, Repainted
<1>10. u = Rotate(q, g, o)
  BY <1>2, <1>7 DEF LiftParent
<1>11. Rotated(t, u, g, p, m, o) /\ u.black = q.black
  BY <1>2, <1>3, <1>5, <1>9, <1>10, RotateRepainted
<1>12. u.parent[n] = t.parent[n]
  BY <1>3, <1>5, <1>6, <1>11 DEF Rotated
<1> QED
  BY <1>9, <1>11, <1>12

(* An iteration of rebalance_insert goes up, or it is the last one. *)
LEMMA InsertClimbs ==
    ASSUME Inserting(tree, nodes, cur), NEW D, Shape(tree, nodes, D), RebalanceInsert
    PROVE  \/ /\ Shape(tree', nodes, D) /\ tree'.parent[cur'] \in nodes \cup {Nil}
              /\ Height(nodes, D, tree', cur') < Height(nodes, D, tree, cur)
           \/ tree'.black[tree'.parent[cur']]
<1>1. PICK t, n, u : t = tree /\ n = cur /\ u = tree'
  OBVIOUS
<1>2. PICK p : p = t.parent[n]
  OBVIOUS
<1>3. PICK g : g = t.parent[p]
  OBVIOUS
<1>4. PICK d : d = IF p = t.child["right"][g] THEN "right" ELSE "left"
  OBVIOUS
<1>5. PICK w : w = t.child[Other(d)][g]
  OBVIOUS
<1>6. /\ n # t.root /\ ~t.black[p]
      /\ ~t.black[w] => u = Paint(Paint(Paint(t, w, TRUE), p, TRUE), g, FALSE) /\ cur' = g
      /\ t.black[w] /\ n = t.child[Other(d)][p] => u = LiftParent(Rotate(t, p, d), p, d) /\ cur' = p
      /\ t.black[w] /\ n # t.child[Other(d)][p] => u = LiftParent(t, n, d) /\ cur' = n
  BY <1>1, <1>2, <1>3, <1>4, <1>5 DEF RebalanceInsert
<1>7. Inserting(t, nodes, n) /\ Shape(t, nodes, D)
  BY <1>1
<1>8. /\ d \in Dir /\ p \in nodes /\ g \in nodes /\ t.child[d][g] = p /\ t.black[g]
      /\ t.child[d][p] = n \/ t.child[Other(d)][p] = n
      /\ n \in nodes /\ n # p /\ n # g /\ p # g
  <2>1. n # t.root /\ ~t.black[p]
    BY <1>6
  <2>2. InsertAt(t, n, p, g, d)
    BY <1>2, <1>3, <1>4 DEF InsertAt
  <2> QED
    BY <1>7, <2>1, <2>2, InsertAround
<1>9. CASE ~t.black[w]
  <2>1. t \in TreeRecord /\ nodes \subseteq Key /\ Other(d) \in Dir /\ Nil \notin Key
    BY <1>7, <1>8, SideFacts, TreeAssumption DEF Shape
  <2>2. w \in Node /\ p \in Node /\ g \in Node
    BY <1>5, <1>8, <2>1, TreeTypes DEF Node
  <2>3. PICK b \in BOOLEAN, e \in BOOLEAN : b = TRUE /\ e = FALSE
    OBVIOUS
  <2>4. PICK x : x = Paint(t, w, b)
    OBVIOUS
  <2>5. PICK y : y = Paint(x, p, b)
    OBVIOUS
  <2>6. u = Paint(y, g, e)
    BY <1>6, <1>9, <2>3, <2>4, <2>5
  <2>7. Repainted(t, x)
    BY <2>1, <2>2, <2>4, PaintFacts DEF Painted
  <2>8. Repainted(x, y)
    <3>1. x \in TreeRecord
      BY <2>7 DEF Repainted
    <3> QED
      BY <2>2, <2>5, <3>1, PaintFacts DEF Painted
  <2>9. Repainted(y, u)
    <3>1. y \in TreeRecord
      BY <2>8 DEF Repainted
    <3> QED
      BY <2>2, <2>6, <3>1, PaintFacts DEF Painted
  <2>10. u \in TreeRecord /\ u.root = t.root /\ u.child = t.child /\ u.parent = t.parent
    BY <2>7, <2>8, <2>9 DEF Repainted
  <2>11. Shape(u, nodes, D)
    BY <1>7, <2>10, SameLinks
  <2>12. /\ t.parent[g] \in nodes \cup {Nil} /\ p # Nil /\ g # Nil
         /\ \A k \in nodes : /\ Cardinality(Above(nodes, D, k)) \in Nat
                             /\ Cardinality(Above(nodes, D, t.parent[k])) \in Nat
                             /\ Cardinality(Above(nodes, D, t.parent[k])) < Cardinality(Above(nodes, D, k))
    <3>1. \A k \in nodes : k # Nil /\ t.parent[k] \in nodes \cup {Nil}
      BY <1>7, <2>1, AboveFacts
    <3>2. \A k \in nodes \cup {Nil} :
                /\ Cardinality(Above(nodes, D, k)) \in Nat
                /\ k # Nil => Cardinality(Above(nodes, D, t.parent[k])) < Cardinality(Above(nodes, D, k))
      BY <1>7, AboveFacts
    <3> QED
      BY <1>8, <3>1, <3>2
  <2>13. PICK h \in Nat, i \in Nat, j \in Nat :
            /\ h = Cardinality(Above(nodes, D, t.parent[g])) /\ i = Cardinality(Above(nodes, D, g))
            /\ j = Cardinality(Above(nodes, D, p)) /\ h < i /\ i < j
    BY <1>3, <1>8, <2>12
  <2>14. cur' = g
    BY <1>6, <1>9
  <2>15. Height(nodes, D, u, g) = h /\ Height(nodes, D, t, n) = j
    BY <1>2, <2>10, <2>13 DEF Height
  <2>16. h < j
    BY <2>13
  <2> QED
    BY <1>1, <2>10, <2>11, <2>12, <2>14, <2>15, <2>16
<1>10. CASE t.black[w] /\ n # t.child[Other(d)][p]
  <2>1. t.child[d][p] = n /\ u = LiftParent(t, n, d)
    BY <1>6, <1>8, <1>10
  <2>2. u.black[u.parent[n]]
    BY <1>2, <1>3, <1>7, <1>8, <2>1, LiftEnds
  <2> QED
    BY <1>1, <1>6, <1>10, <2>2
<1>11. CASE t.black[w] /\ n = t.child[Other(d)][p]
  <2>1. PICK s : s = Rotate(t, p, d)
    OBVIOUS
  <2>2. /\ \E E : Shape(s, nodes, E)
        /\ Inserting(s, nodes, p) /\ s.parent[p] = n /\ s.parent[n] = g
        /\ s.child[d][n] = p /\ s.child[d][g] = n
    <3>1. /\ t.parent[n] = p /\ t.parent[p] = g /\ t.child[Other(d)][p] = n
          /\ t.black[t.child[Other(d)][g]] /\ ~t.black[p]
      BY <1>2, <1>3, <1>5, <1>6, <1>11
    <3> QED
      BY <1>7, <1>8, <2>1, <3>1, StraightenStep
  <2>3. u = LiftParent(s, p, d)
    BY <1>6, <1>11, <2>1
  <2>4. u.black[u.parent[p]]
    BY <1>8, <2>2, <2>3, LiftEnds
  <2> QED
    BY <1>1, <1>6, <1>11, <2>4
<1> QED
  BY <1>9, <1>10, <1>11

(* An iteration of rebalance_delete goes up, or it is the last one: after a *)
(* red sibling has been rotated away the node the loop goes up to is red.   *)
LEMMA DeleteClimbs ==
    ASSUME Deleting(tree, nodes, cur), NEW D, Shape(tree, nodes, D), RebalanceDelete
    PROVE  \/ /\ Shape(tree', nodes, D) /\ tree'.parent[cur'] \in nodes \cup {Nil}
              /\ tree.parent[cur] \in nodes
              /\ Height(nodes, D, tree', cur') < Height(nodes, D, tree, cur)
           \/ cur' = tree'.root
           \/ ~tree'.black[cur']
<1>1. PICK t, n : t = tree /\ n = cur
  OBVIOUS
<1>2. PICK p : p = t.parent[n]
  OBVIOUS
<1>3. PICK d : d = IF n = t.child["left"][p] THEN "left" ELSE "right"
  OBVIOUS
<1>4. PICK s : s = BlackSibling(t, p, d)
  OBVIOUS
<1>5. PICK v : v = s.child[Other(d)][p]
  OBVIOUS
<1>6. PICK l : l = LiftSibling(RedOuter(s, v, d), p, d)
  OBVIOUS
<1>7. /\ n # t.root /\ t.black[n]
      /\ s.black[s.child["left"][v]] /\ s.black[s.child["right"][v]] =>
            tree' = Paint(s, v, FALSE) /\ cur' = p
      /\ ~(s.black[s.child["left"][v]] /\ s.black[s.child["right"][v]]) =>
            tree' = l /\ cur' = l.root
  BY <1>1, <1>2, <1>3, <1>4, <1>5, <1>6 DEF RebalanceDelete, AfterRotation
<1>8. d \in Dir /\ ShortAt(t, nodes, p, d)
  BY <1>1, <1>2, <1>3, <1>7, DeleteAround
<1>9. p \in nodes /\ t.child[Other(d)][p] \in nodes /\ Shape(t, nodes, D)
  BY <1>1, <1>8 DEF ShortAt
<1>10. t \in TreeRecord /\ nodes \subseteq Key /\ Node = Key \cup {Nil} /\ Nil \notin Key
  BY <1>9, TreeTypes DEF Shape
<1>11. CASE ~(s.black[s.child["left"][v]] /\ s.black[s.child["right"][v]])
  BY <1>7, <1>11
<1>12. CASE s.black[s.child["left"][v]] /\ s.black[s.child["right"][v]]
  <2>1. tree' = Paint(s, v, FALSE) /\ cur' = p
    BY <1>7, <1>12
  <2>6. PICK b \in BOOLEAN : b = FALSE
    OBVIOUS
  <2>2. PICK u : u = Paint(s, v, b)
    OBVIOUS
  <2>3. PICK w \in nodes : w = t.child[Other(d)][p]
    BY <1>9
  <2>4. CASE t.black[w]
    <3>1. s = t
      BY <1>4, <2>3, <2>4 DEF BlackSibling
    <3>2. v \in Node
      BY <1>5, <1>10, <2>3, <3>1
    <3>3. Repainted(t, u)
      BY <1>10, <2>2, <3>1, <3>2, PaintFacts DEF Painted
    <3>4. u \in TreeRecord /\ u.root = t.root /\ u.child = t.child /\ u.parent = t.parent
      BY <3>3 DEF Repainted
    <3>5. Shape(u, nodes, D)
      BY <1>9, <3>4, SameLinks
    <3>6. t.parent[p] \in nodes \cup {Nil}
      BY <1>9, AboveFacts
    <3>7. Cardinality(Above(nodes, D, t.parent[p])) < Cardinality(Above(nodes, D, p))
      BY <1>9, <1>10, AboveFacts
    <3>8. Height(nodes, D, u, p) < Height(nodes, D, t, n)
      BY <1>2, <3>4, <3>7 DEF Height
    <3>9. u = tree'
      BY <2>1, <2>2, <2>6
    <3> QED
      BY <1>1, <1>2, <1>9, <2>1, <3>4, <3>5, <3>6, <3>8, <3>9
  <2>5. CASE ~t.black[w]
    <3>1. PICK m : m = t.child[d][w]
      OBVIOUS
    <3>2. w # Nil /\ p # w /\ p \in Node /\ w \in Node
      BY <1>8, <1>9, <1>10, <2>3, <3>1, RotateNodes
    <3>3. PICK q : q = Paint(Paint(t, w, TRUE), p, FALSE)
      OBVIOUS
    <3>4. TwoPainted(t, q, w, TRUE, p, FALSE)
      BY <1>10, <3>2, <3>3, PaintBlackRed
    <3>5. s = Rotate(q, p, d)
      BY <1>4, <2>3, <2>5, <3>3 DEF BlackSibling
    <3>6. q \in TreeRecord /\ q.root = t.root /\ q.child = t.child /\ q.parent = t.parent /\ q.black[p] = FALSE
      BY <3>4 DEF TwoPainted, Repainted
    <3>7. s \in TreeRecord /\ Rotated(t, s, p, w, m, d) /\ s.black = q.black
      BY <1>8, <1>9, <2>3, <3>1, <3>2, <3>5, <3>6, RotateRepainted
    <3>8. v = m /\ m # p /\ m \in Node
      <4>1. m # p /\ m \in Node
        BY <1>8, <1>9, <2>3, <3>1, <3>2, RotateNodes
      <4> QED
        BY <1>5, <3>7, <4>1 DEF Rotated
    <3>9. Painted(s, u, v, b)
      BY <2>2, <3>7, <3>8, PaintFacts
    <3>10. u.black[p] = FALSE
      BY <3>2, <3>6, <3>7, <3>8, <3>9 DEF Painted
    <3> QED
      BY <2>1, <2>2, <2>6, <3>10
  <2> QED
    BY <2>4, <2>5
<1> QED
  BY <1>11, <1>12

(* What Depth counts for the node of the loop. *)
DepthRight ==
    \A D : Shape(tree, nodes, D) /\ tree.parent[cur] \in nodes \cup {Nil} =>
                Depth(cur) = Height(nodes, D, tree, cur)

LEMMA DepthCounts == DepthRight
  BY DepthIs DEF DepthRight, Height

(* The condition of LoopsClimb for one step. *)
Climbs ==
    pc # "idle" /\ pc' = pc =>
        \/ Depth(cur)' < Depth(cur)
        \/ pc = "insert" /\ (cur = tree.root \/ tree.black[tree.parent[cur]])'
        \/ pc = "delete" /\ (cur = tree.root \/ ~tree.black[cur])'

LEMMA ClimbStep ==
    Inv /\ [Next]_vars => [Climbs]_vars
<1> SUFFICES ASSUME Inv, Next, pc # "idle", pc' = pc
             PROVE  \/ Depth(cur)' < Depth(cur)
                    \/ pc = "insert" /\ (cur = tree.root \/ tree.black[tree.parent[cur]])'
                    \/ pc = "delete" /\ (cur = tree.root \/ ~tree.black[cur])'
  BY DEF Climbs
<1>1. RebalanceInsert \/ RebalanceDelete
  BY DEF Next, InsertEqual, InsertNode, Remove, Clear, Rebalance, RebalanceInsertDone, RebalanceDeleteDone
<1>2. PICK D : Shape(tree, nodes, D)
  BY DEF Inv, TreeInv
<1>3. nodes' = nodes
  BY <1>1 DEF RebalanceInsert, RebalanceDelete
<1>4. DepthRight /\ DepthRight'
  BY DepthCounts, PTL
<1>5. tree.parent[cur] \in nodes \cup {Nil} => Depth(cur) = Height(nodes, D, tree, cur)
  BY <1>2, <1>4 DEF DepthRight
<1>6. Shape(tree', nodes, D) /\ tree'.parent[cur'] \in nodes \cup {Nil} =>
            Depth(cur)' = Height(nodes, D, tree', cur')
  BY <1>3, <1>4 DEF DepthRight
<1>7. CASE RebalanceInsert
  <2>1. pc = "insert" /\ Inserting(tree, nodes, cur) /\ cur \in nodes
    BY <1>7 DEF RebalanceInsert, Inv, ColourInv, Inserting
  <2>2. tree.parent[cur] \in nodes \cup {Nil}
    BY <1>2, <2>1, AboveFacts
  <2>3. \/ /\ Shape(tree', nodes, D) /\ tree'.parent[cur'] \in nodes \cup {Nil}
           /\ Height(nodes, D, tree', cur') < Height(nodes, D, tree, cur)
        \/ tree'.black[tree'.parent[cur']]
    BY <1>2, <1>7, <2>1, InsertClimbs
  <2> QED
    BY <1>5, <1>6, <2>1, <2>2, <2>3
<1>8. CASE RebalanceDelete
  <2>1. pc = "delete" /\ Deleting(tree, nodes, cur)
    BY <1>8 DEF RebalanceDelete, Inv, ColourInv
  <2>2. \/ /\ Shape(tree', nodes, D) /\ tree'.parent[cur'] \in nodes \cup {Nil}
           /\ tree.parent[cur] \in nodes
           /\ Height(nodes, D, tree', cur') < Height(nodes, D, tree, cur)
        \/ cur' = tree'.root
        \/ ~tree'.black[cur']
    BY <1>2, <1>8, <2>1, DeleteClimbs
  <2> QED
    BY <1>5, <1>6, <2>1, <2>2
<1> QED
  BY <1>1, <1>7, <1>8

(* Every iteration of rebalance_insert and of rebalance_delete brings its   *)
(* node nearer to the root or is the last one: no call runs for ever.       *)
THEOREM TreeLoopsClimb ==
    Spec => LoopsClimb
<1>1. Inv /\ [Next]_vars => [Climbs]_vars
  BY ClimbStep
<1> QED
  BY <1>1, TreeInvariant, PTL DEF Spec, LoopsClimb, Climbs
=============================================================================
