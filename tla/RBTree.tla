------------------------------- MODULE RBTree -------------------------------
(***************************************************************************)
(* The red-black tree of rbtree.hpp, pointer by pointer: what the order    *)
(* book keeps its levels, stop orders and dated orders in.  A node is named *)
(* by its key (remove unlinks nodes, it never moves keys); a pointer to a  *)
(* node that has been deleted keeps the key's name.  The loops of          *)
(* rebalance_insert and rebalance_delete take one step per iteration; the  *)
(* mirrored halves of the code are one definition with a direction.        *)
(***************************************************************************)
EXTENDS Integers, FiniteSetsExt

CONSTANTS
    Key,      \* the keys, in the order of the comparator
    Value,    \* what may be stored under a key
    Rewritten,\* keys that are inserted with every value; the others have one
    Nil       \* the sentinel _nil

ASSUME TreeAssumption ==
    /\ Key \subseteq Int /\ IsFiniteSet(Key) /\ Nil \notin Key
    /\ Rewritten \subseteq Key /\ Value # {}

VARIABLES
    nodes,    \* the nodes allocated
    value,    \* node -> value
    tree,     \* _root and the links and colours of the nodes and of _nil
    first,    \* _first
    last,     \* _last
    size,     \* _size
    pc,       \* "idle", or the rebalancing loop under way
    cur       \* its variable node

vars == <<nodes, value, tree, first, last, size, pc, cur>>

Node == Key \cup {Nil}
Dir  == {"left", "right"}
Other(d) == IF d = "left" THEN "right" ELSE "left"

FirstValue  == CHOOSE v \in Value : TRUE
ValuesOf(k) == IF k \in Rewritten THEN Value ELSE {FirstValue}

Init ==
    /\ nodes = {}
    /\ value = [k \in Key |-> FirstValue]
    /\ tree = [root   |-> Nil,
               child  |-> [d \in Dir |-> [k \in Key |-> Nil]],
               parent |-> [n \in Node |-> Nil],
               black  |-> [n \in Node |-> TRUE]]
    /\ first = Nil
    /\ last = Nil
    /\ size = 0
    /\ pc = "idle"
    /\ cur = Nil

-----------------------------------------------------------------------------
(* Walks.  Steps bounds their length: no path is longer than the keys are many. *)

Steps == 0 .. Cardinality(Key)

Toward(k, n) == IF k < n THEN "left" ELSE "right"

(* search_tree: k's node, or _nil. *)
SearchTree(k) ==
    LET at[n \in Node] == IF n \in {Nil, k} THEN n ELSE at[tree.child[Toward(k, n)][n]]
    IN at[tree.root]

(* The node insert hangs a new k under. *)
LastOnPath(k) ==
    LET above[n \in Key] ==
            LET c == tree.child[Toward(k, n)][n] IN IF c = Nil THEN n ELSE above[c]
    IN IF tree.root = Nil THEN Nil ELSE above[tree.root]

(* most_left, most_right *)
Most(d, n) ==
    LET f[m \in Key] == IF tree.child[d][m] = Nil THEN m ELSE f[tree.child[d][m]]
    IN f[n]

(* successor (d = "right") and predecessor (d = "left") *)
Neighbour(d, n) ==
    LET climb[i \in Steps] ==
            IF i = 0 THEN <<n, tree.parent[n]>>
            ELSE LET c == climb[i - 1]
                     a == c[2]
                 IN IF a # Nil /\ c[1] = tree.child[d][a] THEN <<a, tree.parent[a]>> ELSE c
    IN IF tree.child[d][n] # Nil THEN Most(Other(d), tree.child[d][n])
       ELSE climb[Cardinality(Key)][2]

(* The nodes an iterator that starts at n stands on until it is not valid. *)
Visits(d, n) ==
    LET f[i \in Steps] ==
            IF i = 0 THEN n ELSE IF f[i - 1] = Nil THEN Nil ELSE Neighbour(d, f[i - 1])
    IN f

(* begin and rbegin, and the iterators they give. *)
ForwardIterator == Visits("right", first)
ReverseIterator == Visits("left", last)

(* lower_bound and upper_bound: the leftmost node for which up holds, _last *)
(* when there is none.                                                      *)
Bound(up(_)) ==
    LET f[i \in Steps] ==
            IF i = 0 THEN <<last, tree.root>>
            ELSE LET b == f[i - 1]
                     n == b[2]
                 IN IF n = Nil THEN b
                    ELSE IF up(n) THEN <<n, tree.child["left"][n]>>
                    ELSE <<b[1], tree.child["right"][n]>>
    IN f[Cardinality(Key)][1]

(* Mutant of LowerBound: an equal key is passed over. *)
LowerBoundStrict(from) == Bound(LAMBDA n : from < n)

LowerBound(from) == Bound(LAMBDA n : ~(n < from))
UpperBound(to)   == Bound(LAMBDA n : to < n)

-----------------------------------------------------------------------------
(* Surgery on the links of t *)

Paint(t, n, b)        == [t EXCEPT !.black[n] = b]
WithRoot(t, n)        == [t EXCEPT !.root = n]
WithChild(t, d, n, c) == [t EXCEPT !.child[d][n] = c]
WithParent(t, n, p)   == [t EXCEPT !.parent[n] = p]

(* n as a node without children under p. *)
Leaf(t, n, p, b) ==
    Paint(WithParent(WithChild(WithChild(t, "left", n, Nil), "right", n, Nil), n, p), n, b)

(* What hung n from its parent now hangs v there. *)
Rehang(t, n, v) ==
    LET p == t.parent[n] IN
    IF p = Nil THEN WithRoot(t, v)
    ELSE WithChild(t, IF t.child["left"][p] = n THEN "left" ELSE "right", p, v)

(* m, when it is a node, gets the parent n. *)
Adopt(t, m, n) == IF m = Nil THEN t ELSE WithParent(t, m, n)

(* Mutant of Rotate: the subtree that changes sides keeps its old parent. *)
RotateOrphan(t, n, d) ==
    LET c == t.child[Other(d)][n]
        m == t.child[d][c]
        u == Rehang(WithParent(WithChild(t, Other(d), n, m), c, t.parent[n]), n, c)
    IN WithParent(WithChild(u, d, c, n), n, c)

(* Mutant of Rotate: the subtree that changes sides is dropped. *)
RotateDrops(t, n, d) ==
    LET c == t.child[Other(d)][n]
        u == Rehang(WithParent(WithChild(t, Other(d), n, Nil), c, t.parent[n]), n, c)
    IN WithParent(WithChild(u, d, c, n), n, c)

(* rotate_left (d = "left") and rotate_right (d = "right") around n *)
Rotate(t, n, d) ==
    LET c == t.child[Other(d)][n]
        m == t.child[d][c]
        s == WithParent(WithChild(t, Other(d), n, m), c, t.parent[n])
        u == Rehang(Adopt(s, m, n), n, c)
    IN WithParent(WithChild(u, d, c, n), n, c)

(* transplant *)
Transplant(t, u, v) == WithParent(Rehang(t, u, v), v, t.parent[u])

-----------------------------------------------------------------------------
(* insert *)

(* An equal key: its value is replaced. *)
InsertEqual(k, v) ==
    /\ pc = "idle"
    /\ SearchTree(k) = k
    /\ value' = [value EXCEPT ![k] = v]
    /\ UNCHANGED <<nodes, tree, first, last, size, pc, cur>>

(* _first and _last after the new node has been linked in t. *)
FirstAfter(t, f) == IF t.child["left"][f] # Nil THEN t.child["left"][f] ELSE f
LastAfter(t, l)  == IF t.child["right"][l] # Nil THEN t.child["right"][l] ELSE l

InsertNode(k, v) ==
    LET p == LastOnPath(k)
        s == Leaf(tree, k, p, FALSE)
        t == IF p = Nil THEN WithRoot(s, k) ELSE WithChild(s, Toward(k, p), p, k)
    IN
    /\ pc = "idle"
    /\ SearchTree(k) = Nil
    /\ nodes' = nodes \cup {k}
    /\ value' = [value EXCEPT ![k] = v]
    /\ tree' = t
    /\ first' = FirstAfter(t, IF p = Nil THEN k ELSE first)
    /\ last' = LastAfter(t, IF p = Nil THEN k ELSE last)
    /\ pc' = "insert"
    /\ cur' = k
    /\ UNCHANGED size

(* The parent of n takes the place and the colour of n's grandparent. *)
LiftParent(t, n, d) ==
    LET p == t.parent[n]
        g == t.parent[p]
    IN Rotate(Paint(Paint(t, p, TRUE), g, FALSE), g, Other(d))

(* One iteration of rebalance_insert. *)
RebalanceInsert ==
    LET p == tree.parent[cur]
        g == tree.parent[p]
        d == IF p = tree.child["right"][g] THEN "right" ELSE "left"
        u == tree.child[Other(d)][g]
        inner == cur = tree.child[Other(d)][p]
        n == IF inner THEN p ELSE cur
    IN
    /\ pc = "insert"
    /\ cur # tree.root /\ ~tree.black[p]
    /\ IF ~tree.black[u]
       THEN /\ tree' = Paint(Paint(Paint(tree, u, TRUE), p, TRUE), g, FALSE)
            /\ cur' = g
       ELSE /\ tree' = LiftParent(IF inner THEN Rotate(tree, p, d) ELSE tree, n, d)
            /\ cur' = n
    /\ UNCHANGED <<nodes, value, first, last, size, pc>>

RebalanceInsertDone ==
    /\ pc = "insert"
    /\ cur = tree.root \/ tree.black[tree.parent[cur]]
    /\ tree' = Paint(tree, tree.root, TRUE)
    /\ size' = size + 1
    /\ pc' = "idle"
    /\ cur' = Nil
    /\ UNCHANGED <<nodes, value, first, last>>

-----------------------------------------------------------------------------
(* remove *)

(* c becomes the child of n, and n the parent of c. *)
Attach(t, d, n, c) == WithParent(WithChild(t, d, n, c), c, n)

(* Mutant of SpliceOut: the node that takes k's place keeps its own colour. *)
SpliceOutOwnColour(k, y) ==
    LET fix == tree.child["right"][y]
        a == Transplant(tree, y, fix)
        s == IF tree.parent[y] = k
             THEN WithParent(tree, fix, y)
             ELSE Attach(a, "right", y, a.child["right"][k])
        b == Transplant(s, k, y)
    IN Attach(b, "left", y, b.child["left"][k])

(* The tree when y, the successor of k, takes the place of k. *)
SpliceOut(k, y) ==
    LET fix == tree.child["right"][y]
        a == Transplant(tree, y, fix)
        s == IF tree.parent[y] = k
             THEN WithParent(tree, fix, y)
             ELSE Attach(a, "right", y, a.child["right"][k])
        b == Transplant(s, k, y)
    IN Paint(Attach(b, "left", y, b.child["left"][k]), y, tree.black[k])

(* What is left of a deleted node is not looked at again. *)
Forget(t, k) == Leaf(t, k, Nil, TRUE)

(* Mutant of EndAfter: the next node is taken to be the parent. *)
EndAfterParent(k, d) == tree.parent[k]

(* Where _first (d = "right") or _last (d = "left") goes when k goes. *)
EndAfter(k, d) == IF tree.child[d][k] # Nil THEN tree.child[d][k] ELSE tree.parent[k]

Remove(k) ==
    LET l == tree.child["left"][k]
        r == tree.child["right"][k]
        y == IF l # Nil /\ r # Nil THEN Most("left", r) ELSE k
        fix == IF l = Nil THEN r ELSE IF r = Nil THEN l ELSE tree.child["right"][y]
    IN
    /\ pc = "idle"
    /\ SearchTree(k) = k
    /\ first' = IF k = first THEN EndAfter(k, "right") ELSE first
    /\ last' = IF k # first /\ k = last THEN EndAfter(k, "left") ELSE last
    /\ tree' = Forget(IF y = k THEN Transplant(tree, k, fix) ELSE SpliceOut(k, y), k)
    /\ nodes' = nodes \ {k}
    /\ value' = [value EXCEPT ![k] = FirstValue]
    /\ IF tree.black[y]
       THEN pc' = "delete" /\ cur' = fix /\ UNCHANGED size
       ELSE size' = size - 1 /\ UNCHANGED <<pc, cur>>

(* Mutant of AfterRotation: the node is not moved. *)
AfterRotationStays(t) == cur

(* The last rotation ends the loop: node = _root. *)
AfterRotation(t) == t.root

(* A red sibling w of p's d child is rotated away. *)
BlackSibling(t, p, d) ==
    LET w == t.child[Other(d)][p]
    IN IF t.black[w] THEN t ELSE Rotate(Paint(Paint(t, w, TRUE), p, FALSE), p, d)

(* The sibling v's inner child is rotated to its outer side. *)
RedOuter(t, v, d) ==
    IF t.black[t.child[Other(d)][v]]
    THEN Rotate(Paint(Paint(t, t.child[d][v], TRUE), v, FALSE), v, Other(d))
    ELSE t

(* The sibling x takes the place and the colour of p. *)
LiftSibling(t, p, d) ==
    LET x == t.child[Other(d)][p]
    IN Rotate(Paint(Paint(Paint(t, x, t.black[p]), p, TRUE), t.child[Other(d)][x], TRUE), p, d)

(* One iteration of rebalance_delete: a red sibling is rotated away first;  *)
(* then the sibling is painted red and the loop goes up, or it is rotated   *)
(* in and the loop ends.                                                    *)
RebalanceDelete ==
    LET p == tree.parent[cur]
        d == IF cur = tree.child["left"][p] THEN "left" ELSE "right"
        t == BlackSibling(tree, p, d)
        v == t.child[Other(d)][p]
        f == LiftSibling(RedOuter(t, v, d), p, d)
    IN
    /\ pc = "delete"
    /\ cur # tree.root /\ tree.black[cur]
    /\ IF t.black[t.child["left"][v]] /\ t.black[t.child["right"][v]]
       THEN tree' = Paint(t, v, FALSE) /\ cur' = p
       ELSE tree' = f /\ cur' = AfterRotation(f)
    /\ UNCHANGED <<nodes, value, first, last, size, pc>>

RebalanceDeleteDone ==
    /\ pc = "delete"
    /\ cur = tree.root \/ ~tree.black[cur]
    /\ tree' = Paint(tree, cur, TRUE)
    /\ size' = size - 1
    /\ pc' = "idle"
    /\ cur' = Nil
    /\ UNCHANGED <<nodes, value, first, last>>

(* clear: every node is deleted and the root reset, _first and _last are not. *)
Clear ==
    /\ pc = "idle"
    /\ nodes # {}
    /\ nodes' = {}
    /\ value' = [k \in Key |-> FirstValue]
    /\ tree' = [tree EXCEPT !.root = Nil,
                            !.child = [d \in Dir |-> [k \in Key |-> Nil]],
                            !.parent = [n \in Node |-> IF n = Nil THEN @[n] ELSE Nil],
                            !.black = [n \in Node |-> TRUE]]
    /\ size' = size - Cardinality(nodes)
    /\ UNCHANGED <<first, last, pc, cur>>

-----------------------------------------------------------------------------
Rebalance == RebalanceInsert \/ RebalanceInsertDone \/ RebalanceDelete \/ RebalanceDeleteDone

Next ==
    \/ \E k \in Key : \E v \in ValuesOf(k) : InsertEqual(k, v) \/ InsertNode(k, v)
    \/ \E k \in Key : Remove(k)
    \/ Clear
    \/ Rebalance

Spec == Init /\ [][Next]_vars

-----------------------------------------------------------------------------
(* Correctness *)

(* Links, colours and iterators are nodes or _nil. *)
TypeOK ==
    /\ nodes \subseteq Key
    /\ value \in [Key -> Value]
    /\ tree \in [root: Node, child: [Dir -> [Key -> Node]], parent: [Node -> Node],
                 black: [Node -> BOOLEAN]]
    /\ first \in Node /\ last \in Node
    /\ size \in Nat
    /\ pc \in {"idle", "insert", "delete"}
    /\ cur \in Node

(* The nodes below n, itself included. *)
Below(n) ==
    LET grow[i \in Steps] ==
            IF i = 0 THEN {n} \ {Nil}
            ELSE LET g == grow[i - 1]
                 IN g \cup {c \in Key : \E d \in Dir, k \in g : c = tree.child[d][k]}
    IN grow[Cardinality(Key)]

(* Between calls and inside the rebalancing loops every node is linked both *)
(* ways, the left subtree of a node holds smaller and the right one larger  *)
(* keys, and nothing that was deleted can be reached.                       *)
SearchTreeOrder ==
    /\ Below(tree.root) = nodes
    /\ tree.root # Nil => tree.parent[tree.root] = Nil
    /\ \A k \in nodes, d \in Dir :
        LET c == tree.child[d][k] IN
        /\ c # Nil => tree.parent[c] = k
        /\ \A x \in Below(c) : Toward(x, k) = d /\ x # k

(* Number of black nodes on the way from n to the root. *)
BlackDepth(n) ==
    LET up[i \in Steps] ==
            IF i = 0 THEN <<n, 0>>
            ELSE LET u == up[i - 1] IN
                 IF u[1] = Nil THEN u
                 ELSE <<tree.parent[u[1]], u[2] + (IF tree.black[u[1]] THEN 1 ELSE 0)>>
    IN up[Cardinality(Key)][2]

(* After every call the tree is balanced: black root, no red node with a    *)
(* red child, and as many black nodes above every missing child.            *)
Balanced ==
    pc = "idle" =>
        /\ tree.black[tree.root] /\ tree.black[Nil]
        /\ \A k \in nodes, d \in Dir :
            ~tree.black[k] => tree.black[tree.child[d][k]]
        /\ \A k, m \in nodes :
            /\ \E d \in Dir : tree.child[d][k] = Nil
            /\ \E d \in Dir : tree.child[d][m] = Nil
            => BlackDepth(k) = BlackDepth(m)

(* The iterators of begin and of rbegin visit every node once, in ascending *)
(* and in descending order of the keys, and then stop being valid; size     *)
(* counts the nodes.                                                        *)
IterationOrder ==
    pc = "idle" =>
        /\ size = Cardinality(nodes)
        /\ nodes # {} =>
            \A k \in nodes :
                /\ ForwardIterator[Cardinality({x \in nodes : x < k})] = k
                /\ ReverseIterator[Cardinality({x \in nodes : x > k})] = k
        /\ nodes # {} => ForwardIterator[size] = Nil /\ ReverseIterator[size] = Nil

(* lower_bound gives the first key that is not smaller, upper_bound the     *)
(* first larger one, and both the last key where there is none.             *)
BoundsRight ==
    pc = "idle" /\ nodes # {} =>
        \A k \in Key :
            LET above == {x \in nodes : x > k}
                least(S) == IF S = {} THEN Max(nodes) ELSE Min(S)
            IN LowerBound(k) = least({x \in nodes : x >= k}) /\ UpperBound(k) = least(above)

(* Number of nodes above n. *)
Depth(n) ==
    LET up[i \in Steps] ==
            IF i = 0 THEN <<tree.parent[n], 0>>
            ELSE LET u == up[i - 1] IN IF u[1] = Nil THEN u ELSE <<tree.parent[u[1]], u[2] + 1>>
    IN up[Cardinality(Key)][2]

(* Every call ends: an iteration of a rebalancing loop brings its node      *)
(* nearer to the root, although rotations move nodes down too, or it is the *)
(* last one.                                                                *)
LoopsClimb ==
    [][pc # "idle" /\ pc' = pc =>
        \/ Depth(cur)' < Depth(cur)
        \/ pc = "insert" /\ (cur = tree.root \/ tree.black[tree.parent[cur]])'
        \/ pc = "delete" /\ (cur = tree.root \/ ~tree.black[cur])']_vars

(* What find answers. *)
Found == [k \in {x \in Key : SearchTree(x) = x} |-> value[k]]

Map == INSTANCE OrderedMap WITH map <- Found, busy <- pc # "idle"

(* Through find, contains and remove the tree is the map it promises, at    *)
(* every step of the rebalancing too.                                       *)
ImplementsMap == Map!Spec

(* test_rbtree.cpp:317, TestLast: "ASSERT_EQ(rbtree.last().has_value(),false)" *)
(* for a tree without elements, also one that remove has emptied, and in    *)
(* which first() has no value any more (clear, which the program does not   *)
(* call, leaves both).                                                      *)
EmptyHasNoLast == pc = "idle" /\ nodes = {} /\ first = Nil => last = Nil

=============================================================================
