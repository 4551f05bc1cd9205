----------------------------- MODULE OrderedMap -----------------------------
(***************************************************************************)
(* What RBTree promises the order book: a map from keys to values in which *)
(* an insertion under an equal key replaces the value.  A call changes the *)
(* map at once; what it does afterwards, before it returns, is not seen.   *)
(***************************************************************************)
CONSTANTS Key, Value

VARIABLES
    map,    \* a function from a subset of Key to Value
    busy    \* has a call still to return?

vars == <<map, busy>>

Init == map = << >> /\ busy = FALSE

(* insert *)
Put(m, k, v) == [x \in DOMAIN m \cup {k} |-> IF x = k THEN v ELSE m[x]]

(* remove *)
Delete(m, k) == [x \in DOMAIN m \ {k} |-> m[x]]

(* What a call of insert, remove or clear leaves of the map m. *)
Results(m) ==
    {Put(m, k, v) : k \in Key, v \in Value} \cup {Delete(m, k) : k \in Key} \cup {<< >>}

Call == ~busy /\ map' \in Results(map) /\ busy' \in BOOLEAN

Return == busy /\ busy' = FALSE /\ UNCHANGED map

Next == Call \/ Return

Spec == Init /\ [][Next]_vars

=============================================================================
