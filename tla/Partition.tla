------------------------------ MODULE Partition -----------------------------
(***************************************************************************)
(* What disjoint_set promises: elements, each in a class of its own when   *)
(* it is put in, classes that only ever merge, and one element of a class  *)
(* that find returns for all of them.                                      *)
(***************************************************************************)
CONSTANT Elements

VARIABLE root    \* for every element, the one that find returns

Init == root = [x \in {} |-> x]

Emplace(x) ==
    /\ x \notin DOMAIN root
    /\ root' = [y \in DOMAIN root \cup {x} |-> IF y = x THEN x ELSE root[y]]

\* Which of the two is found from now on is not promised.
Unite(x, y) ==
    \E winner \in {root[x], root[y]} :
        root' = [z \in DOMAIN root |->
                   IF root[z] \in {root[x], root[y]} THEN winner ELSE root[z]]

Next ==
    \/ \E x \in Elements : Emplace(x)
    \/ \E x, y \in DOMAIN root : Unite(x, y)

Spec == Init /\ [][Next]_root
=============================================================================
