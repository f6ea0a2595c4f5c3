------------------------------ MODULE UnionFind -----------------------------
(***************************************************************************)
(* util::disjoint_set: trees of parent pointers, linked by rank, whose     *)
(* paths are compressed by every find.                                     *)
(***************************************************************************)
EXTENDS Naturals, FiniteSets

CONSTANT Elements    \* the subset<T> objects that may be emplaced

VARIABLES parent, rank

vars == <<parent, rank>>

Init ==
    /\ parent = [x \in {} |-> x]
    /\ rank = [x \in {} |-> 0]

-----------------------------------------------------------------------------
(* getRoot                                                                 *)

Closed(up, S) == \A y \in S : up[y] \in S

\* The elements that getRoot visits from x: x, its parent and so on.  Said
\* without recursion: those in every set with x that parents do not leave.
Path(up, x) ==
    {y \in DOMAIN up :
       \A S \in SUBSET DOMAIN up : x \in S /\ Closed(up, S) => y \in S}

Root(up, x) == CHOOSE y \in Path(up, x) : up[y] = y

\* Every element on the way gets the root for a parent.
Compress(up, x) ==
    [y \in DOMAIN up |-> IF y \in Path(up, x) THEN Root(up, x) ELSE up[y]]

-----------------------------------------------------------------------------
(* The operations                                                          *)

\* Mutant: the constructor of subset leaves the rank out.
EmplaceWithoutRank(x) ==
    /\ x \notin DOMAIN parent
    /\ parent' = [y \in DOMAIN parent \cup {x} |-> IF y = x THEN x ELSE parent[y]]
    /\ UNCHANGED rank

emplace(x) ==
    /\ x \notin DOMAIN parent
    /\ parent' = [y \in DOMAIN parent \cup {x} |-> IF y = x THEN x ELSE parent[y]]
    /\ rank' = [y \in DOMAIN rank \cup {x} |-> IF y = x THEN 0 ELSE rank[y]]

find(x) ==
    /\ parent' = Compress(parent, x)
    /\ UNCHANGED rank

\* Mutant: the root with the lower rank stays a root.
LinkUpsideDown(up, l, r) ==
    IF rank[l] < rank[r]
      THEN /\ parent' = [up EXCEPT ![r] = l]
           /\ UNCHANGED rank
      ELSE /\ parent' = [up EXCEPT ![l] = r]
           /\ rank' = IF rank[l] = rank[r] THEN [rank EXCEPT ![r] = @ + 1] ELSE rank

\* Mutant: the rank grows with every link.
LinkAlwaysGrows(up, l, r) ==
    IF rank[l] < rank[r]
      THEN /\ parent' = [up EXCEPT ![l] = r]
           /\ rank' = [rank EXCEPT ![r] = @ + 1]
      ELSE /\ parent' = [up EXCEPT ![r] = l]
           /\ rank' = [rank EXCEPT ![l] = @ + 1]

\* Two different roots: the one with the lower rank goes below the other.
Link(up, l, r) ==
    IF rank[l] < rank[r]
      THEN /\ parent' = [up EXCEPT ![l] = r]
           /\ UNCHANGED rank
      ELSE /\ parent' = [up EXCEPT ![r] = l]
           /\ rank' = IF rank[l] = rank[r] THEN [rank EXCEPT ![l] = @ + 1] ELSE rank

\* Mutant: what is linked are the arguments and not their roots.
UniteArguments(x, y) ==
    LET left == Compress(parent, x)
        up == Compress(left, y)
    IN  IF Root(up, x) = Root(up, y)
          THEN parent' = up /\ UNCHANGED rank
          ELSE Link(up, x, y)

\* Both finds come first, so that both paths are compressed.
unite(x, y) ==
    LET left == Compress(parent, x)
        up == Compress(left, y)
    IN  IF Root(left, x) = Root(left, y)
          THEN parent' = up /\ UNCHANGED rank
          ELSE Link(up, Root(left, x), Root(left, y))

Next ==
    \/ \E x \in Elements : emplace(x)
    \/ \E x \in DOMAIN parent : find(x)
    \/ \E x, y \in DOMAIN parent : unite(x, y)

Spec == Init /\ [][Next]_vars

-----------------------------------------------------------------------------
(* Properties                                                              *)

\* Parents and ranks of exactly the elements that were emplaced.
TypeOK ==
    /\ DOMAIN parent \subseteq Elements
    /\ parent \in [DOMAIN parent -> DOMAIN parent]
    /\ rank \in [DOMAIN parent -> Nat]

\* A parent has a higher rank than its child, whatever was compressed since
\* they were linked: getRoot goes up for ever in no tree.
RanksGrow ==
    \A x \in DOMAIN parent : parent[x] # x => rank[x] < rank[parent[x]]

\* A root of rank k has at least 2^k elements below it, so that getRoot's
\* recursion is never deeper than the logarithm of their number.
TreesAreShallow ==
    \A x \in DOMAIN parent :
        2 ^ rank[Root(parent, x)]
            <= Cardinality({y \in DOMAIN parent : Root(parent, y) = Root(parent, x)})

\* find and unite do what a partition promises: compression changes nothing
\* that can be seen, and a link merges two classes and no others.
P == INSTANCE Partition WITH root <- [x \in DOMAIN parent |-> Root(parent, x)]
ImplementsPartition == P!Spec
=============================================================================
