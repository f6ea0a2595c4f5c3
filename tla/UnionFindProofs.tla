--------------------------- MODULE UnionFindProofs --------------------------
(***************************************************************************)
(* The union-find implements a partition, for any number of elements.      *)
(*                                                                         *)
(* The invariant is that there is a map f from every element to a root on  *)
(* its path which is the same for an element and its parent.  The map is   *)
(* then what getRoot returns, and all arguments are about closed sets: a   *)
(* set that parents do not leave and that holds x holds the path of x.     *)
(***************************************************************************)
EXTENDS UnionFind, FiniteSetTheorems, TLAPS

\* f maps every element to its root.
Finds(up, f) ==
    /\ up \in [DOMAIN up -> DOMAIN up]
    /\ f \in [DOMAIN up -> DOMAIN up]
    /\ \A x \in DOMAIN up : f[up[x]] = f[x] /\ up[f[x]] = f[x] /\ f[x] \in Path(up, x)

Forest(up) == \E f : Finds(up, f)

LEMMA PathInClosed ==
    ASSUME NEW up, NEW S \in SUBSET DOMAIN up, Closed(up, S), NEW x \in S
    PROVE  Path(up, x) \subseteq S
  BY DEF Path

LEMMA PathHasX ==
    ASSUME NEW up, NEW x \in DOMAIN up PROVE x \in Path(up, x)
  BY DEF Path

LEMMA PathIsClosed ==
    ASSUME NEW up, up \in [DOMAIN up -> DOMAIN up],
           NEW x \in DOMAIN up, NEW y \in Path(up, x)
    PROVE  up[y] \in Path(up, x) /\ y \in DOMAIN up
  BY DEF Path, Closed

\* The map is constant on a path.
LEMMA PathHasOneRoot ==
    ASSUME NEW up, NEW f, Finds(up, f), NEW x \in DOMAIN up, NEW y \in Path(up, x)
    PROVE  f[y] = f[x]
<1> DEFINE S == {z \in DOMAIN up : f[z] = f[x]}
<1>1. Closed(up, S)
  BY DEF Closed, Finds
<1>2. S \in SUBSET DOMAIN up /\ x \in S
  OBVIOUS
<1> HIDE DEF S
<1>3. y \in S
  BY <1>1, <1>2, PathInClosed
<1> QED
  BY <1>3 DEF S

\* getRoot returns what the map says.
LEMMA RootIsFound ==
    ASSUME NEW up, NEW f, Finds(up, f), NEW x \in DOMAIN up
    PROVE  Root(up, x) = f[x]
<1>1. f[x] \in Path(up, x) /\ up[f[x]] = f[x]
  BY DEF Finds
<1>2. ASSUME NEW r \in Path(up, x), up[r] = r
      PROVE  r = f[x]
  <2>1. r \in DOMAIN up
    BY DEF Path
  <2>2. Closed(up, {r})
    BY <1>2 DEF Closed
  <2>3. Path(up, r) \subseteq {r}
    BY <2>1, <2>2, PathInClosed
  <2>4. f[r] = r
    BY <2>1, <2>3 DEF Finds
  <2> QED
    BY <1>2, <2>4, PathHasOneRoot
<1> QED
  BY <1>1, <1>2 DEF Root

\* Compression keeps the root of every element.
LEMMA CompressFinds ==
    ASSUME NEW up, NEW f, Finds(up, f), NEW x \in DOMAIN up
    PROVE  Finds(Compress(up, x), f) /\ DOMAIN Compress(up, x) = DOMAIN up
<1> DEFINE q == Compress(up, x)
<1>1. DOMAIN q = DOMAIN up
  BY DEF Compress
<1>2. \A y \in DOMAIN up : q[y] = IF y \in Path(up, x) THEN f[x] ELSE up[y]
  BY RootIsFound DEF Compress
<1>3. \A y \in Path(up, x) : f[y] = f[x]
  BY PathHasOneRoot
<1> HIDE DEF q
<1>4. \A y \in DOMAIN up : f[f[y]] = f[y]
  BY PathHasOneRoot DEF Finds
<1>5. q \in [DOMAIN up -> DOMAIN up]
  <2>1. \A y \in DOMAIN up : q[y] \in DOMAIN up
    BY <1>2 DEF Finds
  <2>2. q = [y \in DOMAIN up |-> IF y \in Path(up, x) THEN Root(up, x) ELSE up[y]]
    BY DEF q, Compress
  <2> QED
    BY <2>1, <2>2
<1>6. ASSUME NEW y \in DOMAIN up
      PROVE  f[q[y]] = f[y] /\ q[f[y]] = f[y]
  <2>1. f[q[y]] = f[y]
    BY <1>2, <1>3, <1>4 DEF Finds
  <2>2. q[f[y]] = f[y]
    <3>1. f[y] \in DOMAIN up /\ f[f[y]] = f[y] /\ up[f[y]] = f[y]
      BY <1>4 DEF Finds
    <3> QED
      BY <1>2, <1>3, <3>1
  <2> QED
    BY <2>1, <2>2
<1>7. ASSUME NEW y \in DOMAIN up,
             NEW S \in SUBSET DOMAIN up, y \in S, Closed(q, S)
      PROVE  f[y] \in S
  <2> SUFFICES ASSUME f[y] \notin S PROVE FALSE
    OBVIOUS
  <2> DEFINE U == {w \in S : f[w] \notin S}
  <2>1. Closed(up, U)
    <3> SUFFICES ASSUME NEW w \in U PROVE up[w] \in U
      BY DEF Closed
    <3>1. q[w] \in S
      BY <1>7 DEF Closed
    <3>2. w \notin Path(up, x)
      BY <1>2, <1>3, <3>1
    <3> QED
      BY <1>2, <3>1, <3>2 DEF Finds
  <2>2. U \in SUBSET DOMAIN up /\ y \in U
    BY <1>7
  <2> HIDE DEF U
  <2>3. f[y] \in U
    BY <2>1, <2>2, PathInClosed DEF Finds
  <2> QED
    BY <2>3 DEF U
<1>8. \A y \in DOMAIN up : f[y] \in Path(q, y)
  BY <1>1, <1>7 DEF Path, Finds
<1> QED
  BY <1>1, <1>5, <1>6, <1>8 DEF q, Finds

Below(up, a, b) == [up EXCEPT ![a] = b]
Joined(f, a, b) == [z \in DOMAIN f |-> IF f[z] = a THEN b ELSE f[z]]

\* A link of one root below another makes one class of their two.
LEMMA LinkFinds ==
    ASSUME NEW up, NEW f, Finds(up, f),
           NEW a \in DOMAIN up, NEW b \in DOMAIN up, up[a] = a, up[b] = b, a # b
    PROVE  Finds(Below(up, a, b), Joined(f, a, b))
<1> DEFINE q == Below(up, a, b)
           g == Joined(f, a, b)
<1>1. f[a] = a /\ f[b] = b
  <2>1. Closed(up, {a}) /\ Closed(up, {b})
    BY DEF Closed
  <2>2. Path(up, a) \subseteq {a} /\ Path(up, b) \subseteq {b}
    BY <2>1, PathInClosed
  <2> QED
    BY <2>2 DEF Finds
<1>2. q \in [DOMAIN up -> DOMAIN up] /\ g \in [DOMAIN up -> DOMAIN up]
  BY DEF Finds, Below, Joined
<1>3. \A y \in DOMAIN up : q[y] = IF y = a THEN b ELSE up[y]
  BY DEF Finds, Below
<1>4. \A y \in DOMAIN up : g[y] = IF f[y] = a THEN b ELSE f[y]
  BY DEF Finds, Joined
<1> HIDE DEF q, g
<1>5. ASSUME NEW y \in DOMAIN up
      PROVE  g[q[y]] = g[y] /\ q[g[y]] = g[y]
  BY <1>1, <1>3, <1>4 DEF Finds
<1>6. ASSUME NEW y \in DOMAIN up,
             NEW S \in SUBSET DOMAIN up, y \in S, Closed(q, S)
      PROVE  g[y] \in S
  <2>1. Closed(up, S)
    BY <1>3, <1>6 DEF Closed
  <2>2. f[y] \in S
    BY <1>6, <2>1, PathInClosed DEF Finds
  <2> QED
    BY <1>3, <1>4, <1>6, <2>2 DEF Closed
<1>7. \A y \in DOMAIN up : g[y] \in Path(q, y)
  BY <1>2, <1>6 DEF Path
<1> QED
  BY <1>2, <1>5, <1>7 DEF q, g, Finds

\* A new element is a tree of its own.
LEMMA EmplaceFinds ==
    ASSUME NEW up, NEW f, Finds(up, f), NEW x, x \notin DOMAIN up
    PROVE  Finds([y \in DOMAIN up \cup {x} |-> IF y = x THEN x ELSE up[y]],
                 [y \in DOMAIN up \cup {x} |-> IF y = x THEN x ELSE f[y]])
<1> DEFINE D == DOMAIN up
           q == [y \in D \cup {x} |-> IF y = x THEN x ELSE up[y]]
           g == [y \in D \cup {x} |-> IF y = x THEN x ELSE f[y]]
<1>1. /\ DOMAIN q = D \cup {x}
      /\ q \in [D \cup {x} -> D \cup {x}]
      /\ g \in [D \cup {x} -> D \cup {x}]
  BY DEF Finds
<1>2. q[x] = x /\ g[x] = x /\ \A y \in D : q[y] = up[y] /\ g[y] = f[y] /\ y # x
  OBVIOUS
<1> HIDE DEF q, g
<1>3. ASSUME NEW y \in D \cup {x}
      PROVE  g[q[y]] = g[y] /\ q[g[y]] = g[y]
  BY <1>2 DEF Finds
<1>4. ASSUME NEW y \in D \cup {x},
             NEW S \in SUBSET (D \cup {x}), y \in S, Closed(q, S)
      PROVE  g[y] \in S
  <2>1. CASE y = x
    BY <1>2, <1>4, <2>1
  <2>2. CASE y \in D
    <3> DEFINE U == S \cap D
    <3>1. Closed(up, U)
      BY <1>2, <1>4 DEF Closed, Finds
    <3>2. U \in SUBSET D /\ y \in U
      BY <1>4, <2>2
    <3> HIDE DEF U
    <3>3. f[y] \in U
      BY <2>2, <3>1, <3>2, PathInClosed DEF Finds
    <3> QED
      BY <1>2, <2>2, <3>3 DEF U
  <2> QED
    BY <2>1, <2>2
<1>5. \A y \in D \cup {x} : g[y] \in Path(q, y)
  BY <1>1, <1>4 DEF Path
<1> QED
  BY <1>1, <1>3, <1>5, Zenon DEF q, g, Finds

-----------------------------------------------------------------------------
(* What one step does to the map                                           *)

Fresh(f, x) == [y \in DOMAIN f \cup {x} |-> IF y = x THEN x ELSE f[y]]

Merged(f, x, y, w) ==
    [z \in DOMAIN f |-> IF f[z] \in {f[x], f[y]} THEN w ELSE f[z]]

\* The map stays, gets a new element, or has two of its classes merged.
MapStep(f, g) ==
    \/ g = f
    \/ \E x \in Elements : x \notin DOMAIN f /\ g = Fresh(f, x)
    \/ \E x, y \in DOMAIN f : \E w \in {f[x], f[y]} : g = Merged(f, x, y, w)

\* Compressing two paths before the link changes no root.
LEMMA UniteFinds ==
    ASSUME NEW f, Finds(parent, f),
           NEW x \in DOMAIN parent, NEW y \in DOMAIN parent, unite(x, y)
    PROVE  \E g : Finds(parent', g) /\ MapStep(f, g)
<1> DEFINE left == Compress(parent, x)
           up == Compress(left, y)
<1>1. Finds(left, f) /\ DOMAIN left = DOMAIN parent
  BY CompressFinds
<1>2. Root(left, x) = f[x] /\ Root(left, y) = f[y]
  BY <1>1, RootIsFound
<1>3. Finds(up, f) /\ DOMAIN up = DOMAIN parent
  BY <1>1, CompressFinds
<1>4. IF f[x] = f[y] THEN parent' = up /\ UNCHANGED rank ELSE Link(up, f[x], f[y])
  BY <1>2 DEF unite
<1> HIDE DEF left, up
<1>5. CASE f[x] = f[y]
  BY <1>3, <1>4, <1>5 DEF MapStep
<1>6. CASE f[x] # f[y]
  <2> DEFINE l == f[x]
             r == f[y]
  <2>1. l \in DOMAIN up /\ r \in DOMAIN up /\ up[l] = l /\ up[r] = r /\ DOMAIN f = DOMAIN up
    BY <1>3 DEF Finds
  <2>2. parent' = Below(up, l, r) \/ parent' = Below(up, r, l)
    BY <1>4, <1>6 DEF Link, Below
  <2>3. CASE parent' = Below(up, l, r)
    <3> DEFINE g == Joined(f, l, r)
    <3>1. Finds(parent', g)
      BY <1>3, <1>6, <2>1, <2>3, LinkFinds
    <3>2. g = Merged(f, x, y, r)
      BY DEF Merged, Joined
    <3> QED
      BY <1>3, <3>1, <3>2, <2>1 DEF MapStep
  <2>4. CASE parent' = Below(up, r, l)
    <3> DEFINE g == Joined(f, r, l)
    <3>1. Finds(parent', g)
      BY <1>3, <1>6, <2>1, <2>4, LinkFinds
    <3>2. g = Merged(f, x, y, l)
      BY DEF Merged, Joined
    <3> QED
      BY <1>3, <3>1, <3>2, <2>1 DEF MapStep
  <2> QED
    BY <2>2, <2>3, <2>4
<1> QED
  BY <1>5, <1>6

\* Every step of the union-find has a map again.
LEMMA StepFinds ==
    ASSUME NEW f, Finds(parent, f), [Next]_vars
    PROVE  \E g : Finds(parent', g) /\ MapStep(f, g)
<1>1. CASE UNCHANGED vars
  BY <1>1 DEF vars, MapStep
<1>2. ASSUME NEW x \in Elements, emplace(x)
      PROVE  \E g : Finds(parent', g) /\ MapStep(f, g)
  <2>1. DOMAIN f = DOMAIN parent /\ x \notin DOMAIN parent
    BY <1>2 DEF Finds, emplace
  <2>2. Finds(parent', Fresh(f, x))
    BY <1>2, <2>1, EmplaceFinds DEF emplace, Fresh
  <2> QED
    BY <2>1, <2>2 DEF MapStep
<1>3. ASSUME NEW x \in DOMAIN parent, find(x)
      PROVE  \E g : Finds(parent', g) /\ MapStep(f, g)
  BY <1>3, CompressFinds DEF find, MapStep
<1> QED
  BY <1>1, <1>2, <1>3, UniteFinds DEF Next

LEMMA InitFinds ==
    ASSUME Init PROVE Finds(parent, parent)
  BY DEF Init, Finds

\* Every tree has one root, and getRoot finds it.
LEMMA AlwaysForest == Spec => []Forest(parent)
<1>1. Init => Forest(parent)
  BY InitFinds DEF Forest
<1>2. Forest(parent) /\ [Next]_vars => Forest(parent)'
  BY StepFinds DEF Forest
<1> QED
  BY <1>1, <1>2, PTL DEF Spec

-----------------------------------------------------------------------------
(* Theorems                                                                *)

\* What find makes of the parents is again a map of elements to elements.
LEMMA CompressType ==
    ASSUME NEW up, Forest(up), NEW x \in DOMAIN up
    PROVE  /\ Compress(up, x) \in [DOMAIN up -> DOMAIN up]
           /\ DOMAIN Compress(up, x) = DOMAIN up
           /\ Forest(Compress(up, x))
           /\ Root(up, x) \in DOMAIN up /\ up[Root(up, x)] = Root(up, x)
<1>1. PICK f : Finds(up, f)
  BY DEF Forest
<1>2. Finds(Compress(up, x), f) /\ DOMAIN Compress(up, x) = DOMAIN up
  BY <1>1, CompressFinds
<1>3. Root(up, x) = f[x]
  BY <1>1, RootIsFound
<1> QED
  BY <1>1, <1>2, <1>3, Zenon DEF Finds, Forest

\* Every element that emplace handed out has a parent and a rank, and nothing
\* else has: no step of find or unite leaves the elements that exist.
THEOREM TypeCorrect == Spec => []TypeOK
<1>1. Init => TypeOK
  BY DEF Init, TypeOK
<1>2. ASSUME TypeOK, Forest(parent), [Next]_vars PROVE TypeOK'
  <2> USE <1>2 DEF TypeOK
  <2>1. CASE UNCHANGED vars
    BY <2>1 DEF vars
  <2>2. ASSUME NEW x \in Elements, emplace(x) PROVE TypeOK'
    BY <2>2 DEF emplace
  <2>3. ASSUME NEW x \in DOMAIN parent, find(x) PROVE TypeOK'
    BY <2>3, CompressType DEF find
  <2>4. ASSUME NEW x \in DOMAIN parent, NEW y \in DOMAIN parent, unite(x, y)
        PROVE  TypeOK'
    <3> DEFINE left == Compress(parent, x)
               up == Compress(left, y)
               l == Root(left, x)
               r == Root(left, y)
    <3>1. Forest(left) /\ DOMAIN left = DOMAIN parent
      BY CompressType
    <3>2. up \in [DOMAIN parent -> DOMAIN parent] /\ l \in DOMAIN parent /\ r \in DOMAIN parent
      BY <3>1, CompressType
    <3>3. \/ parent' = up /\ UNCHANGED rank
          \/ Link(up, l, r)
      BY <2>4 DEF unite
    <3> HIDE DEF left, up, l, r
    <3>4. DOMAIN up = DOMAIN parent
      BY <3>2
    <3>5. CASE parent' = up /\ UNCHANGED rank
      BY <3>2, <3>5
    <3>6. CASE Link(up, l, r)
      <4>1. parent' \in [DOMAIN parent -> DOMAIN parent]
        BY <3>2, <3>4, <3>6 DEF Link
      <4>2. rank' \in [DOMAIN parent -> Nat]
        BY <3>2, <3>6 DEF Link
      <4> QED
        BY <4>1, <4>2
    <3> QED
      BY <3>3, <3>5, <3>6
  <2> QED
    BY <2>1, <2>2, <2>3, <2>4 DEF Next
<1> QED
  BY <1>1, <1>2, AlwaysForest, PTL DEF Spec

\* Ranks grow towards the root along every path, the long ones too.
Ordered(up) == \A w \in DOMAIN up : up[w] # w => rank[w] < rank[up[w]]

LEMMA RootHasHighestRank ==
    ASSUME NEW up, NEW f, Finds(up, f), rank \in [DOMAIN up -> Nat], Ordered(up),
           NEW x \in DOMAIN up, f[x] # x
    PROVE  rank[x] < rank[f[x]]
<1> SUFFICES ASSUME ~ (rank[x] < rank[f[x]]) PROVE FALSE
  OBVIOUS
<1> DEFINE U == {w \in DOMAIN up : f[w] = f[x] /\ f[w] # w /\ ~ (rank[w] < rank[f[x]])}
<1>1. Closed(up, U)
  <2> SUFFICES ASSUME NEW w \in U PROVE up[w] \in U
    BY DEF Closed
  <2>1. up[w] # w
    <3> SUFFICES ASSUME up[w] = w PROVE FALSE
      OBVIOUS
    <3>1. Closed(up, {w}) /\ {w} \in SUBSET DOMAIN up /\ w \in {w}
      BY DEF Closed
    <3>2. f[w] \in {w}
      BY <3>1, PathInClosed DEF Finds
    <3> QED
      BY <3>2
  <2>2. /\ up[w] \in DOMAIN up /\ f[up[w]] = f[x] /\ f[x] \in DOMAIN up
        /\ rank[w] < rank[up[w]]
    BY <2>1 DEF Finds, Ordered
  <2>3. ~ (rank[up[w]] < rank[f[x]])
    BY <2>2
  <2>4. f[x] # up[w]
    BY <2>2
  <2> QED
    BY <2>2, <2>3, <2>4
<1>2. U \in SUBSET DOMAIN up /\ x \in U
  OBVIOUS
<1> HIDE DEF U
<1>3. f[f[x]] = f[x]
  <2>1. f[x] \in Path(up, x)
    BY DEF Finds
  <2> QED
    BY ONLY Finds(up, f), x \in DOMAIN up, <2>1, PathHasOneRoot
<1>4. f[x] \in U
  BY <1>1, <1>2, PathInClosed DEF Finds
<1> QED
  BY <1>3, <1>4 DEF U

LEMMA CompressOrdered ==
    ASSUME NEW up, NEW f, Finds(up, f), rank \in [DOMAIN up -> Nat], Ordered(up),
           NEW x \in DOMAIN up
    PROVE  Ordered(Compress(up, x))
<1> DEFINE q == Compress(up, x)
<1>1. \A y \in DOMAIN up : q[y] = IF y \in Path(up, x) THEN f[x] ELSE up[y]
  BY RootIsFound DEF Compress
<1>2. DOMAIN q = DOMAIN up
  BY DEF Compress
<1> HIDE DEF q
<1>3. ASSUME NEW y \in DOMAIN up, q[y] # y PROVE rank[y] < rank[q[y]]
  <2>1. CASE y \in Path(up, x)
    <3>1. f[y] = f[x]
      BY <2>1, PathHasOneRoot
    <3> QED
      BY <1>1, <1>3, <2>1, <3>1, RootHasHighestRank
  <2>2. CASE y \notin Path(up, x)
    BY <1>1, <1>3, <2>2 DEF Ordered
  <2> QED
    BY <2>1, <2>2
<1> QED
  BY <1>2, <1>3 DEF Ordered, q

\* A parent has a higher rank than its child whatever find has compressed:
\* getRoot comes to an end in every tree that unite can build.
THEOREM RanksAreOrdered == Spec => []RanksGrow
<1>1. Init => RanksGrow
  BY DEF Init, RanksGrow
<1>2. ASSUME TypeOK, Forest(parent), RanksGrow, [Next]_vars PROVE RanksGrow'
  <2>1. Ordered(parent) /\ rank \in [DOMAIN parent -> Nat] /\ parent \in [DOMAIN parent -> DOMAIN parent]
    BY <1>2 DEF RanksGrow, Ordered, TypeOK
  <2>2. PICK f : Finds(parent, f)
    BY <1>2 DEF Forest
  <2>3. CASE UNCHANGED vars
    BY <1>2, <2>3 DEF vars, RanksGrow
  <2>4. ASSUME NEW x \in Elements, emplace(x) PROVE RanksGrow'
    BY <1>2, <2>1, <2>4 DEF emplace, RanksGrow
  <2>5. ASSUME NEW x \in DOMAIN parent, find(x) PROVE RanksGrow'
    BY <2>1, <2>2, <2>5, CompressOrdered DEF find, RanksGrow, Ordered
  <2>6. ASSUME NEW x \in DOMAIN parent, NEW y \in DOMAIN parent, unite(x, y)
        PROVE  RanksGrow'
    <3> DEFINE left == Compress(parent, x)
               up == Compress(left, y)
    <3>1. Finds(left, f) /\ DOMAIN left = DOMAIN parent /\ Ordered(left)
      BY <2>1, <2>2, CompressFinds, CompressOrdered
    <3>2. Root(left, x) = f[x] /\ Root(left, y) = f[y]
      BY <3>1, RootIsFound
    <3> HIDE DEF left
    <3>3. Finds(up, f) /\ DOMAIN up = DOMAIN parent /\ Ordered(up)
      BY <2>1, <3>1, CompressFinds, CompressOrdered
    <3>4. IF f[x] = f[y] THEN parent' = up /\ UNCHANGED rank ELSE Link(up, f[x], f[y])
      BY <2>6, <3>2 DEF unite, left
    <3> HIDE DEF up
    <3>5. CASE f[x] = f[y]
      BY <3>3, <3>4, <3>5 DEF Ordered, RanksGrow
    <3>6. CASE f[x] # f[y]
      <4> DEFINE l == f[x]
                 r == f[y]
      <4>1. /\ l \in DOMAIN up /\ r \in DOMAIN up /\ l # r
            /\ up[l] = l /\ up[r] = r /\ up \in [DOMAIN up -> DOMAIN up]
        BY <3>3, <3>6 DEF Finds
      <4>2. Link(up, l, r)
        BY <3>4, <3>6
      <4>3. rank \in [DOMAIN up -> Nat]
        BY <2>1, <3>3
      <4> HIDE DEF l, r
      <4>4. CASE rank[l] < rank[r]
        BY <3>3, <4>1, <4>2, <4>3, <4>4 DEF Link, Ordered, RanksGrow
      <4>5. CASE ~ (rank[l] < rank[r]) /\ rank[l] # rank[r]
        <5>1. rank[l] \in Nat /\ rank[r] \in Nat
          BY <4>1, <4>3
        <5>2. rank[r] < rank[l]
          BY <4>5, <5>1
        <5>3. parent' = [up EXCEPT ![r] = l] /\ rank' = rank
          BY <4>2, <4>5 DEF Link
        <5> QED
          BY <3>3, <4>1, <5>2, <5>3 DEF Ordered, RanksGrow
      <4>6. CASE rank[l] = rank[r]
        <5>1. /\ parent' = [up EXCEPT ![r] = l]
              /\ rank' = [rank EXCEPT ![l] = rank[l] + 1]
          BY <4>2, <4>6, <4>1, <4>3 DEF Link
        <5>2. ASSUME NEW w \in DOMAIN up, parent'[w] # w
              PROVE  rank'[w] < rank'[parent'[w]]
          <6>1. CASE w = r
            BY <4>1, <4>3, <4>6, <5>1, <6>1
          <6>2. CASE w # r
            <7>1. parent'[w] = up[w] /\ up[w] # w /\ w # l /\ up[w] \in DOMAIN up
              BY <4>1, <5>1, <5>2, <6>2
            <7>2. rank[w] < rank[up[w]] /\ rank'[w] = rank[w] /\ rank[w] \in Nat
              BY <3>3, <4>3, <5>1, <7>1 DEF Ordered
            <7> QED
              BY <4>3, <5>1, <7>1, <7>2
          <6> QED
            BY <6>1, <6>2
        <5> QED
          BY <3>3, <5>1, <5>2 DEF RanksGrow
      <4> QED
        BY <4>3, <4>4, <4>5, <4>6
    <3> QED
      BY <3>5, <3>6
  <2> QED
    BY <1>2, <2>3, <2>4, <2>5, <2>6 DEF Next
<1> QED
  BY <1>1, <1>2, TypeCorrect, AlwaysForest, PTL DEF Spec

-----------------------------------------------------------------------------
(* Sizes                                                                   *)

\* 2^k is the number of subsets of 1..k; those of 1..k+1 are these, and these
\* again with one more number.
LEMMA PowerStep ==
    ASSUME NEW k \in Nat
    PROVE  2^k \in Nat /\ 2^(k + 1) = 2^k + 2^k
<1> DEFINE A == SUBSET (1 .. k)
           more == [X \in A |-> X \cup {k + 1}]
           B == {more[X] : X \in A}
<1>1. IsFiniteSet(A) /\ Cardinality(A) = 2^k
  <2>1. IsFiniteSet(1 .. k) /\ Cardinality(1 .. k) = k
    BY FS_Interval
  <2> QED
    BY <2>1, FS_SUBSET
<1>2. Cardinality(SUBSET (1 .. (k + 1))) = 2^(k + 1)
  <2>1. IsFiniteSet(1 .. (k + 1)) /\ Cardinality(1 .. (k + 1)) = k + 1
    BY FS_Interval
  <2> QED
    BY <2>1, FS_SUBSET
<1>3. SUBSET (1 .. (k + 1)) = A \cup B
  <2>1. ASSUME NEW X \in SUBSET (1 .. (k + 1)) PROVE X \in A \cup B
    <3> DEFINE Y == X \ {k + 1}
    <3>1. Y \in A
      OBVIOUS
    <3>2. X = Y \/ X = Y \cup {k + 1}
      OBVIOUS
    <3> HIDE DEF Y
    <3>3. more[Y] = Y \cup {k + 1}
      BY <3>1
    <3> QED
      BY <3>1, <3>2, <3>3
  <2>2. ASSUME NEW X \in A PROVE X \in SUBSET (1 .. (k + 1)) /\ more[X] \in SUBSET (1 .. (k + 1))
    BY <2>2
  <2>3. ASSUME NEW X \in A \cup B PROVE X \in SUBSET (1 .. (k + 1))
    <3>1. CASE X \in A
      BY <2>2, <3>1
    <3>2. CASE X \in B
      <4>1. PICK Y \in A : X = more[Y]
        BY <3>2
      <4> QED
        BY <2>2, <4>1
    <3> QED
      BY <3>1, <3>2
  <2> HIDE DEF A, B
  <2> QED
    BY <2>1, <2>3
<1>4. A \cap B = {}
  <2>1. \A X \in A : k + 1 \notin X
    OBVIOUS
  <2>2. \A X \in B : k + 1 \in X
    OBVIOUS
  <2> HIDE DEF A, B
  <2> QED
    BY <2>1, <2>2
<1>5. ExistsBijection(A, B)
  <2>1. more \in [A -> B]
    OBVIOUS
  <2>2. IsInjective(more)
    <3>1. ASSUME NEW X \in A, NEW Y \in A, X \cup {k + 1} = Y \cup {k + 1}
          PROVE  X = Y
      <4>1. \A i \in X \cup Y : i \in 1 .. k /\ i # k + 1
        OBVIOUS
      <4> QED
        BY <3>1, <4>1
    <3> QED
      BY <3>1 DEF IsInjective
  <2>3. \A Y \in B : \E X \in A : more[X] = Y
    OBVIOUS
  <2> HIDE DEF more, B, A
  <2> QED
    BY <2>1, <2>2, <2>3 DEF ExistsBijection, Bijection, Injection, Surjection
<1> HIDE DEF A, B
<1>6. IsFiniteSet(B) /\ Cardinality(B) = 2^k
  BY <1>1, <1>5, FS_Bijection
<1>7. Cardinality(A \cup B) = Cardinality(A) + Cardinality(B) - Cardinality({})
  BY <1>1, <1>4, <1>6, FS_Union
<1>8. 2^k \in Nat
  BY <1>1, FS_CardinalityType
<1>9. Cardinality({}) = 0
  BY FS_EmptySet
<1>10. 2^(k + 1) = Cardinality(A) + Cardinality(B) - 0
  BY ONLY <1>2, <1>3, <1>7, <1>9
<1>11. ASSUME NEW a \in Nat, 2^(k + 1) = a + a - 0 PROVE 2^(k + 1) = a + a
  BY <1>11
<1> QED
  BY <1>1, <1>6, <1>8, <1>10, <1>11

LEMMA PowerOfNothing == 2^0 = 1
<1>1. IsFiniteSet({}) /\ Cardinality({}) = 0
  BY FS_EmptySet
<1>2. Cardinality(SUBSET {}) = 2^0
  BY <1>1, FS_SUBSET
<1>3. SUBSET {} = {{}}
  OBVIOUS
<1> QED
  BY <1>2, <1>3, FS_Singleton

\* The elements whose root is r, and that they are many.
Class(f, r) == {y \in DOMAIN f : f[y] = r}
Heavy(f, rk) == \A x \in DOMAIN f : 2 ^ rk[f[x]] <= Cardinality(Class(f, f[x]))

LEMMA ClassIsFinite ==
    ASSUME NEW f, IsFiniteSet(DOMAIN f), NEW r
    PROVE  IsFiniteSet(Class(f, r)) /\ Cardinality(Class(f, r)) \in Nat
<1>1. Class(f, r) \in SUBSET DOMAIN f
  BY DEF Class
<1> QED
  BY <1>1, FS_Subset, FS_CardinalityType

\* A link below b: the class of b grows by that of a, so that a rank that grows
\* by one has twice the elements below it.
LEMMA JoinedIsHeavy ==
    ASSUME NEW f, IsFiniteSet(DOMAIN f), f \in [DOMAIN f -> DOMAIN f],
           \A x \in DOMAIN f : f[f[x]] = f[x],
           NEW rk \in [DOMAIN f -> Nat], NEW rq \in [DOMAIN f -> Nat], Heavy(f, rk),
           NEW a \in DOMAIN f, NEW b \in DOMAIN f, a # b, f[a] = a, f[b] = b,
           \A x \in DOMAIN f : x # b => rq[x] = rk[x],
           rq[b] = rk[b] \/ (rq[b] = rk[b] + 1 /\ rk[a] = rk[b])
    PROVE  Heavy(Joined(f, a, b), rq)
<1> DEFINE g == Joined(f, a, b)
           A == Class(f, a)
           B == Class(f, b)
<1>1. DOMAIN g = DOMAIN f /\ \A y \in DOMAIN f : g[y] = IF f[y] = a THEN b ELSE f[y]
  BY DEF Joined
<1>2. IsFiniteSet(A) /\ IsFiniteSet(B) /\ Cardinality(A) \in Nat /\ Cardinality(B) \in Nat
  BY ClassIsFinite
<1> HIDE DEF g
<1>3. Cardinality(Class(g, b)) = Cardinality(A) + Cardinality(B)
  <2>1. Class(g, b) = A \cup B
    BY <1>1 DEF Class
  <2>2. A \cap B = {}
    BY DEF Class
  <2> HIDE DEF A, B
  <2>3. Cardinality(A \cup B) = Cardinality(A) + Cardinality(B) - Cardinality({})
    BY <1>2, <2>2, FS_Union
  <2>4. Cardinality({}) = 0
    BY FS_EmptySet
  <2> QED
    BY <1>2, <2>1, <2>3, <2>4
<1>4. 2 ^ rk[a] <= Cardinality(A) /\ 2 ^ rk[b] <= Cardinality(B)
  BY DEF Heavy
<1> HIDE DEF A, B
<1>5. 2 ^ rq[b] <= Cardinality(Class(g, b))
  <2>1. 2 ^ rk[a] \in Nat /\ 2 ^ rk[b] \in Nat /\ 2 ^ (rk[b] + 1) = 2 ^ rk[b] + 2 ^ rk[b]
    BY PowerStep
  <2>2. CASE rq[b] = rk[b]
    BY <1>2, <1>3, <1>4, <2>1, <2>2
  <2>3. CASE rq[b] = rk[b] + 1 /\ rk[a] = rk[b]
    BY <1>2, <1>3, <1>4, <2>1, <2>3
  <2> QED
    BY <2>2, <2>3
<1>6. ASSUME NEW x \in DOMAIN f, g[x] # b
      PROVE  2 ^ rq[g[x]] <= Cardinality(Class(g, g[x]))
  <2>1. g[x] = f[x] /\ f[x] # a /\ f[x] \in DOMAIN f
    BY <1>1, <1>6
  <2>2. Class(g, f[x]) = Class(f, f[x])
    BY <1>1, <1>6, <2>1 DEF Class
  <2>3. rq[f[x]] = rk[f[x]]
    BY <1>6, <2>1
  <2> QED
    BY <2>1, <2>2, <2>3 DEF Heavy
<1>7. ASSUME NEW x \in DOMAIN f
      PROVE  2 ^ rq[g[x]] <= Cardinality(Class(g, g[x]))
  BY <1>5, <1>6
<1> QED
  BY <1>1, <1>7 DEF Heavy, g

LEMMA FreshIsHeavy ==
    ASSUME NEW f, IsFiniteSet(DOMAIN f), f \in [DOMAIN f -> DOMAIN f],
           NEW rk \in [DOMAIN f -> Nat], Heavy(f, rk), NEW x, x \notin DOMAIN f
    PROVE  Heavy(Fresh(f, x), [y \in DOMAIN f \cup {x} |-> IF y = x THEN 0 ELSE rk[y]])
<1> DEFINE g == Fresh(f, x)
           rq == [y \in DOMAIN f \cup {x} |-> IF y = x THEN 0 ELSE rk[y]]
<1>1. /\ DOMAIN g = DOMAIN f \cup {x} /\ g[x] = x /\ rq[x] = 0
      /\ \A y \in DOMAIN f : g[y] = f[y] /\ rq[y] = rk[y] /\ f[y] # x /\ y # x
  BY DEF Fresh
<1> HIDE DEF g, rq
<1>2. 2 ^ rq[g[x]] <= Cardinality(Class(g, g[x]))
  <2>1. Class(g, x) = {x}
    BY <1>1 DEF Class
  <2>2. Cardinality({x}) = 1
    BY FS_Singleton
  <2> QED
    BY <1>1, <2>1, <2>2, PowerOfNothing
<1>3. ASSUME NEW y \in DOMAIN f
      PROVE  2 ^ rq[g[y]] <= Cardinality(Class(g, g[y]))
  <2>1. Class(g, f[y]) = Class(f, f[y])
    BY <1>1 DEF Class
  <2>2. g[y] = f[y] /\ rq[f[y]] = rk[f[y]]
    BY <1>1
  <2> QED
    BY <2>1, <2>2 DEF Heavy
<1> QED
  BY <1>1, <1>2, <1>3, Zenon DEF Heavy, g, rq

\* The property, said of the map.
LEMMA ShallowIsHeavy ==
    ASSUME NEW f, Finds(parent, f)
    PROVE  TreesAreShallow <=> Heavy(f, rank)
<1>1. DOMAIN f = DOMAIN parent
  BY DEF Finds
<1>2. \A x \in DOMAIN parent : Root(parent, x) = f[x]
  BY RootIsFound
<1>3. \A x \in DOMAIN parent :
        {y \in DOMAIN parent : Root(parent, y) = Root(parent, x)} = Class(f, f[x])
  BY <1>1, <1>2 DEF Class
<1> QED
  BY <1>1, <1>2, <1>3, Zenon DEF TreesAreShallow, Heavy

Finite == IsFiniteSet(DOMAIN parent)

LEMMA UniteIsHeavy ==
    ASSUME TypeOK, Finite, NEW f, Finds(parent, f), Heavy(f, rank),
           NEW x \in DOMAIN parent, NEW y \in DOMAIN parent, unite(x, y)
    PROVE  \E g : Finds(parent', g) /\ Heavy(g, rank')
<1> DEFINE left == Compress(parent, x)
           up == Compress(left, y)
           l == f[x]
           r == f[y]
<1>1. Finds(left, f) /\ DOMAIN left = DOMAIN parent
  BY CompressFinds
<1>2. Root(left, x) = l /\ Root(left, y) = r
  BY <1>1, RootIsFound
<1>3. Finds(up, f) /\ DOMAIN up = DOMAIN parent
  BY <1>1, CompressFinds
<1>4. IF l = r THEN parent' = up /\ UNCHANGED rank ELSE Link(up, l, r)
  BY <1>2 DEF unite
<1> HIDE DEF left, up
<1>5. /\ f \in [DOMAIN f -> DOMAIN f] /\ DOMAIN f = DOMAIN up
      /\ l \in DOMAIN f /\ r \in DOMAIN f /\ up[l] = l /\ up[r] = r
  BY <1>3 DEF Finds
<1>6. ASSUME NEW z \in DOMAIN f PROVE f[f[z]] = f[z]
  <2>1. f[z] \in Path(up, z) /\ z \in DOMAIN up
    BY <1>3, <1>5 DEF Finds
  <2> QED
    BY <1>3, <2>1, PathHasOneRoot
<1>7. f[l] = l /\ f[r] = r
  BY <1>3, <1>5, <1>6
<1>8. rank \in [DOMAIN f -> Nat] /\ IsFiniteSet(DOMAIN f)
  BY <1>3, <1>5 DEF TypeOK, Finite
<1> HIDE DEF l, r
<1>9. CASE l = r
  BY <1>3, <1>4, <1>9
<1>10. ASSUME NEW a \in DOMAIN f, NEW b \in DOMAIN f, a # b, {a, b} = {l, r},
              parent' = Below(up, a, b), rank' \in [DOMAIN f -> Nat],
              \A z \in DOMAIN f : z # b => rank'[z] = rank[z],
              rank'[b] = rank[b] \/ (rank'[b] = rank[b] + 1 /\ rank[a] = rank[b])
       PROVE  \E g : Finds(parent', g) /\ Heavy(g, rank')
  <2>1. f[a] = a /\ f[b] = b /\ up[a] = a /\ up[b] = b
    BY <1>5, <1>7, <1>10
  <2>2. Finds(parent', Joined(f, a, b))
    BY <1>3, <1>5, <1>10, <2>1, LinkFinds
  <2>3. Heavy(Joined(f, a, b), rank')
    BY <1>5, <1>6, <1>8, <1>10, <2>1, JoinedIsHeavy
  <2> QED
    BY <2>2, <2>3
<1>11. CASE l # r /\ rank[l] < rank[r]
  <2>1. parent' = Below(up, l, r) /\ rank' = rank
    BY <1>4, <1>11 DEF Link, Below
  <2> QED
    BY <1>5, <1>8, <1>10, <1>11, <2>1
<1>12. CASE l # r /\ ~ (rank[l] < rank[r])
  <2>1. /\ parent' = Below(up, r, l)
        /\ rank' = IF rank[l] = rank[r] THEN [rank EXCEPT ![l] = @ + 1] ELSE rank
    BY <1>4, <1>12 DEF Link, Below
  <2>2. /\ rank' \in [DOMAIN f -> Nat]
        /\ \A z \in DOMAIN f : z # l => rank'[z] = rank[z]
        /\ rank'[l] = rank[l] \/ (rank'[l] = rank[l] + 1 /\ rank[r] = rank[l])
    BY <1>5, <1>8, <2>1
  <2>3. {r, l} = {l, r}
    OBVIOUS
  <2> QED
    BY <1>5, <1>10, <1>12, <2>1, <2>2, <2>3, ZenonT(30)
<1> QED
  BY <1>9, <1>11, <1>12

LEMMA AlwaysFinite == Spec => []Finite
<1>1. Init => Finite
  BY FS_EmptySet DEF Init, Finite
<1>2. ASSUME Forest(parent), Finite, [Next]_vars
      PROVE  Finite'
  <2>1. PICK f : Finds(parent, f)
    BY <1>2 DEF Forest
  <2>2. PICK g : Finds(parent', g) /\ MapStep(f, g)
    BY <1>2, <2>1, StepFinds
  <2>3. DOMAIN f = DOMAIN parent /\ DOMAIN g = DOMAIN parent'
    BY <2>1, <2>2 DEF Finds
  <2>4. DOMAIN g = DOMAIN f \/ \E x \in Elements : DOMAIN g = DOMAIN f \cup {x}
    BY <2>2 DEF MapStep, Fresh, Merged
  <2>5. IsFiniteSet(DOMAIN f)
    BY <1>2, <2>3 DEF Finite
  <2>6. IsFiniteSet(DOMAIN g)
    BY <2>4, <2>5, FS_AddElement, Zenon
  <2> QED
    BY <2>3, <2>6 DEF Finite
<1> QED
  BY <1>1, <1>2, AlwaysForest, PTL DEF Spec

\* However unite and find are mixed, a rank of k stands for 2^k elements: no
\* path that getRoot climbs is longer than the logarithm of its tree.
THEOREM PathsAreShort == Spec => []TreesAreShallow
<1>1. Init => TreesAreShallow
  BY DEF Init, TreesAreShallow
<1>2. ASSUME TypeOK, Forest(parent), Finite, TreesAreShallow, [Next]_vars
      PROVE  TreesAreShallow'
  <2>1. PICK f : Finds(parent, f)
    BY <1>2 DEF Forest
  <2>2. /\ Heavy(f, rank) /\ DOMAIN f = DOMAIN parent /\ IsFiniteSet(DOMAIN f)
        /\ f \in [DOMAIN f -> DOMAIN f] /\ rank \in [DOMAIN f -> Nat]
    BY <1>2, <2>1, ShallowIsHeavy DEF Finds, TypeOK, Finite
  <2>3. SUFFICES \E g : Finds(parent', g) /\ Heavy(g, rank')
    <3>1. ASSUME NEW g, Finds(parent', g), Heavy(g, rank') PROVE TreesAreShallow'
      <4>1. DOMAIN g = DOMAIN parent'
        BY <3>1 DEF Finds
      <4>2. \A x \in DOMAIN parent' : Root(parent', x) = g[x]
        BY <3>1, RootIsFound
      <4>3. \A x \in DOMAIN parent' :
              {y \in DOMAIN parent' : Root(parent', y) = Root(parent', x)} = Class(g, g[x])
        BY <4>1, <4>2 DEF Class
      <4> QED
        BY <3>1, <4>1, <4>2, <4>3 DEF TreesAreShallow, Heavy
    <3> QED
      BY <2>3, <3>1
  <2>4. CASE UNCHANGED vars
    BY <2>1, <2>2, <2>4 DEF vars
  <2>5. ASSUME NEW x \in Elements, emplace(x)
        PROVE  \E g : Finds(parent', g) /\ Heavy(g, rank')
    <3>1. x \notin DOMAIN f /\ DOMAIN rank = DOMAIN f
      BY <2>2, <2>5 DEF emplace
    <3>2. Finds(parent', Fresh(f, x))
      <4>1. parent' = [y \in DOMAIN parent \cup {x} |-> IF y = x THEN x ELSE parent[y]]
        BY <2>5, Zenon DEF emplace
      <4>2. Fresh(f, x) = [y \in DOMAIN parent \cup {x} |-> IF y = x THEN x ELSE f[y]]
        BY <2>2, Zenon DEF Fresh
      <4>3. Finds([y \in DOMAIN parent \cup {x} |-> IF y = x THEN x ELSE parent[y]],
                  [y \in DOMAIN parent \cup {x} |-> IF y = x THEN x ELSE f[y]])
        <5>1. x \notin DOMAIN parent
          BY <2>2, <3>1, Zenon
        <5> QED
          BY ONLY <2>1, <5>1, EmplaceFinds
      <4> QED
        BY ONLY <4>1, <4>2, <4>3, Zenon
    <3>3. rank' = [y \in DOMAIN f \cup {x} |-> IF y = x THEN 0 ELSE rank[y]]
      BY <2>5, <3>1, Zenon DEF emplace
    <3>4. Heavy(Fresh(f, x), [y \in DOMAIN f \cup {x} |-> IF y = x THEN 0 ELSE rank[y]])
      <4>1. Heavy(f, rank) /\ rank \in [DOMAIN f -> Nat]
        BY <2>2
      <4>2. IsFiniteSet(DOMAIN f) /\ f \in [DOMAIN f -> DOMAIN f]
        BY <2>2
      <4> QED
        BY ONLY <3>1, <4>1, <4>2, FreshIsHeavy
    <3> QED
      BY ONLY <3>2, <3>3, <3>4
  <2>6. ASSUME NEW x \in DOMAIN parent, find(x)
        PROVE  \E g : Finds(parent', g) /\ Heavy(g, rank')
    BY <2>1, <2>2, <2>6, CompressFinds DEF find
  <2> QED
    BY <1>2, <2>1, <2>2, <2>4, <2>5, <2>6, UniteIsHeavy DEF Next
<1> QED
  BY <1>1, <1>2, TypeCorrect, AlwaysForest, AlwaysFinite, PTL DEF Spec

-----------------------------------------------------------------------------
(* The partition                                                           *)

LEMMA RootMap ==
    ASSUME NEW up, NEW f, Finds(up, f)
    PROVE  [x \in DOMAIN up |-> Root(up, x)] = f
<1>1. \A x \in DOMAIN up : Root(up, x) = f[x]
  BY RootIsFound
<1> QED
  BY <1>1 DEF Finds

\* disjoint_set is a partition: compression cannot be seen from outside, and
\* a link merges the two classes that unite was given and no others.
THEOREM UnionFindIsAPartition == Spec => ImplementsPartition
<1> DEFINE bar == [x \in DOMAIN parent |-> Root(parent, x)]
<1>1. Init => P!Init
  <2> SUFFICES ASSUME Init PROVE bar = [x \in {} |-> x]
    BY DEF P!Init
  <2>1. DOMAIN parent = {}
    BY DEF Init
  <2> QED
    BY <2>1
<1>2. ASSUME Forest(parent), [Next]_vars PROVE [P!Next]_bar
  <2>1. PICK f : Finds(parent, f)
    BY <1>2 DEF Forest
  <2>2. PICK g : Finds(parent', g) /\ MapStep(f, g)
    BY <1>2, <2>1, StepFinds
  <2>3. bar = f
    BY <2>1, RootMap
  <2>4. bar' = g
    BY <2>2, RootMap
  <2> HIDE DEF bar
  <2>5. CASE g = f
    BY <2>3, <2>4, <2>5
  <2>6. ASSUME NEW x \in Elements, x \notin DOMAIN f, g = Fresh(f, x)
        PROVE  P!Emplace(x)
    BY <2>3, <2>4, <2>6 DEF P!Emplace, Fresh, bar
  <2>7. ASSUME NEW x \in DOMAIN f, NEW y \in DOMAIN f, NEW w \in {f[x], f[y]},
               g = Merged(f, x, y, w)
        PROVE  P!Unite(x, y)
    BY <2>3, <2>4, <2>7 DEF P!Unite, Merged, bar
  <2> QED
    BY <2>2, <2>3, <2>5, <2>6, <2>7 DEF MapStep, P!Next, bar
<1> QED
  BY <1>1, <1>2, AlwaysForest, PTL DEF Spec, ImplementsPartition, P!Spec
=============================================================================
