------------------------ MODULE MemorySimulatorProofs -----------------------
(***************************************************************************)
(* The memory of the simulated program, for trees of any depth, chunks of  *)
(* any size, and any number of blocks, stores and frees.                   *)
(*                                                                         *)
(* What the recursive traversals rely on is the shape of the tree: nodes   *)
(* are nested or apart, and every address has a leaf below all the others  *)
(* that cover it.  It is derived here from the definition of Nodes, with   *)
(* the powers of two counted as sets of subsets.                           *)
(***************************************************************************)
EXTENDS MemorySimulator, FiniteSetTheorems, TLAPS

-----------------------------------------------------------------------------
(* Numbers                                                                 *)

\* A set of numbers has a least one: if the numbers below all of its members
\* were closed under successors, they would be as many as those but zero.
LEMMA Least ==
    ASSUME NEW T \in SUBSET Nat, T # {}
    PROVE  \E x \in T : \A y \in T : x <= y
<1> SUFFICES ASSUME ~ \E x \in T : \A y \in T : x <= y
             PROVE  FALSE
  OBVIOUS
<1> DEFINE S == {n \in Nat : \A y \in T : n <= y}
           next == [n \in S |-> n + 1]
           U == {n \in S : n # 0}
<1>1. PICK t \in T : TRUE
  OBVIOUS
<1>2. IsFiniteSet(S)
  <2>1. S \in SUBSET Nat /\ \A n \in S : n <= t
    BY <1>1
  <2> HIDE DEF S
  <2> QED
    BY <1>1, <2>1, FS_BoundedSetOfNaturals
<1>3. \A n \in S : n + 1 \in S
  <2> SUFFICES ASSUME NEW n \in S, NEW y \in T, ~ (n + 1 <= y)
               PROVE  FALSE
    OBVIOUS
  <2>1. n = y
    OBVIOUS
  <2> QED
    BY <2>1
<1>4. 0 \in S
  OBVIOUS
<1>5. ExistsBijection(S, U)
  <2>1. next \in [S -> U]
    BY <1>3
  <2>2. IsInjective(next)
    BY DEF IsInjective
  <2>3. \A u \in U : \E n \in S : next[n] = u
    <3> TAKE u \in U
    <3>1. u - 1 \in S /\ (u - 1) + 1 = u
      OBVIOUS
    <3> QED
      BY <3>1
  <2> HIDE DEF next, S, U
  <2> QED
    BY <2>1, <2>2, <2>3 DEF ExistsBijection, Bijection, Injection, Surjection
<1>6. U \in SUBSET S /\ U # S
  BY <1>4
<1> HIDE DEF S, U
<1>7. Cardinality(U) = Cardinality(S)
  BY <1>2, <1>5, FS_Bijection
<1> QED
  BY <1>2, <1>6, <1>7, FS_Subset

LEMMA Greatest ==
    ASSUME NEW n \in Nat, NEW T \in SUBSET (0 .. n), T # {}
    PROVE  \E x \in T : \A y \in T : y <= x
<1> DEFINE U == {n - x : x \in T}
<1>1. U \in SUBSET Nat /\ U # {}
  <2>1. \A x \in T : n - x \in Nat
    OBVIOUS
  <2> QED
    BY <2>1
<1>2. PICK u \in U : \A v \in U : u <= v
  BY <1>1, Least
<1>3. PICK x \in T : u = n - x
  BY <1>2
<1>4. \A y \in T : n - x <= n - y
  BY <1>2, <1>3
<1> QED
  BY <1>4

\* What a division leaves.
LEMMA Division ==
    ASSUME NEW a \in Nat, NEW c \in Nat \ {0}
    PROVE  /\ a \div c \in Nat /\ a % c \in Nat /\ a % c < c
           /\ c * (a \div c) <= a /\ a < c * (a \div c) + c
           /\ a % c = 0 => a = c * (a \div c)
<1> DEFINE q == a \div c
           r == a - c * q
<1>1. q \in Nat /\ c * q <= a /\ a < c * q + c
  OBVIOUS
<1>2. r \in 0 .. (c - 1) /\ a = c * q + r
  BY <1>1
<1>3. ASSUME NEW x \in Nat, NEW y \in 0 .. (c - 1), a = c * x + y
      PROVE  a % c = y
  BY <1>3
<1>4. a % c = r
  BY <1>1, <1>2, <1>3
<1> QED
  BY <1>1, <1>2, <1>4

LEMMA Quotient ==
    ASSUME NEW a \in Nat, NEW c \in Nat \ {0}
    PROVE  (c * a) \div c = a
  OBVIOUS

LEMMA Multiples ==
    ASSUME NEW a \in Nat, NEW b \in Nat, NEW c \in Nat \ {0}
    PROVE  /\ c * a \in Nat
           /\ a <= b => c * a <= c * b
           /\ a < b => c * a + c <= c * b
           /\ c * (a + b) = c * a + c * b
  OBVIOUS

\* The subsets of 1..a+b are pairs of subsets of 1..a and of a+1..a+b.
LEMMA PowerSum ==
    ASSUME NEW a \in Nat, NEW b \in Nat
    PROVE  2^(a + b) = 2^a * 2^b /\ 2^a \in Nat /\ 2^b \in Nat
<1> DEFINE A == 1 .. a
           B == (a + 1) .. (a + b)
           C == 1 .. (a + b)
           P == (SUBSET A) \X (SUBSET B)
           f == [p \in P |-> p[1] \cup p[2]]
<1>1. /\ IsFiniteSet(A) /\ Cardinality(A) = a
      /\ IsFiniteSet(B) /\ Cardinality(B) = b
      /\ IsFiniteSet(C) /\ Cardinality(C) = a + b
  <2>1. ASSUME NEW i \in Nat, NEW j \in Nat
        PROVE  IsFiniteSet((i + 1) .. (i + j)) /\ Cardinality((i + 1) .. (i + j)) = j
    <3>1. /\ IsFiniteSet((i + 1) .. (i + j))
          /\ Cardinality((i + 1) .. (i + j)) =
                IF i + 1 > i + j THEN 0 ELSE (i + j) - (i + 1) + 1
      BY FS_Interval
    <3> QED
      BY <3>1
  <2>2. A = (0 + 1) .. (0 + a) /\ C = (0 + 1) .. (0 + (a + b))
    OBVIOUS
  <2>3. IsFiniteSet(A) /\ Cardinality(A) = a
    BY ONLY <2>1, <2>2
  <2>4. IsFiniteSet(B) /\ Cardinality(B) = b
    BY ONLY <2>1
  <2>5. a + b \in Nat
    OBVIOUS
  <2>6. IsFiniteSet(C) /\ Cardinality(C) = a + b
    BY ONLY <2>1, <2>2, <2>5
  <2> QED
    BY ONLY <2>3, <2>4, <2>6
<1>2. A \cap B = {} /\ A \cup B = C
  OBVIOUS
<1> HIDE DEF A, B, C
<1>3. /\ IsFiniteSet(SUBSET A) /\ Cardinality(SUBSET A) = 2^a
      /\ IsFiniteSet(SUBSET B) /\ Cardinality(SUBSET B) = 2^b
      /\ IsFiniteSet(SUBSET C) /\ Cardinality(SUBSET C) = 2^(a + b)
  BY <1>1, FS_SUBSET
<1>4. IsFiniteSet(P) /\ Cardinality(P) = Cardinality(SUBSET A) * Cardinality(SUBSET B)
  BY <1>3, FS_Product
<1>5. ExistsBijection(P, SUBSET C)
  <2>1. f \in [P -> SUBSET C]
    BY <1>2
  <2>2. IsInjective(f)
    <3>1. ASSUME NEW X \in SUBSET A, NEW Y \in SUBSET B
          PROVE  (X \cup Y) \cap A = X /\ (X \cup Y) \cap B = Y
      BY <1>2
    <3>2. ASSUME NEW p \in P, NEW q \in P, p[1] \cup p[2] = q[1] \cup q[2]
          PROVE  p = q
      <4> DEFINE x == p[1] \cup p[2]
                 y == q[1] \cup q[2]
      <4>1. x \cap A = p[1] /\ x \cap B = p[2] /\ y \cap A = q[1] /\ y \cap B = q[2]
        BY <3>1
      <4>2. x = y
        BY <3>2
      <4> HIDE DEF x, y
      <4>3. p[1] = q[1] /\ p[2] = q[2]
        BY ONLY <4>1, <4>2
      <4> QED
        BY <4>3
    <3> QED
      BY <3>2, Zenon DEF IsInjective
  <2>3. ASSUME NEW X \in SUBSET C PROVE \E p \in P : f[p] = X
    <3>1. <<X \cap A, X \cap B>> \in P /\ (X \cap A) \cup (X \cap B) = X
      BY <1>2
    <3>2. f[<<X \cap A, X \cap B>>] = X
      BY <3>1
    <3> QED
      BY <3>1, <3>2
  <2> HIDE DEF P, f
  <2> QED
    BY <2>1, <2>2, <2>3 DEF ExistsBijection, Bijection, Injection, Surjection
<1> HIDE DEF P, f
<1>6. Cardinality(SUBSET C) = Cardinality(P)
  BY <1>4, <1>5, FS_Bijection
<1>7. Cardinality(SUBSET A) \in Nat /\ Cardinality(SUBSET B) \in Nat
  BY <1>3, FS_CardinalityType
<1> QED
  BY <1>3, <1>4, <1>6, <1>7

LEMMA Powers ==
    /\ 2^0 = 1 /\ 2^1 = 2
    /\ \A k \in Nat : 2^k \in Nat \ {0}
<1>1. 2^0 = 1
  <2>1. IsFiniteSet({}) /\ Cardinality({}) = 0
    BY FS_EmptySet
  <2>2. Cardinality(SUBSET {}) = 2^0
    BY <2>1, FS_SUBSET
  <2>3. SUBSET {} = {{}}
    OBVIOUS
  <2> QED
    BY <2>2, <2>3, FS_Singleton
<1>2. 2^1 = 2
  <2>1. IsFiniteSet({1}) /\ Cardinality({1}) = 1
    BY FS_Singleton
  <2>2. Cardinality(SUBSET {1}) = 2^1
    BY <2>1, FS_SUBSET
  <2>3. SUBSET {1} = {{}} \cup {{1}}
    OBVIOUS
  <2>4. IsFiniteSet({{}}) /\ Cardinality({{}}) = 1 /\ {1} \notin {{}}
    BY FS_Singleton
  <2>5. Cardinality({{}} \cup {{1}}) = 1 + 1
    BY <2>4, FS_AddElement
  <2> QED
    BY <2>2, <2>3, <2>5
<1>3. ASSUME NEW k \in Nat PROVE 2^k \in Nat \ {0}
  <2>1. IsFiniteSet(1 .. k) /\ Cardinality(1 .. k) = k
    BY FS_Interval
  <2>2. IsFiniteSet(SUBSET (1 .. k)) /\ Cardinality(SUBSET (1 .. k)) = 2^k
    BY <2>1, FS_SUBSET
  <2>3. SUBSET (1 .. k) # {}
    OBVIOUS
  <2> QED
    BY <2>2, <2>3, FS_EmptySet, FS_CardinalityType
<1> QED
  BY <1>1, <1>2, <1>3

-----------------------------------------------------------------------------
(* Nodes                                                                   *)

Width(k) == ChunkSize * 2^k

LEMMA WidthType ==
    ASSUME NEW k \in Nat PROVE Width(k) \in Nat \ {0}
  BY Powers, ChunkAssumption DEF Width

\* Of two widths the greater is a multiple, by at least two.
LEMMA WidthTimes ==
    ASSUME NEW k \in Nat, NEW j \in Nat, k <= j
    PROVE  \E p \in Nat \ {0} : /\ Width(j) = Width(k) * p
                                /\ k = j => p = 1
                                /\ k # j => \E q \in Nat \ {0} : p = 2 * q
<1> DEFINE d == j - k
<1>1. d \in Nat /\ j = k + d
  OBVIOUS
<1>2. 2^d \in Nat \ {0} /\ 2^k \in Nat
  BY <1>1, Powers
<1>3. 2^j = 2^k * 2^d
  BY <1>1, PowerSum
<1>4. Width(j) = Width(k) * 2^d
  <2>1. ASSUME NEW a \in Nat, NEW b \in Nat, NEW c \in Nat PROVE a * (b * c) = (a * b) * c
    OBVIOUS
  <2> QED
    BY <1>2, <1>3, <2>1, ChunkAssumption DEF Width
<1>5. CASE k = j
  BY <1>1, <1>4, <1>5, Powers, WidthType
<1>6. CASE k # j
  <2>1. d - 1 \in Nat /\ d = 1 + (d - 1)
    BY <1>6
  <2>2. 2^(1 + (d - 1)) = 2^1 * 2^(d - 1)
    BY ONLY <2>1, PowerSum
  <2>3. 2^d = 2 * 2^(d - 1) /\ 2^(d - 1) \in Nat \ {0}
    BY ONLY <2>1, <2>2, Powers
  <2> QED
    BY <1>2, <1>4, <1>6, <2>3
<1> QED
  BY <1>5, <1>6

LEMMA WidthGrows ==
    ASSUME NEW k \in Nat, NEW j \in Nat, k < j
    PROVE  2 * Width(k) <= Width(j)
<1>1. PICK p \in Nat \ {0} : Width(j) = Width(k) * p /\ \E q \in Nat \ {0} : p = 2 * q
  <2>1. k <= j /\ k # j
    OBVIOUS
  <2> HIDE DEF Width
  <2> QED
    BY <2>1, WidthTimes, ZenonT(30)
<1>2. p >= 2
  BY <1>1
<1>3. Width(k) * 2 <= Width(k) * p
  BY <1>2, Multiples, WidthType
<1> QED
  BY <1>1, <1>3, WidthType

LEMMA SizeIsWidth == Size = Width(Depth) /\ Size \in Nat \ {0}
  BY WidthType, DepthAssumption DEF Size, Width

\* A node is a multiple of a width, inside the tree.
LEMMA NodeShape ==
    ASSUME NEW n \in Nodes
    PROVE  \E k \in 0 .. Depth, i \in Nat :
              n = <<Width(k) * i, Width(k)>> /\ Width(k) * i + Width(k) <= Size
<1>1. PICK k \in 0 .. Depth : n \in NodesOf(Width(k))
  BY DEF Nodes, Width
<1>2. PICK i \in 0 .. ((Size \div Width(k)) - 1) : n = <<Width(k) * i, Width(k)>>
  BY <1>1 DEF NodesOf
<1>3. k \in Nat /\ k <= Depth /\ Width(k) \in Nat \ {0}
  BY DepthAssumption, WidthType
<1>4. PICK p \in Nat \ {0} : Size = Width(k) * p
  BY <1>3, WidthTimes, SizeIsWidth, DepthAssumption
<1>5. Size \div Width(k) = p
  BY <1>3, <1>4, Quotient
<1>6. i \in Nat /\ i < p
  BY <1>5
<1>7. Width(k) * i + Width(k) <= Width(k) * p
  BY <1>3, <1>6, Multiples
<1> QED
  BY <1>2, <1>4, <1>6, <1>7

LEMMA AlignedIsNode ==
    ASSUME NEW k \in 0 .. Depth, NEW i \in Nat, Width(k) * i < Size
    PROVE  <<Width(k) * i, Width(k)>> \in Nodes /\ Width(k) * i + Width(k) <= Size
<1>1. k \in Nat /\ k <= Depth /\ Width(k) \in Nat \ {0}
  BY DepthAssumption, WidthType
<1>2. PICK p \in Nat \ {0} : Size = Width(k) * p
  BY <1>1, WidthTimes, SizeIsWidth, DepthAssumption
<1>3. Size \div Width(k) = p
  BY <1>1, <1>2, Quotient
<1>4. i < p
  <2> SUFFICES ASSUME p <= i PROVE FALSE
    OBVIOUS
  <2>1. Width(k) * p <= Width(k) * i /\ Width(k) * p \in Nat /\ Width(k) * i \in Nat
    BY <1>1, Multiples
  <2> QED
    BY <1>2, <2>1
<1>5. Width(k) * i + Width(k) <= Width(k) * p
  BY <1>1, <1>4, Multiples
<1>6. i \in 0 .. ((Size \div Width(k)) - 1)
  BY <1>3, <1>4
<1>7. <<Width(k) * i, Width(k)>> \in NodesOf(Width(k))
  BY <1>6 DEF NodesOf
<1> QED
  BY <1>2, <1>5, <1>7 DEF Nodes, Width

LEMMA NodeType1 ==
    ASSUME NEW n \in Nodes
    PROVE  /\ First(n) \in Nat /\ Length(n) \in Nat \ {0}
           /\ Limit(n) \in Nat /\ Limit(n) <= Size /\ Limit(n) = First(n) + Length(n)
           /\ First(n) \in Addresses
           /\ n = <<First(n), Length(n)>>
           /\ ChunkSize <= Length(n)
           /\ IsLeaf(n) <=> Length(n) = ChunkSize
<1>1. PICK k \in 0 .. Depth, i \in Nat :
         n = <<Width(k) * i, Width(k)>> /\ Width(k) * i + Width(k) <= Size
  BY NodeShape
<1>2. k \in Nat /\ Width(k) \in Nat \ {0} /\ Width(k) * i \in Nat
  BY DepthAssumption, WidthType, Multiples
<1>3. Width(0) = ChunkSize /\ Width(0) <= Width(k)
  <2>1. Width(0) = ChunkSize
    BY Powers, ChunkAssumption DEF Width
  <2>2. CASE k = 0
    BY <2>1, <2>2, ChunkAssumption
  <2>3. CASE k # 0
    <3>1. 0 \in Nat /\ k \in Nat /\ 0 < k
      BY <1>2, <2>3
    <3>2. 2 * Width(0) <= Width(k)
      BY ONLY <3>1, WidthGrows
    <3> QED
      BY <1>2, <2>1, <3>2, ChunkAssumption
  <2> QED
    BY <2>1, <2>2, <2>3
<1>4. /\ First(n) = Width(k) * i /\ Length(n) = Width(k)
      /\ Limit(n) = Width(k) * i + Width(k)
  BY <1>1 DEF First, Length, Limit
<1>5. Size \in Nat
  BY SizeIsWidth
<1> HIDE DEF Width
<1> QED
  BY <1>1, <1>2, <1>3, <1>4, <1>5, ChunkAssumption DEF Addresses, IsLeaf

\* Nodes are nested or apart.
LEMMA NestedOrApart ==
    ASSUME NEW n \in Nodes, NEW m \in Nodes, Length(n) <= Length(m)
    PROVE  Inside(n, m) \/ Limit(n) <= First(m) \/ Limit(m) <= First(n)
<1>1. PICK k \in 0 .. Depth, i \in Nat : n = <<Width(k) * i, Width(k)>>
  BY NodeShape
<1>2. PICK l \in 0 .. Depth, j \in Nat : m = <<Width(l) * j, Width(l)>>
  BY NodeShape
<1>3. k \in Nat /\ l \in Nat /\ Width(k) \in Nat \ {0} /\ Width(l) \in Nat \ {0}
  BY DepthAssumption, WidthType
<1>4. k <= l
  <2> SUFFICES ASSUME l < k PROVE FALSE
    BY <1>3
  <2>1. 2 * Width(l) <= Width(k)
    BY <1>3, WidthGrows
  <2>2. Width(k) <= Width(l)
    BY <1>1, <1>2 DEF Length
  <2> QED
    BY <1>3, <2>1, <2>2
<1>5. PICK p \in Nat \ {0} : Width(l) = Width(k) * p
  BY <1>3, <1>4, WidthTimes
<1> DEFINE w == Width(k)
<1>6. /\ First(n) = w * i /\ Limit(n) = w * i + w
      /\ First(m) = (w * p) * j /\ Limit(m) = (w * p) * j + w * p
  BY <1>1, <1>2, <1>5 DEF First, Limit
<1>7. w \in Nat \ {0}
  BY <1>3
<1> HIDE DEF w
<1>8. (w * p) * j = w * (p * j) /\ p * j \in Nat /\ w * (p * j + p) = w * (p * j) + w * p
      /\ w * i \in Nat /\ w * (p * j) \in Nat /\ w * p \in Nat
  BY <1>7
<1> DEFINE b == p * j
           e == p * j + p
<1>9. b \in Nat /\ e \in Nat
  BY <1>8
<1>10. First(m) = w * b /\ Limit(m) = w * e
  BY <1>6, <1>8
<1> HIDE DEF b, e
<1>11. CASE i < b
  BY <1>6, <1>7, <1>9, <1>10, <1>11, Multiples
<1>12. CASE e <= i
  BY <1>6, <1>7, <1>9, <1>10, <1>12, Multiples
<1>13. CASE b <= i /\ i < e
  BY <1>6, <1>7, <1>9, <1>10, <1>13, Multiples DEF Inside
<1> QED
  BY <1>9, <1>11, <1>12, <1>13

\* A node above another is at least twice as long.
LEMMA AboveIsLonger ==
    ASSUME NEW n \in Nodes, NEW m \in Nodes, Above(m, n)
    PROVE  2 * Length(n) <= Length(m) /\ ~ IsLeaf(m)
<1>1. PICK k \in 0 .. Depth, i \in Nat : n = <<Width(k) * i, Width(k)>>
  BY NodeShape
<1>2. PICK l \in 0 .. Depth, j \in Nat : m = <<Width(l) * j, Width(l)>>
  BY NodeShape
<1>3. k \in Nat /\ l \in Nat /\ Width(k) \in Nat \ {0} /\ Width(l) \in Nat \ {0}
  BY DepthAssumption, WidthType
<1>4. Length(n) = Width(k) /\ Length(m) = Width(l)
  BY <1>1, <1>2 DEF Length
<1>5. /\ First(m) <= First(n) /\ Limit(n) <= Limit(m) /\ m # n
      /\ First(m) \in Nat /\ First(n) \in Nat
      /\ Limit(m) = First(m) + Length(m) /\ Limit(n) = First(n) + Length(n)
      /\ n = <<First(n), Length(n)>> /\ m = <<First(m), Length(m)>>
      /\ Length(n) \in Nat \ {0} /\ Length(m) \in Nat \ {0}
  BY NodeType1 DEF Above, Inside
<1>6. k # l
  BY <1>4, <1>5
<1>7. ~ (l < k)
  <2> SUFFICES ASSUME l < k PROVE FALSE
    OBVIOUS
  <2>1. 2 * Width(l) <= Width(k)
    BY <1>3, WidthGrows
  <2> QED
    BY <1>3, <1>4, <1>5, <2>1
<1>8. 2 * Width(k) <= Width(l)
  BY <1>3, <1>6, <1>7, WidthGrows
<1>9. 2 * Length(n) <= Length(m)
  BY <1>4, <1>8
<1> QED
  BY <1>5, <1>9, NodeType1

LEMMA AncestorsOf ==
    ASSUME NEW n \in Nodes
    PROVE  \A m : m \in Ancestors[n] <=> m \in Nodes /\ Above(m, n)
  BY DEF Ancestors

LEMMA PathOf ==
    ASSUME NEW a \in Addresses
    PROVE  \A n : n \in Paths[a] <=> n \in Nodes /\ Covers(n, a)
  BY DEF Paths

LEMMA AddressIsNat ==
    ASSUME NEW a \in Addresses PROVE a \in Nat /\ a < Size
  BY SizeIsWidth DEF Addresses

\* The nodes that cover an address lie above each other.
LEMMA PathIsChain ==
    ASSUME NEW n \in Nodes, NEW m \in Nodes, NEW a \in Int, Covers(n, a), Covers(m, a),
           Length(n) <= Length(m)
    PROVE  n = m \/ Above(m, n)
<1>1. /\ First(n) <= a /\ a < Limit(n) /\ First(m) <= a /\ a < Limit(m)
      /\ First(n) \in Nat /\ First(m) \in Nat /\ Limit(n) \in Nat /\ Limit(m) \in Nat
  BY NodeType1 DEF Covers
<1>2. Inside(n, m)
  <2>1. ~ (Limit(n) <= First(m)) /\ ~ (Limit(m) <= First(n))
    BY <1>1
  <2> QED
    BY <2>1, NestedOrApart
<1> QED
  BY <1>2 DEF Above

LEMMA AboveCovers ==
    ASSUME NEW n \in Nodes, NEW m \in Nodes, Above(m, n), NEW a \in Int, Covers(n, a)
    PROVE  Covers(m, a)
<1>1. /\ First(n) <= a /\ a < Limit(n) /\ First(m) <= First(n) /\ Limit(n) <= Limit(m)
      /\ First(n) \in Nat /\ First(m) \in Nat /\ Limit(n) \in Nat /\ Limit(m) \in Nat
  BY NodeType1 DEF Covers, Above, Inside
<1> QED
  BY <1>1 DEF Covers

LEMMA AboveTransitive ==
    ASSUME NEW l \in Nodes, NEW m \in Nodes, NEW n \in Nodes, Above(l, m), Above(m, n)
    PROVE  Above(l, n)
<1>1. /\ First(l) <= First(m) /\ First(m) <= First(n)
      /\ Limit(n) <= Limit(m) /\ Limit(m) <= Limit(l)
  BY DEF Above, Inside
<1>2. \A x \in {l, m, n} : First(x) \in Nat /\ Limit(x) \in Nat /\ Length(x) \in Nat \ {0}
  BY NodeType1
<1>3. Inside(n, l)
  BY <1>1, <1>2 DEF Inside
<1>4. 2 * Length(n) <= Length(m) /\ 2 * Length(m) <= Length(l)
  BY AboveIsLonger
<1>5. l # n
  BY <1>2, <1>4
<1> QED
  BY <1>3, <1>5 DEF Above

LEMMA CoversFirst ==
    ASSUME NEW n \in Nodes
    PROVE  Covers(n, First(n)) /\ First(n) \in Int
<1>1. First(n) \in Nat /\ Length(n) \in Nat \ {0} /\ Limit(n) = First(n) + Length(n)
  BY NodeType1
<1> QED
  BY <1>1 DEF Covers

\* The leaf of an address.
LeafOf(a) == <<ChunkSize * (a \div ChunkSize), ChunkSize>>

LEMMA LeafIsNode ==
    ASSUME NEW a \in Addresses
    PROVE  /\ LeafOf(a) \in Nodes /\ IsLeaf(LeafOf(a)) /\ Covers(LeafOf(a), a)
           /\ Length(LeafOf(a)) = ChunkSize
<1>1. Width(0) = ChunkSize /\ ChunkSize \in Nat \ {0} /\ 0 \in 0 .. Depth
  BY Powers, ChunkAssumption, DepthAssumption DEF Width
<1>2. a \in Nat /\ a < Size /\ Size \in Nat
  BY AddressIsNat, SizeIsWidth
<1> DEFINE i == a \div ChunkSize
<1>3. i \in Nat /\ ChunkSize * i <= a /\ a < ChunkSize * i + ChunkSize /\ ChunkSize * i \in Nat
  BY <1>1, <1>2, Division, Multiples
<1>4. LeafOf(a) = <<ChunkSize * i, ChunkSize>>
  BY DEF LeafOf
<1> HIDE DEF i
<1>5. ChunkSize * i < Size
  BY <1>1, <1>2, <1>3
<1>6. <<ChunkSize * i, ChunkSize>> \in Nodes
  BY <1>1, <1>3, <1>5, AlignedIsNode
<1> QED
  BY <1>1, <1>3, <1>4, <1>6 DEF IsLeaf, Covers, First, Length, Limit

LEMMA OneLeaf ==
    ASSUME NEW n \in Nodes, IsLeaf(n), NEW a \in Addresses, Covers(n, a)
    PROVE  n = LeafOf(a)
<1>1. LeafOf(a) \in Nodes /\ Covers(LeafOf(a), a) /\ a \in Int /\ Length(LeafOf(a)) = ChunkSize
  BY LeafIsNode, AddressIsNat
<1>2. Length(n) = ChunkSize
  BY NodeType1
<1>3. n = LeafOf(a) \/ Above(LeafOf(a), n)
  BY <1>1, <1>2, PathIsChain, ChunkAssumption
<1> QED
  BY <1>1, <1>3, AboveIsLonger, LeafIsNode

LEMMA AboveLeaf ==
    ASSUME NEW n \in Nodes, NEW a \in Addresses, Covers(n, a)
    PROVE  n = LeafOf(a) \/ Above(n, LeafOf(a))
<1>1. LeafOf(a) \in Nodes /\ Covers(LeafOf(a), a) /\ a \in Int /\ Length(LeafOf(a)) = ChunkSize
  BY LeafIsNode, AddressIsNat
<1>2. ChunkSize <= Length(n)
  BY NodeType1
<1> QED
  BY <1>1, <1>2, PathIsChain

LEMMA LeafHasNoneBelow ==
    ASSUME NEW n \in Nodes, NEW m \in Nodes, Above(m, n)
    PROVE  ~ IsLeaf(m)
  BY AboveIsLonger

LEMMA RootIsNode ==
    Root \in Nodes /\ \A n \in Nodes : n = Root \/ Above(Root, n)
<1>1. Depth \in 0 .. Depth /\ Width(Depth) = Size /\ Size \in Nat \ {0} /\ 0 \in Nat
  BY SizeIsWidth, DepthAssumption
<1>2. Size * 0 = 0
  BY <1>1
<1>3. Root \in Nodes
  <2>1. Width(Depth) * 0 < Size
    BY <1>1, <1>2
  <2>2. <<Width(Depth) * 0, Width(Depth)>> \in Nodes
    BY ONLY <1>1, <2>1, AlignedIsNode
  <2> QED
    BY <1>1, <1>2, <2>2 DEF Root
<1>4. ASSUME NEW n \in Nodes PROVE Inside(n, Root)
  <2>1. First(n) \in Nat /\ Limit(n) \in Nat /\ Limit(n) <= Size
    BY NodeType1
  <2>2. First(Root) = 0 /\ Limit(Root) = Size
    BY <1>1 DEF Root, First, Limit
  <2> QED
    BY <2>1, <2>2 DEF Inside
<1> QED
  BY <1>3, <1>4 DEF Above

\* Whatever is above a child is its parent or above that one.
LEMMA ChildrenAreNodes ==
    ASSUME NEW n \in Nodes, ~ IsLeaf(n), NEW c \in Children(n)
    PROVE  /\ c \in Nodes /\ Above(n, c)
           /\ \A m \in Nodes : Above(m, c) => m = n \/ Above(m, n)
<1>1. PICK k \in 0 .. Depth, i \in Nat :
         n = <<Width(k) * i, Width(k)>> /\ Width(k) * i + Width(k) <= Size
  BY NodeShape
<1>2. k \in Nat /\ k <= Depth /\ Width(k) \in Nat \ {0} /\ Width(k) * i \in Nat
  BY DepthAssumption, WidthType, Multiples
<1>3. k # 0
  <2>1. Width(0) = ChunkSize
    BY Powers, ChunkAssumption DEF Width
  <2> QED
    BY <1>1, <2>1, ChunkAssumption DEF IsLeaf, Length
<1> DEFINE w == Width(k - 1)
<1>4. k - 1 \in 0 .. Depth /\ k - 1 \in Nat /\ w \in Nat \ {0}
  BY <1>2, <1>3, WidthType, DepthAssumption
<1>5. Width(k) = 2 * w
  <2>1. 2^(1 + (k - 1)) = 2^1 * 2^(k - 1) /\ 2^(k - 1) \in Nat
    BY ONLY <1>4, PowerSum, Zenon
  <2>2. 1 + (k - 1) = k
    BY <1>2
  <2>3. 2^k = 2 * 2^(k - 1)
    BY ONLY <2>1, <2>2, Powers
  <2>4. ASSUME NEW x \in Nat, NEW y \in Nat PROVE x * (2 * y) = 2 * (x * y)
    OBVIOUS
  <2> QED
    BY <2>1, <2>3, <2>4, ChunkAssumption DEF Width
<1> HIDE DEF w
<1>6. (2 * w) \div 2 = w
  BY <1>4
<1>7. (2 * w) * i = w * (2 * i) /\ (2 * w) * i + w = w * (2 * i + 1) /\ 2 * i \in Nat /\ 2 * i + 1 \in Nat
  BY <1>4
<1>8. PICK j \in Nat : c = <<w * j, w>> /\ w * j \in {(2 * w) * i, (2 * w) * i + w}
  BY <1>1, <1>5, <1>6, <1>7 DEF Children, First, Length
<1>9. /\ First(n) = (2 * w) * i /\ Limit(n) = (2 * w) * i + 2 * w /\ Length(n) = 2 * w
      /\ First(c) = w * j /\ Limit(c) = w * j + w /\ Length(c) = w
  BY <1>1, <1>5, <1>8 DEF First, Limit, Length
<1>10. /\ (2 * w) * i + 2 * w <= Size /\ (2 * w) * i \in Nat /\ w * j \in Nat /\ Size \in Nat
  <2>1. (2 * w) * i + 2 * w <= Size /\ (2 * w) * i \in Nat
    BY <1>1, <1>2, <1>5
  <2>2. w * j \in Nat
    BY <1>4, <1>8
  <2> QED
    BY <2>1, <2>2, SizeIsWidth
<1>11. c \in Nodes
  <2>1. w * j < Size
    BY <1>4, <1>8, <1>10
  <2> QED
    BY <1>4, <1>8, <2>1, AlignedIsNode DEF w
<1>12. Above(n, c)
  <2>1. Inside(c, n)
    BY <1>4, <1>8, <1>9, <1>10 DEF Inside
  <2>2. n # c
    BY <1>4, <1>9
  <2> QED
    BY <2>1, <2>2 DEF Above
<1>13. ASSUME NEW m \in Nodes, Above(m, c) PROVE m = n \/ Above(m, n)
  <2>1. 2 * Length(c) <= Length(m)
    BY <1>11, <1>13, AboveIsLonger
  <2>2. Length(n) <= Length(m)
    BY <1>9, <2>1
  <2>3. Covers(c, First(c)) /\ First(c) \in Int
    BY <1>11, CoversFirst
  <2>4. Covers(m, First(c)) /\ Covers(n, First(c))
    BY <1>11, <1>12, <1>13, <2>3, AboveCovers
  <2> QED
    BY <2>2, <2>3, <2>4, PathIsChain
<1> QED
  BY <1>11, <1>12, <1>13

LEMMA HasParent ==
    ASSUME NEW n \in Nodes, n # Root
    PROVE  \E m \in Nodes : ~ IsLeaf(m) /\ n \in Children(m) /\ Above(m, n)
<1>1. PICK k \in 0 .. Depth, i \in Nat :
         n = <<Width(k) * i, Width(k)>> /\ Width(k) * i + Width(k) <= Size
  BY NodeShape
<1>2. k \in Nat /\ k <= Depth /\ Width(k) \in Nat \ {0} /\ Width(k) * i \in Nat /\ Size \in Nat
  BY DepthAssumption, WidthType, Multiples, SizeIsWidth
<1>3. k # Depth
  <2> SUFFICES ASSUME k = Depth PROVE FALSE
    OBVIOUS
  <2>1. Width(k) = Size
    BY SizeIsWidth
  <2>2. Width(k) * i = 0
    BY <1>1, <1>2, <2>1
  <2> QED
    BY <1>1, <2>1, <2>2 DEF Root
<1> DEFINE w == Width(k)
           v == Width(k + 1)
           j == i \div 2
           m == <<v * j, v>>
<1>4. k + 1 \in 0 .. Depth /\ k + 1 \in Nat
  BY <1>2, <1>3, DepthAssumption
<1>5. v = 2 * w /\ w \in Nat \ {0}
  <2>1. 2^(1 + k) = 2^1 * 2^k /\ 2^k \in Nat
    BY ONLY <1>2, PowerSum
  <2>2. 1 + k = k + 1
    BY <1>2
  <2>3. 2^(k + 1) = 2 * 2^k
    BY ONLY <2>1, <2>2, Powers
  <2>4. ASSUME NEW x \in Nat, NEW y \in Nat PROVE x * (2 * y) = 2 * (x * y)
    OBVIOUS
  <2> QED
    BY <1>2, <2>1, <2>3, <2>4, ChunkAssumption DEF Width
<1>6. n = <<w * i, w>> /\ w * i + w <= Size
  BY <1>1
<1> HIDE DEF w
<1>7. j \in Nat /\ (i = 2 * j \/ i = 2 * j + 1)
  OBVIOUS
<1> HIDE DEF j
<1>8. (2 * w) * j = w * (2 * j) /\ (2 * w) * j + w = w * (2 * j + 1) /\ (2 * w) * j \in Nat
  BY <1>5, <1>7
<1>9. w * i = v * j \/ w * i = v * j + w
  BY <1>5, <1>7, <1>8
<1>10. v * j < Size
  BY <1>2, <1>5, <1>6, <1>8, <1>9
<1>11. m \in Nodes
  BY <1>4, <1>7, <1>10, AlignedIsNode
<1>12. (2 * w) \div 2 = w
  BY <1>5
<1>13. First(m) = v * j /\ Length(m) = v /\ Length(m) \div 2 = w
  BY <1>5, <1>12 DEF First, Length
<1>14. n \in Children(m)
  BY <1>6, <1>9, <1>13 DEF Children
<1>15. ~ IsLeaf(m)
  <2>1. Length(n) = w /\ ChunkSize <= Length(n)
    BY <1>6, NodeType1 DEF Length
  <2> QED
    BY <1>5, <1>13, <2>1, ChunkAssumption DEF IsLeaf
<1> QED
  BY <1>11, <1>14, <1>15, ChildrenAreNodes

LEMMA RootIsAlone == Ancestors[Root] = {}
<1> SUFFICES ASSUME NEW m \in Ancestors[Root] PROVE FALSE
  OBVIOUS
<1>1. m \in Nodes /\ Above(m, Root) /\ Root \in Nodes
  BY RootIsNode, AncestorsOf
<1>2. Above(Root, m)
  BY <1>1, RootIsNode DEF Above
<1>3. 2 * Length(m) <= Length(Root) /\ 2 * Length(Root) <= Length(m)
  BY <1>1, <1>2, AboveIsLonger
<1> QED
  BY <1>1, <1>3, NodeType1

\* The smallest and the largest of some nodes.
LEMMA SmallestIsOne ==
    ASSUME NEW S \in SUBSET Nodes, S # {}
    PROVE  Smallest(S) \in S /\ \A m \in S : Length(Smallest(S)) <= Length(m)
<1> DEFINE T == {Length(n) : n \in S}
<1>1. T \in SUBSET Nat /\ T # {}
  <2>1. \A n \in S : Length(n) \in Nat
    BY NodeType1
  <2> QED
    BY <2>1
<1>2. PICK x \in T : \A y \in T : x <= y
  BY <1>1, Least
<1>3. PICK n \in S : Length(n) = x
  BY <1>2
<1>4. \A m \in S : Length(n) <= Length(m)
  BY <1>2, <1>3
<1> QED
  BY <1>3, <1>4 DEF Smallest

LEMMA LargestIsOne ==
    ASSUME NEW S \in SUBSET Nodes, S # {}
    PROVE  Largest(S) \in S /\ \A m \in S : Length(m) <= Length(Largest(S))
<1> DEFINE T == {Length(n) : n \in S}
<1>1. T \in SUBSET (0 .. Size) /\ T # {} /\ Size \in Nat
  <2>1. \A n \in S : Length(n) \in 0 .. Size
    <3> TAKE n \in S
    <3>1. /\ Length(n) \in Nat /\ First(n) \in Nat /\ Limit(n) = First(n) + Length(n)
          /\ Limit(n) <= Size
      BY NodeType1
    <3> QED
      BY <3>1, SizeIsWidth
  <2> QED
    BY <2>1, SizeIsWidth
<1>2. PICK x \in T : \A y \in T : y <= x
  BY <1>1, Greatest
<1>3. PICK n \in S : Length(n) = x
  BY <1>2
<1>4. \A m \in S : Length(m) <= Length(n)
  BY <1>2, <1>3
<1> QED
  BY <1>3, <1>4 DEF Largest

-----------------------------------------------------------------------------
(* Trees                                                                   *)

\* What TypeOK says of a tree, and that a fill is a byte where it is used.
NodeOK(n, node) ==
    /\ node \in NodeType
    /\ node.chunk # NoChunk => IsLeaf(n)
    /\ node.state = "Memset" => node.memSetTo \in Bytes

TreeOK(t) ==
    /\ DOMAIN t \subseteq Nodes
    /\ \A n \in DOMAIN t : NodeOK(n, t[n]) /\ Ancestors[n] \subseteq DOMAIN t

\* Nodes that a descent opens.
Opening(o) == \A n \in o : n \in Nodes /\ ~ IsLeaf(n) /\ Ancestors[n] \subseteq o

LEMMA ForcedOK ==
    ASSUME NEW t, TreeOK(t), NEW n \in Nodes
    PROVE  NodeOK(n, Forced(t, n))
<1>1. CASE n \in DOMAIN t
  BY <1>1 DEF Forced, TreeOK
<1>2. FreshNode \in NodeType /\ NodeOK(n, FreshNode)
  BY SizeIsWidth DEF FreshNode, Node, NodeOK, NodeType, NoChunk, Statuses, States
<1>3. CASE n \notin DOMAIN t
  <2> DEFINE above == Ancestors[n] \cap DOMAIN t
  <2>1. CASE above = {}
    BY <1>2, <1>3, <2>1 DEF Forced
  <2>2. CASE above # {}
    <3> DEFINE m == Smallest(above)
    <3>1. m \in above /\ above \in SUBSET Nodes
      BY <2>2, SmallestIsOne DEF TreeOK
    <3>2. NodeOK(m, t[m])
      BY <3>1 DEF TreeOK
    <3>3. Forced(t, n) = [FreshNode EXCEPT !.state = t[m].state, !.memSetTo = t[m].memSetTo]
      BY <1>3, <2>2 DEF Forced
    <3> HIDE DEF m, above
    <3> QED
      BY <1>2, <3>2, <3>3, Zenon DEF NodeOK, NodeType, FreshNode, Node
  <2> QED
    BY <2>1, <2>2
<1> QED
  BY <1>1, <1>3

\* What a descent leaves: the opened nodes have no state any more, the others
\* are as they were, and new ones are free.
LEMMA DescendOK ==
    ASSUME NEW t, TreeOK(t), NEW o, Opening(o)
    PROVE  /\ TreeOK(Descend(t, o))
           /\ DOMAIN t \subseteq DOMAIN Descend(t, o)
           /\ \A n \in o : /\ n \in DOMAIN Descend(t, o) /\ Children(n) \subseteq DOMAIN Descend(t, o)
                           /\ Descend(t, o)[n].state = "Unknown"
           /\ Root \in DOMAIN Descend(t, o)
           /\ \A n \in DOMAIN t : Descend(t, o)[n] =
                IF n \in o THEN [t[n] EXCEPT !.state = "Unknown"] ELSE t[n]
           /\ \A n \in DOMAIN Descend(t, o) \ DOMAIN t : Descend(t, o)[n].status = "Unallocated"
<1> DEFINE forced == {Root} \cup o \cup UNION {Children(n) : n \in o}
           D == forced \cup DOMAIN t
           u == Descend(t, o)
<1>1. u = [n \in D |-> IF n \in o THEN [Forced(t, n) EXCEPT !.state = "Unknown"] ELSE Forced(t, n)]
  BY DEF Descend
<1>2. forced \subseteq Nodes
  BY RootIsNode, ChildrenAreNodes DEF Opening
<1>3. D \subseteq Nodes
  BY <1>2 DEF TreeOK
<1>4. ASSUME NEW n \in D PROVE Ancestors[n] \subseteq D
  <2>1. CASE n = Root
    BY <2>1, RootIsAlone
  <2>2. CASE n \in o
    BY <2>2 DEF Opening
  <2>3. CASE n \in DOMAIN t
    BY <2>3 DEF TreeOK
  <2>4. CASE n \in UNION {Children(m) : m \in o}
    <3>1. PICK m \in o : n \in Children(m)
      BY <2>4
    <3>2. m \in Nodes /\ ~ IsLeaf(m) /\ Ancestors[m] \subseteq o
      BY DEF Opening
    <3>3. n \in Nodes /\ \A l \in Nodes : Above(l, n) => l = m \/ Above(l, m)
      BY <3>1, <3>2, ChildrenAreNodes
    <3>4. Ancestors[n] \subseteq Ancestors[m] \cup {m}
      BY <3>2, <3>3, AncestorsOf
    <3> QED
      BY <3>2, <3>4
  <2> QED
    BY <2>1, <2>2, <2>3, <2>4
<1>5. ASSUME NEW n \in D PROVE NodeOK(n, u[n])
  <2>1. NodeOK(n, Forced(t, n))
    BY <1>3, ForcedOK
  <2> HIDE DEF D, u
  <2>2. CASE n \notin o
    BY <1>1, <2>1, <2>2
  <2>3. CASE n \in o
    <3>1. u[n] = [Forced(t, n) EXCEPT !.state = "Unknown"]
      BY <1>1, <2>3
    <3> QED
      BY <2>1, <3>1 DEF NodeOK, NodeType, States
  <2> QED
    BY <2>2, <2>3
<1>6. ASSUME NEW n \in o
      PROVE  n \in D /\ Children(n) \subseteq D /\ u[n].state = "Unknown"
  <2>1. n \in D /\ Children(n) \subseteq D
    OBVIOUS
  <2>2. Forced(t, n) \in NodeType
    BY <1>3, <2>1, ForcedOK DEF NodeOK
  <2> HIDE DEF D, u
  <2>3. u[n] = [Forced(t, n) EXCEPT !.state = "Unknown"]
    BY <1>1, <2>1
  <2> QED
    BY <2>1, <2>2, <2>3 DEF NodeType
<1>7. \A n \in DOMAIN t : Forced(t, n) = t[n]
  BY DEF Forced
<1>8. ASSUME NEW n \in D \ DOMAIN t PROVE u[n].status = "Unallocated"
  <2>1. Forced(t, n).status = "Unallocated" /\ Forced(t, n) \in NodeType
    <3>1. FreshNode.status = "Unallocated"
      BY DEF FreshNode, Node
    <3>2. ASSUME NEW x, NEW y
          PROVE  [FreshNode EXCEPT !.state = x, !.memSetTo = y].status = "Unallocated"
      BY DEF FreshNode, Node
    <3>3. Forced(t, n).status = "Unallocated"
      BY <3>1, <3>2 DEF Forced
    <3> QED
      BY <1>3, <3>3, ForcedOK DEF NodeOK
  <2> HIDE DEF D, u
  <2>2. u[n] = Forced(t, n) \/ u[n] = [Forced(t, n) EXCEPT !.state = "Unknown"]
    BY <1>1
  <2> QED
    BY <2>1, <2>2 DEF NodeType
<1>9. DOMAIN u = D
  BY <1>1
<1>10. \A n \in DOMAIN t : u[n] = IF n \in o THEN [t[n] EXCEPT !.state = "Unknown"] ELSE t[n]
  <2>1. DOMAIN t \subseteq D
    OBVIOUS
  <2> HIDE DEF D, u
  <2> QED
    BY <1>1, <1>7, <2>1
<1>11. DOMAIN t \subseteq D /\ Root \in D
  OBVIOUS
<1> HIDE DEF D
<1> QED
  BY <1>3, <1>4, <1>5, <1>6, <1>8, <1>9, <1>10, <1>11 DEF TreeOK

-----------------------------------------------------------------------------
(* Where a block goes                                                      *)

LEMMA HalfIsWidth ==
    /\ Depth - 1 \in 0 .. Depth /\ Depth - 1 \in Nat
    /\ HalfSize = Width(Depth - 1) /\ Size = 2 * HalfSize /\ HalfSize \in Nat \ {0}
<1>1. Depth - 1 \in Nat /\ Depth \in Nat
  BY DepthAssumption, HalvesAssumption
<1>2. 2^(1 + (Depth - 1)) = 2^1 * 2^(Depth - 1) /\ 2^(Depth - 1) \in Nat
  BY ONLY <1>1, PowerSum
<1>3. 1 + (Depth - 1) = Depth
  BY <1>1
<1>4. 2^Depth = 2 * 2^(Depth - 1)
  BY ONLY <1>2, <1>3, Powers
<1>5. ASSUME NEW x \in Nat, NEW y \in Nat PROVE x * (2 * y) = 2 * (x * y) /\ x * y \in Nat
  OBVIOUS
<1>6. Size = 2 * Width(Depth - 1)
  BY <1>2, <1>4, <1>5, ChunkAssumption DEF Size, Width
<1>7. Width(Depth - 1) \in Nat \ {0}
  BY <1>1, WidthType
<1>8. ASSUME NEW x \in Nat PROVE (2 * x) \div 2 = x
  OBVIOUS
<1> HIDE DEF Width
<1> QED
  BY <1>1, <1>6, <1>7, <1>8 DEF HalfSize

\* The block size is the least width that is enough.
LEMMA RealAmount ==
    ASSUME NEW amount \in 0 .. Size
    PROVE  \E k \in 0 .. Depth :
              /\ calc_real_memory_amount(amount) = Width(k) /\ amount <= Width(k)
              /\ k # 0 => Width(k - 1) < amount
<1> DEFINE amounts == {ChunkSize * 2^k : k \in 0 .. (Depth + 1)}
           enough == {r \in amounts : amount <= r}
<1>1. \A k \in 0 .. (Depth + 1) : k \in Nat /\ Width(k) \in Nat \ {0} /\ Width(k) \in amounts
  BY WidthType DEF Width
<1>2. \A r \in amounts : \E k \in 0 .. (Depth + 1) : r = Width(k)
  BY DEF Width
<1>3. Depth \in 0 .. Depth /\ Depth \in 0 .. (Depth + 1) /\ Width(Depth) = Size /\ Size \in Nat
  BY SizeIsWidth, DepthAssumption
<1> HIDE DEF amounts
<1>4. enough \in SUBSET Nat /\ Size \in enough
  <2>1. \A r \in amounts : r \in Nat
    BY <1>1, <1>2
  <2>2. Size \in amounts
    BY <1>1, <1>3
  <2>3. amount <= Size
    BY SizeIsWidth
  <2> QED
    BY <2>1, <2>2, <2>3
<1>5. PICK x \in enough : \A y \in enough : x <= y
  BY <1>4, Least
<1>6. \E r \in amounts : amount <= r /\ \A s \in amounts : amount <= s => r <= s
  BY <1>5
<1> DEFINE real == CHOOSE r \in amounts : amount <= r /\ \A s \in amounts : amount <= s => r <= s
<1>7. real \in amounts /\ amount <= real /\ \A s \in amounts : amount <= s => real <= s
  BY <1>6
<1>8. calc_real_memory_amount(amount) = real
  BY DEF calc_real_memory_amount, amounts
<1> HIDE DEF real
<1>9. PICK k \in 0 .. (Depth + 1) : real = Width(k)
  BY <1>2, <1>7
<1>10. k # Depth + 1
  <2> SUFFICES ASSUME k = Depth + 1 PROVE FALSE
    OBVIOUS
  <2>1. 2 * Width(Depth) <= Width(Depth + 1)
    BY <1>3, DepthAssumption, WidthGrows
  <2>2. Width(Depth + 1) <= Size
    BY <1>3, <1>4, <1>7, <1>9
  <2> QED
    BY <1>3, <2>1, <2>2, SizeIsWidth, WidthType, DepthAssumption
<1>11. k \in 0 .. Depth
  BY <1>10, DepthAssumption
<1>12. ASSUME k # 0 PROVE Width(k - 1) < amount
  <2> SUFFICES ASSUME ~ (Width(k - 1) < amount) PROVE FALSE
    OBVIOUS
  <2>1. k - 1 \in 0 .. (Depth + 1) /\ k - 1 \in Nat /\ k \in Nat /\ k - 1 < k
    BY <1>12, DepthAssumption
  <2>2. Width(k - 1) \in amounts /\ Width(k - 1) \in Nat \ {0}
    BY <1>1, <2>1
  <2>3. Width(k) <= Width(k - 1)
    BY <1>7, <1>9, <2>2
  <2>4. 2 * Width(k - 1) <= Width(k)
    BY ONLY <2>1, WidthGrows
  <2> QED
    BY <1>1, <2>2, <2>3, <2>4
<1> QED
  BY <1>7, <1>8, <1>9, <1>11, <1>12

LEMMA AlignIs ==
    ASSUME NEW offset \in Nat, NEW real \in Nat \ {0}
    PROVE  \E q \in Nat : Align(offset, real) = real * q /\ offset <= real * q
<1> DEFINE d == offset \div real
<1>1. /\ d \in Nat /\ offset < real * d + real
      /\ offset % real = 0 => offset = real * d
  BY Division
<1>2. real * (d + 1) = real * d + real /\ (d + 1) * real = real * (d + 1) /\ real * d \in Nat
  BY <1>1
<1>3. CASE offset % real = 0
  BY <1>1, <1>2, <1>3 DEF Align
<1>4. CASE offset % real # 0
  <2>1. Align(offset, real) = (d + 1) * real
    BY <1>4 DEF Align
  <2> HIDE DEF d
  <2>2. d + 1 \in Nat /\ offset <= real * (d + 1)
    BY <1>1, <1>2
  <2> QED
    BY <1>2, <2>1, <2>2
<1> QED
  BY <1>3, <1>4

TargetOf(where, size) == Largest({n \in Paths[where] : Fits(n, where, size)})

LEMMA TargetIsNode ==
    ASSUME NEW where \in Addresses, NEW size
    PROVE  LET n == TargetOf(where, size)
           IN  n \in Nodes /\ Covers(n, where) /\ Fits(n, where, size)
<1> DEFINE S == {n \in Paths[where] : Fits(n, where, size)}
<1>1. LeafOf(where) \in S
  BY LeafIsNode, PathOf DEF Fits
<1>2. S \in SUBSET Nodes
  BY PathOf
<1> HIDE DEF S
<1>3. Largest(S) \in S
  BY <1>1, <1>2, LargestIsOne
<1> QED
  BY <1>3, PathOf DEF S, TargetOf

\* A block whose address is a multiple of its width gets the node it fills.
LEMMA TargetIsBlock ==
    ASSUME NEW k \in 0 .. Depth, NEW q \in Nat, Width(k) * q < Size,
           NEW size \in Nat, size <= Width(k), k # 0 => Width(k - 1) < size
    PROVE  /\ Width(k) * q \in Addresses
           /\ TargetOf(Width(k) * q, size) = <<Width(k) * q, Width(k)>>
           /\ <<Width(k) * q, Width(k)>> \in Nodes
<1> DEFINE where == Width(k) * q
           N == <<where, Width(k)>>
           S == {n \in Paths[where] : Fits(n, where, size)}
<1>1. k \in Nat /\ Width(k) \in Nat \ {0} /\ where \in Nat
  BY DepthAssumption, WidthType, Multiples
<1>2. N \in Nodes
  BY AlignedIsNode
<1>3. where \in Addresses
  BY <1>1, SizeIsWidth DEF Addresses
<1>4. First(N) = where /\ Length(N) = Width(k) /\ Covers(N, where)
  BY <1>1 DEF First, Length, Limit, Covers
<1> HIDE DEF N, where
<1>5. Fits(N, where, size)
  <2>1. CASE k = 0
    BY <1>4, <2>1, Powers, ChunkAssumption DEF Fits, IsLeaf, Width
  <2>2. CASE k # 0
    <3>1. k - 1 \in Nat /\ 1 + (k - 1) = k
      BY <1>1, <2>2
    <3>2. 2^(1 + (k - 1)) = 2^1 * 2^(k - 1) /\ 2^(k - 1) \in Nat
      BY ONLY <3>1, PowerSum, Zenon
    <3>3. 2^k = 2 * 2^(k - 1)
      BY ONLY <3>1, <3>2, Powers
    <3>4. ASSUME NEW x \in Nat, NEW y \in Nat PROVE x * (2 * y) = 2 * (x * y) /\ x * y \in Nat
      OBVIOUS
    <3>5. Width(k) = 2 * Width(k - 1) /\ Width(k - 1) \in Nat
      BY <3>2, <3>3, <3>4, ChunkAssumption DEF Width
    <3>6. Width(k) \div 2 = Width(k - 1)
      BY <3>5
    <3> QED
      BY <1>4, <2>2, <3>6 DEF Fits
  <2> QED
    BY <2>1, <2>2
<1>6. N \in S /\ S \in SUBSET Nodes
  BY <1>2, <1>3, <1>4, <1>5, PathOf
<1>7. ASSUME NEW n \in S PROVE Length(n) <= Width(k)
  <2>1. n \in Nodes /\ Fits(n, where, size)
    BY <1>6
  <2>2. CASE IsLeaf(n)
    BY <1>2, <1>4, <2>1, <2>2, NodeType1
  <2>3. CASE Length(n) \div 2 < size
    <3>1. PICK l \in 0 .. Depth, i \in Nat : n = <<Width(l) * i, Width(l)>>
      BY <2>1, NodeShape
    <3>2. l \in Nat /\ Width(l) \in Nat \ {0} /\ Length(n) = Width(l)
      BY <3>1, DepthAssumption, WidthType DEF Length
    <3>3. CASE k < l
      <4>1. 2 * Width(k) <= Width(l)
        BY <1>1, <3>2, <3>3, WidthGrows
      <4> HIDE DEF Width
      <4>2. Width(k) <= Width(l) \div 2
        BY <1>1, <3>2, <4>1
      <4> QED
        BY <1>1, <2>3, <3>2, <4>2
    <3>4. CASE l = k
      BY <1>1, <3>2, <3>4
    <3>5. CASE l < k
      <4>1. 2 * Width(l) <= Width(k)
        BY <1>1, <3>2, <3>5, WidthGrows
      <4> QED
        BY <1>1, <3>2, <4>1
    <3> QED
      BY <1>1, <3>2, <3>3, <3>4, <3>5
  <2> QED
    BY <2>1, <2>2, <2>3 DEF Fits
<1> DEFINE T == TargetOf(where, size)
<1>8. T \in S /\ Length(N) <= Length(T)
  <2> HIDE DEF S
  <2>1. Largest(S) \in S /\ Length(N) <= Length(Largest(S))
    BY <1>6, LargestIsOne
  <2> QED
    BY <2>1 DEF TargetOf, S
<1>9. T \in Nodes /\ Covers(T, where) /\ Length(T) <= Width(k)
  BY <1>3, <1>7, <1>8, PathOf
<1> HIDE DEF T, S
<1>10. T = N \/ Above(T, N)
  BY <1>1, <1>2, <1>4, <1>8, <1>9, PathIsChain
<1>11. T = N
  <2> SUFFICES ASSUME Above(T, N) PROVE FALSE
    BY <1>10
  <2>1. 2 * Length(N) <= Length(T)
    BY <1>2, <1>9, AboveIsLonger
  <2> QED
    BY <1>1, <1>2, <1>4, <1>9, <2>1, NodeType1
<1> QED
  BY <1>2, <1>3, <1>11 DEF T, N, where

-----------------------------------------------------------------------------
(* What the operations do to a tree                                        *)

\* The descent to an address meets no state and finds a byte in its chunk.
Byte(t, a) == t[LeafOf(a)].chunk[a - First(LeafOf(a)) + 1]
Bare(t, a) == \A n \in Paths[a] : n \in DOMAIN t /\ t[n].state = "Unknown"
Holds(t, a, v) == Bare(t, a) /\ t[LeafOf(a)].chunk # NoChunk /\ Byte(t, a) = v

\* Nothing is allocated or freed at a node.
Keeps(t, u, n) ==
    /\ n \in DOMAIN t => /\ n \in DOMAIN u /\ u[n].status = t[n].status
                         /\ u[n].reallyAllocated = t[n].reallyAllocated
    /\ n \in DOMAIN u \ DOMAIN t => u[n].status = "Unallocated"

LEMMA LeafInPath ==
    ASSUME NEW a \in Addresses
    PROVE  LeafOf(a) \in Paths[a]
  BY LeafIsNode, PathOf

LEMMA HoldsIsGet ==
    ASSUME NEW t, NEW a \in Addresses, NEW v, Holds(t, a, v)
    PROVE  Get(t, a) = v
<1> DEFINE S == {n \in Paths[a] : \A m \in Ancestors[n] : m \in DOMAIN t /\ ~ HasState(t, m)}
<1>1. \A n \in Paths[a] : n \in DOMAIN t /\ ~ HasState(t, n) /\ t[n].state = "Unknown"
  BY DEF Holds, Bare, HasState
<1>2. LeafOf(a) \in S
  <2>1. LeafOf(a) \in Nodes /\ Covers(LeafOf(a), a) /\ a \in Int
    BY LeafIsNode, AddressIsNat
  <2>2. ASSUME NEW m \in Ancestors[LeafOf(a)] PROVE m \in Paths[a]
    BY <2>1, AncestorsOf, AboveCovers, PathOf
  <2> QED
    BY <1>1, <2>2, LeafInPath
<1>3. S \in SUBSET Nodes
  BY PathOf
<1> HIDE DEF S
<1>4. Smallest(S) \in S /\ Length(Smallest(S)) <= Length(LeafOf(a))
  BY <1>2, <1>3, SmallestIsOne
<1>5. Smallest(S) = LeafOf(a)
  <2>1. Smallest(S) \in Nodes /\ Covers(Smallest(S), a)
    BY <1>4, PathOf DEF S
  <2>2. IsLeaf(Smallest(S))
    BY <1>4, LeafIsNode DEF IsLeaf
  <2> QED
    BY <2>1, <2>2, OneLeaf
<1>6. Stop(t, a) = LeafOf(a)
  BY <1>5 DEF Stop, S
<1> QED
  BY <1>1, <1>6, LeafInPath DEF Get, Holds, Byte

LEMMA AncestorsOpen ==
    ASSUME NEW n \in Nodes
    PROVE  Opening(Ancestors[n])
<1>1. ASSUME NEW m \in Ancestors[n]
      PROVE  m \in Nodes /\ ~ IsLeaf(m) /\ Ancestors[m] \subseteq Ancestors[n]
  <2>1. m \in Nodes /\ Above(m, n)
    BY AncestorsOf
  <2>2. ASSUME NEW l \in Ancestors[m] PROVE l \in Ancestors[n]
    BY <2>1, AncestorsOf, AboveTransitive
  <2> QED
    BY <2>1, <2>2, LeafHasNoneBelow
<1> QED
  BY <1>1 DEF Opening

\* A descent allocates and loses nothing.
LEMMA DescendKeepsAll ==
    ASSUME NEW t, TreeOK(t), NEW o, Opening(o)
    PROVE  /\ \A n : Keeps(t, Descend(t, o), n)
           /\ \A a \in Addresses : \A v : Holds(t, a, v) => Holds(Descend(t, o), a, v)
<1> DEFINE u == Descend(t, o)
<1>1. /\ TreeOK(u) /\ DOMAIN t \subseteq DOMAIN u
      /\ \A n \in DOMAIN t : u[n] = IF n \in o THEN [t[n] EXCEPT !.state = "Unknown"] ELSE t[n]
      /\ \A n \in DOMAIN u \ DOMAIN t : u[n].status = "Unallocated"
  BY DescendOK
<1> HIDE DEF u
<1>2. \A n \in DOMAIN t : t[n] \in NodeType
  BY DEF TreeOK, NodeOK
<1>3. ASSUME NEW n PROVE Keeps(t, u, n)
  <2>1. ASSUME n \in DOMAIN t
        PROVE  u[n].status = t[n].status /\ u[n].reallyAllocated = t[n].reallyAllocated
    BY <1>1, <1>2, <2>1, Zenon DEF NodeType
  <2> QED
    BY <1>1, <2>1 DEF Keeps
<1>4. ASSUME NEW a \in Addresses, NEW v, Holds(t, a, v) PROVE Holds(u, a, v)
  <2>1. \A n \in Paths[a] : n \in DOMAIN u /\ u[n].state = "Unknown"
    BY <1>1, <1>2, <1>4 DEF Holds, Bare, NodeType
  <2>2. u[LeafOf(a)] = t[LeafOf(a)]
    <3>1. LeafOf(a) \in DOMAIN t
      BY <1>4, LeafInPath DEF Holds, Bare
    <3>2. LeafOf(a) \notin o
      BY LeafIsNode DEF Opening
    <3> QED
      BY <1>1, <3>1, <3>2
  <2> QED
    BY <1>4, <2>1, <2>2 DEF Holds, Bare, Byte
<1> QED
  BY <1>3, <1>4 DEF u

\* A tree in which one kind of nodes is replaced.
LEMMA ReplacedOK ==
    ASSUME NEW u, TreeOK(u), NEW w, DOMAIN w = DOMAIN u,
           \A n \in DOMAIN u : NodeOK(n, w[n])
    PROVE  TreeOK(w)
  BY DEF TreeOK

\* A node below the opened ones is there.
LEMMA OpenedHasNode ==
    ASSUME NEW t, TreeOK(t), NEW o, Opening(o), NEW n \in Nodes, Ancestors[n] \subseteq o
    PROVE  n \in DOMAIN Descend(t, o)
<1>1. CASE n = Root
  BY <1>1, DescendOK
<1>2. CASE n # Root
  <2>1. PICK m \in Nodes : n \in Children(m) /\ Above(m, n)
    BY <1>2, HasParent
  <2>2. m \in o
    BY <2>1, AncestorsOf
  <2> QED
    BY <2>1, <2>2, DescendOK
<1> QED
  BY <1>1, <1>2

AllocResult(t, where, size, state, status) ==
    LET target == TargetOf(where, size)
        u == Descend(t, Ancestors[target])
    IN  [u EXCEPT ![target] =
           Node(status, state, IF state = "Memset" THEN Zero ELSE u[target].memSetTo,
                u[target].chunk, size)]

LEMMA AllocateCases ==
    ASSUME NEW t, NEW where \in Nat, NEW size \in Nat, NEW state, NEW status
    PROVE  LET r == Allocate(t, where, size, state, status)
           IN  \/ \E e \in Endings \ {"ok"} : r = Ends(e, t)
               \/ /\ r = Ends("ok", AllocResult(t, where, size, state, status))
                  /\ where \in Addresses /\ size \in 0 .. Size
                  /\ ~ (size > Length(TargetOf(where, size)))
<1>1. Size \in Nat
  BY SizeIsWidth
<1>2. CASE size > Size
  <2>1. Allocate(t, where, size, state, status) = Ends("out of memory", t)
    BY <1>2 DEF Allocate
  <2>2. "out of memory" \in Endings \ {"ok"}
    BY DEF Endings, Signals
  <2> QED
    BY <2>1, <2>2
<1>3. CASE ~ (size > Size) /\ (where >= Size \/ size > Length(TargetOf(where, size)))
  <2>1. Allocate(t, where, size, state, status) = Ends("abort", t)
    BY <1>3 DEF Allocate, TargetOf
  <2>2. "abort" \in Endings \ {"ok"}
    BY DEF Endings, Failures
  <2> QED
    BY <2>1, <2>2
<1>4. CASE ~ (size > Size) /\ ~ (where >= Size) /\ ~ (size > Length(TargetOf(where, size)))
  <2>1. Allocate(t, where, size, state, status) = Ends("ok", AllocResult(t, where, size, state, status))
    BY <1>4 DEF Allocate, TargetOf, AllocResult
  <2>2. where \in Addresses /\ size \in 0 .. Size
    BY <1>1, <1>4 DEF Addresses
  <2> QED
    BY <1>4, <2>1, <2>2
<1> QED
  BY <1>2, <1>3, <1>4

\* A block is the only change that an allocation makes to the blocks, and it
\* takes no byte but those of its node.
Handed(t, u, target) ==
    /\ target \in DOMAIN u /\ u[target].status # "Unallocated"
    /\ \A n : n # target => Keeps(t, u, n)

Allocates(t, u, target, status, size) ==
    /\ TreeOK(u) /\ Handed(t, u, target)
    /\ u[target].status = status /\ u[target].reallyAllocated = size
    /\ \A a \in Addresses : \A v :
         ~ Covers(target, a) /\ Holds(t, a, v) => Holds(u, a, v)

LEMMA AllocateOK ==
    ASSUME NEW t, TreeOK(t), NEW where \in Addresses, NEW size \in 0 .. Size,
           NEW state \in {"Memset", "Uninit"}, NEW status \in {"Malloc", "Alloca"}
    PROVE  Allocates(t, AllocResult(t, where, size, state, status), TargetOf(where, size),
                     status, size)
<1> DEFINE target == TargetOf(where, size)
           d == Descend(t, Ancestors[target])
           new == Node(status, state, IF state = "Memset" THEN Zero ELSE d[target].memSetTo,
                       d[target].chunk, size)
           u == AllocResult(t, where, size, state, status)
<1>1. target \in Nodes /\ Covers(target, where)
  BY TargetIsNode
<1> HIDE DEF target
<1>2. Opening(Ancestors[target])
  BY <1>1, AncestorsOpen
<1>3. /\ TreeOK(d) /\ target \in DOMAIN d
      /\ \A n : Keeps(t, d, n)
      /\ \A a \in Addresses : \A v : Holds(t, a, v) => Holds(d, a, v)
  BY <1>1, <1>2, DescendOK, OpenedHasNode, DescendKeepsAll
<1>4. u = [d EXCEPT ![target] = new]
  BY DEF AllocResult, target
<1> HIDE DEF u, d
<1>5. DOMAIN u = DOMAIN d /\ u[target] = new /\ \A n \in DOMAIN d : n # target => u[n] = d[n]
  BY <1>3, <1>4
<1>6. NodeOK(target, new)
  <2>1. NodeOK(target, d[target])
    BY <1>3 DEF TreeOK
  <2>2. Zero \in Bytes /\ size \in 0 .. Size
    BY BytesAssumption
  <2> QED
    BY <2>1, <2>2 DEF NodeOK, NodeType, Node, Statuses, States
<1>7. TreeOK(u)
  <2> HIDE DEF new
  <2>1. \A n \in DOMAIN d : NodeOK(n, u[n])
    BY <1>3, <1>5, <1>6 DEF TreeOK
  <2> QED
    BY <1>3, <1>5, <2>1, ReplacedOK
<1>8. new.status = status /\ new.reallyAllocated = size
  BY DEF Node
<1> HIDE DEF new
<1>9. ASSUME NEW n, n # target PROVE Keeps(t, u, n)
  BY <1>3, <1>5, <1>9 DEF Keeps
<1>10. ASSUME NEW a \in Addresses, NEW v, ~ Covers(target, a), Holds(t, a, v)
       PROVE  Holds(u, a, v)
  <2>1. Holds(d, a, v)
    BY <1>3, <1>10
  <2>2. \A n \in Paths[a] : n # target
    BY <1>10, PathOf
  <2>3. \A n \in Paths[a] : n \in DOMAIN u /\ u[n] = d[n]
    BY <1>5, <2>1, <2>2 DEF Holds, Bare
  <2> QED
    BY <2>1, <2>3, LeafInPath DEF Holds, Bare, Byte
<1>11. Handed(t, u, target)
  <2>1. u[target].status # "Unallocated"
    BY <1>5, <1>8
  <2> QED
    BY <1>3, <1>5, <1>9, <2>1 DEF Handed
<1>12. Allocates(t, u, target, status, size)
  BY <1>5, <1>7, <1>8, <1>10, <1>11 DEF Allocates
<1> QED
  BY <1>12 DEF u, target

StoreResult(t, where, data) ==
    LET touched == Touched(where, Len(data))
        d == Descend(t, {n \in touched : ~IsLeaf(n)})
    IN  [n \in DOMAIN d |-> IF n \in touched /\ IsLeaf(n)
                              THEN Written(n, d[n], String(where, data)) ELSE d[n]]

LEMMA TouchedIs ==
    ASSUME NEW where, NEW size
    PROVE  \A n : n \in Touched(where, size) <=>
              /\ n \in Nodes
              /\ \/ Covers(n, where)
                 \/ First(n) < where + size /\ where < Limit(n)
  BY DEF Touched

LEMMA TouchedAbove ==
    ASSUME NEW where \in Nat, NEW size \in Nat, NEW n \in Touched(where, size),
           NEW m \in Nodes, Above(m, n)
    PROVE  m \in Touched(where, size)
<1>1. n \in Nodes /\ where \in Int /\ (Covers(n, where) \/ (First(n) < where + size /\ where < Limit(n)))
  BY TouchedIs
<1>2. /\ First(n) \in Nat /\ First(m) \in Nat /\ Limit(n) \in Nat /\ Limit(m) \in Nat
      /\ First(m) <= First(n) /\ Limit(n) <= Limit(m)
  BY <1>1, NodeType1 DEF Above, Inside
<1>3. Covers(m, where) \/ (First(m) < where + size /\ where < Limit(m))
  BY <1>1, <1>2 DEF Covers
<1> QED
  BY <1>3, TouchedIs

LEMMA TouchedOpen ==
    ASSUME NEW where \in Nat, NEW size \in Nat
    PROVE  Opening({n \in Touched(where, size) : ~ IsLeaf(n)})
<1> DEFINE o == {n \in Touched(where, size) : ~ IsLeaf(n)}
<1>1. ASSUME NEW n \in o PROVE n \in Nodes /\ ~ IsLeaf(n) /\ Ancestors[n] \subseteq o
  <2>1. n \in Nodes /\ ~ IsLeaf(n) /\ n \in Touched(where, size)
    BY TouchedIs
  <2>2. ASSUME NEW m \in Ancestors[n] PROVE m \in o
    <3>1. m \in Nodes /\ Above(m, n)
      BY <2>1, AncestorsOf
    <3> QED
      BY <2>1, <3>1, TouchedAbove, LeafHasNoneBelow
  <2> QED
    BY <2>1, <2>2
<1> QED
  BY <1>1 DEF Opening

LEMMA SpanIsTouched ==
    ASSUME NEW where \in Nat, NEW size \in Nat, NEW a \in Addresses, a \in Span(where, size)
    PROVE  Paths[a] \subseteq Touched(where, size)
<1> SUFFICES ASSUME NEW n \in Paths[a] PROVE n \in Touched(where, size)
  OBVIOUS
<1>1. n \in Nodes /\ Covers(n, a) /\ a \in Nat
  BY PathOf, AddressIsNat
<1>2. First(n) \in Nat /\ Limit(n) \in Nat /\ where <= a /\ a <= where + size - 1
  BY <1>1, NodeType1 DEF Span
<1>3. First(n) < where + size /\ where < Limit(n)
  BY <1>1, <1>2 DEF Covers
<1> QED
  BY <1>1, <1>3, TouchedIs

\* A chunk that is written keeps the bytes that the string does not name.
LEMMA WrittenOK ==
    ASSUME NEW n \in Nodes, IsLeaf(n), NEW node, NodeOK(n, node), NEW string,
           \A a \in DOMAIN string : string[a] \in Bytes \cup {Garbage}
    PROVE  LET w == Written(n, node, string)
           IN  /\ NodeOK(n, w)
               /\ w.status = node.status /\ w.reallyAllocated = node.reallyAllocated
               /\ w.state = "Unknown" /\ w.chunk # NoChunk
               /\ \A a \in Addresses : Covers(n, a) =>
                    w.chunk[a - First(n) + 1] =
                      IF a \in DOMAIN string THEN string[a] ELSE Chunk(node)[a - First(n) + 1]
<1> DEFINE new == [i \in 1..ChunkSize |-> LET a == First(n) + i - 1
                                          IN IF a \in DOMAIN string THEN string[a] ELSE Chunk(node)[i]]
           w == Written(n, node, string)
<1>1. node \in NodeType
  BY DEF NodeOK
<1>2. Chunk(node) \in [1..ChunkSize -> Bytes \cup {Garbage}]
  BY <1>1 DEF Chunk, NodeType
<1>3. new \in [1..ChunkSize -> Bytes \cup {Garbage}]
  <2> HIDE DEF Chunk
  <2> QED
    BY <1>2
<1>4. new # NoChunk
  <2>1. 1 \in DOMAIN new
    BY ChunkAssumption
  <2>2. 1 \notin DOMAIN NoChunk
    BY DEF NoChunk
  <2> QED
    BY <2>1, <2>2
<1>5. ASSUME NEW a \in Addresses, Covers(n, a)
      PROVE  new[a - First(n) + 1] =
               IF a \in DOMAIN string THEN string[a] ELSE Chunk(node)[a - First(n) + 1]
  <2>1. /\ First(n) \in Nat /\ Length(n) = ChunkSize /\ Limit(n) = First(n) + Length(n)
        /\ a \in Nat /\ ChunkSize \in Nat
    BY NodeType1, AddressIsNat, ChunkAssumption
  <2>2. a - First(n) + 1 \in 1..ChunkSize /\ First(n) + (a - First(n) + 1) - 1 = a
    BY <1>5, <2>1 DEF Covers
  <2> QED
    BY <2>2
<1>6. w = [node EXCEPT !.state = "Unknown", !.chunk = new]
  BY DEF Written
<1> HIDE DEF new, w
<1>7. /\ w \in NodeType /\ w.status = node.status /\ w.reallyAllocated = node.reallyAllocated
      /\ w.state = "Unknown" /\ w.chunk = new
  BY <1>1, <1>3, <1>6 DEF NodeType, States
<1> QED
  BY <1>4, <1>5, <1>7 DEF NodeOK, w

LEMMA StoreOK ==
    ASSUME NEW t, TreeOK(t), NEW where \in Nat, NEW data \in Seq(Bytes \cup {Garbage})
    PROVE  LET u == StoreResult(t, where, data)
           IN  /\ TreeOK(u)
               /\ \A n : Keeps(t, u, n)
               /\ \A a \in Addresses : \A v :
                    a \notin Span(where, Len(data)) /\ Holds(t, a, v) => Holds(u, a, v)
               /\ \A a \in Addresses :
                    a \in Span(where, Len(data)) => Holds(u, a, data[a - where + 1])
<1> DEFINE size == Len(data)
           touched == Touched(where, size)
           o == {n \in touched : ~ IsLeaf(n)}
           d == Descend(t, o)
           s == String(where, data)
           u == StoreResult(t, where, data)
<1>1. size \in Nat
  OBVIOUS
<1>2. Opening(o)
  BY <1>1, TouchedOpen
<1> HIDE DEF o, touched
<1>3. /\ TreeOK(d)
      /\ \A n \in o : n \in DOMAIN d /\ d[n].state = "Unknown"
      /\ \A n : Keeps(t, d, n)
      /\ \A a \in Addresses : \A v : Holds(t, a, v) => Holds(d, a, v)
  BY <1>2, DescendOK, DescendKeepsAll
<1>4. ASSUME NEW n \in touched PROVE n \in Nodes /\ n \in DOMAIN d
  <2>1. n \in Nodes
    BY TouchedIs DEF touched
  <2>2. Ancestors[n] \subseteq o
    <3>1. ASSUME NEW m \in Ancestors[n] PROVE m \in o
      <4>1. m \in Nodes /\ Above(m, n)
        BY <2>1, AncestorsOf
      <4> QED
        BY <1>1, <2>1, <4>1, TouchedAbove, LeafHasNoneBelow DEF o, touched
    <3> QED
      BY <3>1
  <2> QED
    BY <1>2, <2>1, <2>2, OpenedHasNode
<1>5. DOMAIN s = Span(where, size) /\ \A a \in Span(where, size) : s[a] = data[a - where + 1]
  BY DEF String
<1>6. \A a \in DOMAIN s : s[a] \in Bytes \cup {Garbage}
  <2>1. ASSUME NEW a \in Span(where, size) PROVE data[a - where + 1] \in Bytes \cup {Garbage}
    <3>1. a \in Int /\ where <= a /\ a <= where + size - 1
      BY <1>1 DEF Span
    <3>2. a - where + 1 \in 1..size
      BY <1>1, <3>1
    <3> QED
      BY <3>2
  <2> QED
    BY <1>5, <2>1
<1>7. u = [n \in DOMAIN d |-> IF n \in touched /\ IsLeaf(n) THEN Written(n, d[n], s) ELSE d[n]]
  BY DEF StoreResult, o, touched, d, s, u
<1> HIDE DEF u, d, s
<1>8. DOMAIN u = DOMAIN d
  BY <1>7
<1>9. ASSUME NEW n \in DOMAIN d, n \in touched, IsLeaf(n)
       PROVE  /\ NodeOK(n, u[n]) /\ u[n].status = d[n].status
              /\ u[n].reallyAllocated = d[n].reallyAllocated
              /\ u[n].state = "Unknown" /\ u[n].chunk # NoChunk
              /\ \A a \in Addresses : Covers(n, a) =>
                    u[n].chunk[a - First(n) + 1] =
                      IF a \in DOMAIN s THEN s[a] ELSE Chunk(d[n])[a - First(n) + 1]
  <2>1. u[n] = Written(n, d[n], s)
    BY <1>7, <1>9
  <2>2. n \in Nodes /\ NodeOK(n, d[n])
    BY <1>3 DEF TreeOK
  <2> QED
    BY <1>6, <1>9, <2>1, <2>2, WrittenOK
<1>10. \A n \in DOMAIN d : ~ (n \in touched /\ IsLeaf(n)) => u[n] = d[n]
  BY <1>7
<1>11. TreeOK(u)
  <2>1. \A n \in DOMAIN d : NodeOK(n, u[n])
    BY <1>3, <1>9, <1>10 DEF TreeOK
  <2> QED
    BY <1>3, <1>8, <2>1, ReplacedOK
<1>12. ASSUME NEW n PROVE Keeps(t, u, n)
  <2>1. \A m \in DOMAIN d : u[m].status = d[m].status /\ u[m].reallyAllocated = d[m].reallyAllocated
    BY <1>9, <1>10
  <2> QED
    BY <1>3, <1>8, <2>1 DEF Keeps
<1>13. ASSUME NEW a \in Addresses, NEW v, a \notin Span(where, size), Holds(t, a, v)
       PROVE  Holds(u, a, v)
  <2>1. Holds(d, a, v)
    BY <1>3, <1>13
  <2>2. \A n \in Paths[a] : n \in DOMAIN u /\ u[n].state = "Unknown"
    BY <1>8, <1>9, <1>10, <2>1 DEF Holds, Bare
  <2> DEFINE L == LeafOf(a)
  <2>3. L \in DOMAIN d /\ IsLeaf(L) /\ Covers(L, a) /\ d[L].chunk # NoChunk /\ Byte(d, a) = v
    BY <2>1, LeafInPath, LeafIsNode DEF Holds, Bare
  <2>4. u[L].chunk # NoChunk /\ Byte(u, a) = v
    <3>1. CASE L \in touched
      <4>1. u[L].chunk # NoChunk /\ u[L].chunk[a - First(L) + 1] = Chunk(d[L])[a - First(L) + 1]
        BY <1>5, <1>9, <1>13, <2>3, <3>1
      <4> QED
        BY <2>3, <4>1 DEF Byte, Chunk
    <3>2. CASE L \notin touched
      BY <1>10, <2>3, <3>2 DEF Byte
    <3> QED
      BY <3>1, <3>2
  <2> QED
    BY <2>2, <2>4 DEF Holds, Bare
<1>14. ASSUME NEW a \in Addresses, a \in Span(where, size)
       PROVE  Holds(u, a, data[a - where + 1])
  <2> DEFINE L == LeafOf(a)
  <2>1. \A n \in Paths[a] : n \in touched
    BY <1>1, <1>14, SpanIsTouched DEF touched
  <2>2. \A n \in Paths[a] : n \in DOMAIN d /\ (IsLeaf(n) \/ n \in o)
    BY <1>4, <2>1 DEF o
  <2>3. \A n \in Paths[a] : n \in DOMAIN u /\ u[n].state = "Unknown"
    <3> TAKE n \in Paths[a]
    <3>1. CASE IsLeaf(n)
      BY <1>8, <1>9, <2>1, <2>2, <3>1
    <3>2. CASE ~ IsLeaf(n)
      BY <1>3, <1>8, <1>10, <2>2, <3>2
    <3> QED
      BY <3>1, <3>2
  <2>4. L \in DOMAIN d /\ L \in touched /\ IsLeaf(L) /\ Covers(L, a)
    BY <2>1, <2>2, LeafInPath, LeafIsNode
  <2>5. u[L].chunk # NoChunk /\ u[L].chunk[a - First(L) + 1] = data[a - where + 1]
    BY <1>5, <1>9, <1>14, <2>4
  <2> QED
    BY <2>3, <2>5 DEF Holds, Bare, Byte
<1> QED
  BY <1>11, <1>12, <1>13, <1>14 DEF u

StoreFaults == {"ok", "inconsistency", "write violation"}

LEMMA StoreFaultType ==
    ASSUME NEW t, NEW n, NEW where, NEW size
    PROVE  StoreFault(t, n, where, size) \in StoreFaults
<1> DEFINE didAlloc == \E m \in Ancestors[n] : Allocated(t, m)
<1>1. CASE Allocated(t, n) /\ didAlloc
  BY <1>1 DEF StoreFault, StoreFaults
<1>2. CASE Allocated(t, n) /\ ~ didAlloc
  BY <1>2 DEF StoreFault, StoreFaults
<1>3. CASE ~ Allocated(t, n)
  BY <1>3 DEF StoreFault, StoreFaults
<1> QED
  BY <1>1, <1>2, <1>3

\* A store ends as one of the nodes it touches says, or well if none complains.
LEMMA StoreEndingIs ==
    ASSUME NEW t, NEW where, NEW size
    PROVE  \/ /\ StoreEnding(t, where, size) = "ok"
              /\ \A n \in Touched(where, size) : StoreFault(t, n, where, size) = "ok"
           \/ \E n \in Touched(where, size) :
                 /\ StoreFault(t, n, where, size) # "ok"
                 /\ StoreEnding(t, where, size) = StoreFault(t, n, where, size)
<1> DEFINE faulty == {n \in Touched(where, size) : StoreFault(t, n, where, size) # "ok"}
           leftmost == {n \in faulty : \A m \in faulty : First(n) <= First(m)}
           firsts == {First(n) : n \in faulty}
<1>1. CASE faulty = {}
  BY <1>1 DEF StoreEnding
<1>2. CASE faulty # {}
  <2>1. faulty \in SUBSET Nodes
    BY TouchedIs
  <2>2. StoreEnding(t, where, size) = StoreFault(t, Largest(leftmost), where, size)
    BY <1>2 DEF StoreEnding
  <2>3. \A n \in faulty : n \in Touched(where, size) /\ StoreFault(t, n, where, size) # "ok"
    OBVIOUS
  <2> HIDE DEF faulty
  <2>4. firsts \in SUBSET Nat /\ firsts # {}
    <3>1. \A n \in faulty : First(n) \in Nat
      BY <2>1, NodeType1
    <3> QED
      BY <1>2, <3>1
  <2>5. PICK x \in firsts : \A y \in firsts : x <= y
    BY <2>4, Least
  <2>6. leftmost # {} /\ leftmost \in SUBSET Nodes
    BY <2>1, <2>5
  <2>7. Largest(leftmost) \in leftmost
    BY ONLY <2>6, LargestIsOne
  <2> QED
    BY <2>2, <2>3, <2>7
<1> QED
  BY <1>1, <1>2

LEMMA StoreCases ==
    ASSUME NEW t, NEW where, NEW data
    PROVE  LET r == Store(t, where, data)
           IN  \/ r.ending \in Endings \ {"ok"} /\ r = Ends(r.ending, t)
               \/ /\ r = Ends("ok", StoreResult(t, where, data))
                  /\ StoreEnding(t, where, Len(data)) = "ok"
<1> DEFINE e == StoreEnding(t, where, Len(data))
<1>1. e = "ok" \/ e \in Endings \ {"ok"}
  <2>1. e = "ok" \/ \E n : StoreFault(t, n, where, Len(data)) # "ok" /\ e = StoreFault(t, n, where, Len(data))
    BY StoreEndingIs
  <2> QED
    BY <2>1, StoreFaultType DEF StoreFaults, Endings, Signals
<1>2. CASE e = "ok"
  BY <1>2 DEF Store, StoreResult
<1>3. CASE e \in Endings \ {"ok"}
  <2>1. Store(t, where, data) = Ends(e, t)
    BY <1>3 DEF Store
  <2> QED
    BY <1>3, <2>1 DEF Ends
<1> QED
  BY <1>1, <1>2, <1>3

-----------------------------------------------------------------------------
MemsetResult(t, where, fill, size) ==
    LET stops == MemsetStops(t, where, size)
        d == Descend(t, UNION {Ancestors[n] : n \in stops})
    IN  [n \in DOMAIN d |-> IF n \in stops THEN Filled(n, d[n], where, size, fill) ELSE d[n]]

LEMMA MemsetCases ==
    ASSUME NEW t, NEW where, NEW fill, NEW size
    PROVE  LET r == Memset(t, where, fill, size)
           IN  \/ r = Ends("abort", t)
               \/ r = Ends("ok", MemsetResult(t, where, fill, size))
  BY DEF Memset, MemsetResult

LEMMA FilledOK ==
    ASSUME NEW n \in Nodes, NEW node, NodeOK(n, node), NEW where, NEW size, NEW fill \in Bytes
    PROVE  LET f == Filled(n, node, where, size, fill)
           IN  /\ NodeOK(n, f)
               /\ f.status = node.status /\ f.reallyAllocated = node.reallyAllocated
<1> DEFINE f == Filled(n, node, where, size, fill)
<1>1. CASE IsLeaf(n) /\ ~(where <= First(n) /\ Limit(n) <= where + size)
  <2>1. f = Written(n, node, Fill(where, size, fill))
    BY <1>1 DEF Filled
  <2>2. \A a \in DOMAIN Fill(where, size, fill) : Fill(where, size, fill)[a] \in Bytes \cup {Garbage}
    BY DEF Fill
  <2> QED
    BY <1>1, <2>1, <2>2, WrittenOK
<1>2. CASE ~ (IsLeaf(n) /\ ~(where <= First(n) /\ Limit(n) <= where + size))
  <2> DEFINE c == IF IsLeaf(n) THEN NoChunk ELSE node.chunk
  <2>1. f = [node EXCEPT !.state = "Memset", !.memSetTo = fill, !.chunk = c]
    BY <1>2 DEF Filled
  <2>2. c \in {NoChunk} \cup [1..ChunkSize -> Bytes \cup {Garbage}] /\ c = NoChunk
    BY DEF NodeOK, NodeType
  <2> HIDE DEF c
  <2> QED
    BY <2>1, <2>2, ZenonT(30) DEF NodeOK, NodeType, States
<1> QED
  BY <1>1, <1>2

LEMMA MemsetOK ==
    ASSUME NEW t, TreeOK(t), NEW where \in Nat, NEW size \in Nat, NEW fill \in Bytes
    PROVE  LET u == MemsetResult(t, where, fill, size)
           IN  /\ TreeOK(u)
               /\ \A n : Keeps(t, u, n)
               /\ \A a \in Addresses : \A v :
                    a \notin Span(where, size) /\ Holds(t, a, v) => Holds(u, a, v)
<1> DEFINE stops == MemsetStops(t, where, size)
           o == UNION {Ancestors[n] : n \in stops}
           d == Descend(t, o)
           s == Fill(where, size, fill)
           u == MemsetResult(t, where, fill, size)
<1>1. \A n \in stops : n \in Nodes /\ (HasState(t, n) \/ IsLeaf(n)) /\ Ancestors[n] \subseteq o
  BY TouchedIs DEF MemsetStops
<1>2. Opening(o)
  <2>1. ASSUME NEW m \in o PROVE m \in Nodes /\ ~ IsLeaf(m) /\ Ancestors[m] \subseteq o
    <3>1. PICK n \in stops : m \in Ancestors[n]
      OBVIOUS
    <3>2. n \in Nodes /\ Ancestors[n] \subseteq o
      BY <1>1
    <3> HIDE DEF o
    <3> QED
      BY <3>1, <3>2, AncestorsOpen DEF Opening
  <2> HIDE DEF o
  <2> QED
    BY <2>1 DEF Opening
<1>3. u = [n \in DOMAIN d |-> IF n \in stops THEN Filled(n, d[n], where, size, fill) ELSE d[n]]
  BY DEF MemsetResult
<1> HIDE DEF o, stops
<1>4. /\ TreeOK(d)
      /\ \A n : Keeps(t, d, n)
      /\ \A a \in Addresses : \A v : Holds(t, a, v) => Holds(d, a, v)
  BY <1>2, DescendOK, DescendKeepsAll
<1> HIDE DEF d, u
<1>5. DOMAIN u = DOMAIN d /\ \A n \in DOMAIN d : n \notin stops => u[n] = d[n]
  BY <1>3
<1>6. ASSUME NEW n \in DOMAIN d, n \in stops
      PROVE  /\ NodeOK(n, u[n]) /\ u[n].status = d[n].status
             /\ u[n].reallyAllocated = d[n].reallyAllocated
  <2>1. u[n] = Filled(n, d[n], where, size, fill)
    BY <1>3, <1>6
  <2>2. n \in Nodes /\ NodeOK(n, d[n])
    BY <1>4 DEF TreeOK
  <2> QED
    BY <2>1, <2>2, FilledOK
<1>7. TreeOK(u)
  <2>1. \A n \in DOMAIN d : NodeOK(n, u[n])
    BY <1>4, <1>5, <1>6 DEF TreeOK
  <2> QED
    BY <1>4, <1>5, <2>1, ReplacedOK
<1>8. ASSUME NEW n PROVE Keeps(t, u, n)
  <2>1. \A m \in DOMAIN d : u[m].status = d[m].status /\ u[m].reallyAllocated = d[m].reallyAllocated
    BY <1>5, <1>6
  <2> QED
    BY <1>4, <1>5, <2>1 DEF Keeps
<1>9. ASSUME NEW a \in Addresses, NEW v, a \notin Span(where, size), Holds(t, a, v)
      PROVE  Holds(u, a, v)
  <2> DEFINE L == LeafOf(a)
  <2>1. Holds(d, a, v)
    BY <1>4, <1>9
  <2>2. L \in Nodes /\ L \in DOMAIN d /\ IsLeaf(L) /\ Covers(L, a) /\ d[L].chunk # NoChunk /\ Byte(d, a) = v
    BY <2>1, LeafInPath, LeafIsNode DEF Holds, Bare
  <2>3. \A n \in Paths[a] : n \in stops => n = L
    <3>1. \A n \in Paths[a] : ~ HasState(t, n)
      BY <1>9 DEF Holds, Bare, HasState
    <3>2. \A n \in Paths[a] : n \in stops => IsLeaf(n) /\ n \in Nodes /\ Covers(n, a)
      BY <1>1, <3>1, PathOf
    <3> QED
      BY <3>2, OneLeaf
  <2>4. CASE L \notin stops
    BY <1>5, <2>1, <2>3, <2>4, LeafInPath DEF Holds, Bare, Byte
  <2>5. CASE L \in stops
    <3>1. ~ (where <= First(L) /\ Limit(L) <= where + size)
      <4>1. First(L) \in Nat /\ Limit(L) \in Nat /\ a \in Nat /\ First(L) <= a /\ a < Limit(L)
        BY <2>2, NodeType1, AddressIsNat DEF Covers
      <4>2. ~ (where <= a /\ a < where + size)
        BY <1>9, <4>1 DEF Span
      <4> HIDE DEF L
      <4> QED
        BY <4>1, <4>2
    <3>2. u[L] = Written(L, d[L], s)
      BY <1>3, <2>2, <2>5, <3>1 DEF Filled
    <3>3. NodeOK(L, d[L]) /\ \A b \in DOMAIN s : s[b] \in Bytes \cup {Garbage}
      BY <1>4, <2>2 DEF TreeOK, Fill
    <3>4. a \notin DOMAIN s
      BY <1>9 DEF Fill
    <3> HIDE DEF s, L
    <3>5. /\ u[L].state = "Unknown" /\ u[L].chunk # NoChunk
          /\ u[L].chunk[a - First(L) + 1] = Chunk(d[L])[a - First(L) + 1]
      BY <2>2, <3>2, <3>3, <3>4, WrittenOK
    <3>6. \A n \in Paths[a] : n \in DOMAIN u /\ u[n].state = "Unknown"
      <4>1. \A n \in Paths[a] : n \in DOMAIN d /\ d[n].state = "Unknown"
        BY <2>1 DEF Holds, Bare
      <4> QED
        BY <1>5, <2>3, <3>5, <4>1
    <3>7. Chunk(d[L]) = d[L].chunk
      BY <2>2 DEF Chunk
    <3> QED
      BY <2>2, <3>5, <3>6, <3>7 DEF Holds, Bare, Byte, L
  <2> QED
    BY <2>4, <2>5
<1> QED
  BY <1>7, <1>8, <1>9 DEF u

-----------------------------------------------------------------------------
FreedNodes(t, where, status) ==
    {n \in Paths[where] : n \in DOMAIN t /\ First(n) = where /\ t[n].status = status}

Without(t, block) == [n \in {m \in DOMAIN t : ~ Inside(m, block)} |-> t[n]]

LEMMA FreeCases ==
    ASSUME NEW t, TreeOK(t), NEW where \in Addresses, NEW status
    PROVE  LET r == Free(t, where, status)
           IN  \/ \E n \in FreedNodes(t, where, status) : r = Ends("ok", Without(t, n))
               \/ /\ FreedNodes(t, where, status) = {}
                  /\ r = Ends("ok", t) \/ r = Ends("free violation", t)
<1> DEFINE freed == FreedNodes(t, where, status)
<1>1. freed \in SUBSET Nodes
  BY PathOf DEF FreedNodes
<1>2. CASE freed = {}
  BY <1>2 DEF Free, FreedNodes
<1>3. CASE freed # {}
  <2>1. Largest(freed) \in freed
    BY <1>1, <1>3, LargestIsOne
  <2>2. Free(t, where, status) = Ends("ok", Without(t, Largest(freed)))
    BY <1>3 DEF Free, FreedNodes, Without
  <2> QED
    BY <2>1, <2>2
<1> QED
  BY <1>2, <1>3

LEMMA WithoutOK ==
    ASSUME NEW t, TreeOK(t), NEW block \in Nodes
    PROVE  LET u == Without(t, block)
           IN  /\ TreeOK(u)
               /\ \A n \in DOMAIN t : Inside(n, block) => n \notin DOMAIN u
               /\ \A n \in DOMAIN t : ~ Inside(n, block) => n \in DOMAIN u /\ u[n] = t[n]
               /\ DOMAIN u \subseteq DOMAIN t
               /\ \A a \in Addresses : \A v :
                    ~ Covers(block, a) /\ Holds(t, a, v) => Holds(u, a, v)
<1> DEFINE u == Without(t, block)
<1>1. /\ DOMAIN u \subseteq DOMAIN t
      /\ \A n \in DOMAIN t : Inside(n, block) => n \notin DOMAIN u
      /\ \A n \in DOMAIN t : ~ Inside(n, block) => n \in DOMAIN u /\ u[n] = t[n]
      /\ \A n \in DOMAIN u : ~ Inside(n, block) /\ u[n] = t[n]
  BY DEF Without
<1> HIDE DEF u
<1>2. DOMAIN t \subseteq Nodes /\ \A n \in DOMAIN t : NodeOK(n, t[n]) /\ Ancestors[n] \subseteq DOMAIN t
  BY DEF TreeOK
<1>3. ASSUME NEW n \in DOMAIN u, NEW m \in Ancestors[n] PROVE m \in DOMAIN u
  <2>1. n \in Nodes /\ m \in Nodes /\ Above(m, n) /\ m \in DOMAIN t
    BY <1>1, <1>2, AncestorsOf
  <2>2. /\ First(n) \in Nat /\ First(m) \in Nat /\ First(block) \in Nat
        /\ Limit(n) \in Nat /\ Limit(m) \in Nat /\ Limit(block) \in Nat
    BY <2>1, NodeType1
  <2>3. ~ Inside(m, block)
    BY <1>1, <2>1, <2>2 DEF Above, Inside
  <2> QED
    BY <1>1, <2>1, <2>3
<1>4. TreeOK(u)
  BY <1>1, <1>2, <1>3 DEF TreeOK
<1>5. ASSUME NEW a \in Addresses, NEW v, ~ Covers(block, a), Holds(t, a, v)
      PROVE  Holds(u, a, v)
  <2>1. ASSUME NEW n \in Paths[a] PROVE ~ Inside(n, block)
    <3>1. n \in Nodes /\ Covers(n, a) /\ a \in Nat
      BY PathOf, AddressIsNat
    <3>2. /\ First(n) \in Nat /\ First(block) \in Nat
          /\ Limit(n) \in Nat /\ Limit(block) \in Nat
      BY <3>1, NodeType1
    <3> QED
      BY <1>5, <3>1, <3>2 DEF Covers, Inside
  <2>2. \A n \in Paths[a] : n \in DOMAIN u /\ u[n] = t[n]
    BY <1>1, <1>5, <2>1 DEF Holds, Bare
  <2> QED
    BY <1>5, <2>2, LeafInPath DEF Holds, Bare, Byte
<1> QED
  BY <1>1, <1>4, <1>5 DEF u

-----------------------------------------------------------------------------
(* Loads                                                                   *)

\* The descents to two addresses of a chunk take the same way.
LEMMA SameChunk ==
    ASSUME NEW a \in Addresses, NEW b \in Addresses, a \div ChunkSize = b \div ChunkSize
    PROVE  Paths[a] = Paths[b]
<1>1. ASSUME NEW x \in Addresses, NEW y \in Addresses, LeafOf(x) = LeafOf(y), NEW n \in Paths[x]
      PROVE  n \in Paths[y]
  <2>1. n \in Nodes /\ (n = LeafOf(y) \/ Above(n, LeafOf(y)))
    BY <1>1, PathOf, AboveLeaf
  <2>2. LeafOf(y) \in Nodes /\ Covers(LeafOf(y), y) /\ y \in Int
    BY LeafIsNode, AddressIsNat
  <2>3. Covers(n, y)
    BY <2>1, <2>2, AboveCovers
  <2> QED
    BY <2>1, <2>3, PathOf
<1>2. LeafOf(a) = LeafOf(b)
  BY DEF LeafOf
<1> QED
  BY <1>1, <1>2

LEMMA StopIsNode ==
    ASSUME NEW t, NEW a \in Addresses
    PROVE  Stop(t, a) \in Nodes /\ Covers(Stop(t, a), a)
<1> DEFINE S == {n \in Paths[a] : \A m \in Ancestors[n] : m \in DOMAIN t /\ ~ HasState(t, m)}
<1>1. Root \in S
  <2>1. Root \in Paths[a]
    <3>1. LeafOf(a) \in Paths[a] /\ LeafOf(a) \in Nodes /\ Covers(LeafOf(a), a) /\ a \in Int
      BY LeafInPath, LeafIsNode, AddressIsNat
    <3>2. Root \in Nodes /\ (LeafOf(a) = Root \/ Above(Root, LeafOf(a)))
      BY <3>1, RootIsNode
    <3>3. Covers(Root, a)
      BY <3>1, <3>2, AboveCovers
    <3> QED
      BY <3>2, <3>3, PathOf
  <2> QED
    BY <2>1, RootIsAlone
<1>2. S \in SUBSET Nodes
  BY PathOf
<1> HIDE DEF S
<1>3. Smallest(S) \in S
  BY <1>1, <1>2, SmallestIsOne
<1>4. Stop(t, a) = Smallest(S)
  BY DEF Stop, S
<1> QED
  BY <1>3, <1>4, PathOf DEF S

\* What a load gives is a byte unless there is a reason that it cannot, and
\* there is one for all bytes of a chunk or for none.
LEMMA SameReason ==
    ASSUME NEW t, TreeOK(t), NEW a \in Addresses, NEW b \in Addresses,
           a \div ChunkSize = b \div ChunkSize, Get(t, a) \notin NoData
    PROVE  Get(t, b) \in Bytes \cup {Garbage}
<1> DEFINE n == Stop(t, a)
<1>1. Stop(t, b) = n
  BY SameChunk DEF Stop
<1>2. n \in Nodes /\ Covers(n, b)
  BY <1>1, StopIsNode
<1> HIDE DEF n
<1>3. n \in DOMAIN t
  BY DEF Get, NoData, n
<1>4. NodeOK(n, t[n])
  BY <1>3 DEF TreeOK
<1>5. CASE t[n].state = "Memset"
  BY <1>1, <1>3, <1>4, <1>5 DEF Get, NodeOK
<1>6. CASE t[n].state = "Uninit"
  BY <1>3, <1>6 DEF Get, n, NoData
<1>7. CASE t[n].state = "Unknown"
  <2>1. t[n].chunk # NoChunk
    BY <1>3, <1>7 DEF Get, n, NoData
  <2>2. Get(t, b) = t[n].chunk[b - First(n) + 1]
    BY <1>1, <1>3, <1>7, <2>1 DEF Get
  <2>3. IsLeaf(n) /\ t[n].chunk \in [1..ChunkSize -> Bytes \cup {Garbage}]
    BY <1>4, <2>1 DEF NodeOK, NodeType
  <2>4. /\ First(n) \in Nat /\ Length(n) = ChunkSize /\ Limit(n) = First(n) + Length(n)
        /\ b \in Nat /\ ChunkSize \in Nat
    BY <1>2, <2>3, NodeType1, AddressIsNat, ChunkAssumption
  <2>5. b - First(n) + 1 \in 1..ChunkSize
    BY <1>2, <2>4 DEF Covers
  <2> QED
    BY <2>2, <2>3, <2>5
<1> QED
  BY <1>4, <1>5, <1>6, <1>7 DEF NodeOK, NodeType, States

LEMMA SameQuotient ==
    ASSUME NEW w \in Nat, NEW c \in Nat \ {0}, NEW q \in Nat, c * q <= w, w < c * q + c
    PROVE  w \div c = q
<1> DEFINE p == w \div c
<1>1. p \in Nat /\ c * p <= w /\ w < c * p + c
  BY Division
<1> HIDE DEF p
<1>2. c * p \in Nat /\ c * q \in Nat
  BY <1>1, Multiples
<1>3. ~ (p < q)
  <2> SUFFICES ASSUME p < q PROVE FALSE
    OBVIOUS
  <2>1. c * p + c <= c * q
    BY ONLY <1>1, Multiples, p < q, c \in Nat \ {0}, q \in Nat
  <2> QED
    BY <1>1, <1>2, <2>1
<1>4. ~ (q < p)
  <2> SUFFICES ASSUME q < p PROVE FALSE
    OBVIOUS
  <2>1. c * q + c <= c * p
    BY ONLY <1>1, Multiples, q < p, c \in Nat \ {0}, q \in Nat
  <2> QED
    BY <1>1, <1>2, <2>1
<1> QED
  BY <1>1, <1>3, <1>4 DEF p

LEMMA NoRemainder ==
    ASSUME NEW c \in Nat \ {0}, NEW q \in Nat
    PROVE  (c * q) % c = 0
<1>1. c * q \in Nat /\ (c * q) \div c = q
  BY Multiples, Quotient
<1> QED
  BY <1>1

\* Every byte of a string is in the chunk of the slice that it belongs to.
LEMMA SliceOf ==
    ASSUME NEW where \in Addresses, NEW size \in Nat, NEW a \in Addresses,
           where <= a, a < where + size
    PROVE  \E s \in Slices(where, size) :
              s \in Addresses /\ s <= a /\ s \div ChunkSize = a \div ChunkSize
<1> DEFINE q == a \div ChunkSize
           c == ChunkSize * q
<1>1. ChunkSize \in Nat \ {0} /\ where \in Nat /\ a \in Nat /\ a < Size /\ Size \in Nat
  BY ChunkAssumption, AddressIsNat, SizeIsWidth
<1>2. q \in Nat /\ c <= a /\ a < c + ChunkSize
  BY <1>1, Division
<1> HIDE DEF q
<1>3. c \in Nat /\ c % ChunkSize = 0 /\ c \div ChunkSize = q
  BY <1>1, <1>2, Multiples, NoRemainder, Quotient
<1>4. CASE c <= where
  <2>1. where \div ChunkSize = q
    <3>1. where < c + ChunkSize
      BY <1>1, <1>2, <1>3
    <3> QED
      BY <1>1, <1>2, <1>4, <3>1, SameQuotient
  <2>2. where \in Slices(where, size)
    BY <1>1 DEF Slices
  <2> QED
    BY <2>1, <2>2 DEF q
<1>5. CASE ~ (c <= where)
  <2>1. c \in Addresses /\ where <= c /\ c < where + size
    BY <1>1, <1>2, <1>3, <1>5 DEF Addresses
  <2> HIDE DEF c
  <2>2. c \in Slices(where, size)
    BY <1>3, <2>1 DEF Slices
  <2> QED
    BY <1>2, <1>3, <2>1, <2>2 DEF q
<1> QED
  BY <1>4, <1>5

LEMMA LoadBytesOK ==
    ASSUME TreeOK(tree), NEW where \in Addresses, NEW size \in Nat, where + size <= Size
    PROVE  LET load == LoadBytes(where, size)
           IN  /\ load.ending \in Endings
               /\ load.ending = "ok" =>
                    load.data \in Seq(Bytes \cup {Garbage}) /\ Len(load.data) = size
<1> DEFINE bad == {a \in Slices(where, size) : Get(tree, a) \in NoData}
           stop == IF bad = {} THEN where + size
                   ELSE CHOOSE a \in bad : \A b \in bad : a <= b
           data == [i \in 1..size |->
                      IF where + i - 1 < stop THEN Get(tree, where + i - 1) ELSE Zero]
           load == LoadBytes(where, size)
<1>1. where \in Nat /\ Size \in Nat
  BY AddressIsNat, SizeIsWidth
<1>2. ASSUME bad # {} PROVE stop \in bad /\ \A b \in bad : stop <= b
  <2>1. bad \in SUBSET Nat
    <3>1. \A a \in Slices(where, size) : a \in Nat
      BY AddressIsNat DEF Slices
    <3> QED
      BY <3>1
  <2>2. stop = CHOOSE a \in bad : \A b \in bad : a <= b
    BY <1>2
  <2> HIDE DEF bad, stop
  <2>3. \E a \in bad : \A b \in bad : a <= b
    BY <1>2, <2>1, Least
  <2> QED
    BY <2>2, <2>3
<1>3. /\ bad # {} /\ Get(tree, stop) # "Uninit" => load = Failed(Get(tree, stop))
      /\ bad = {} /\ Short(where, size) =>
            load = Failed(IF size = 2 * (where % ChunkSize) THEN "hang" ELSE "crash")
      /\ ~ (bad # {} /\ Get(tree, stop) # "Uninit") /\ ~ (bad = {} /\ Short(where, size)) =>
            load = Gave(data)
  BY DEF LoadBytes
<1>4. ASSUME NEW i \in 1..size, where + i - 1 < stop
      PROVE  Get(tree, where + i - 1) \in Bytes \cup {Garbage}
  <2> DEFINE a == where + i - 1
  <2>1. a \in Addresses /\ where <= a /\ a < where + size
    BY <1>1 DEF Addresses
  <2>2. a < stop
    BY <1>4
  <2> HIDE DEF a
  <2>3. PICK s \in Slices(where, size) :
           s \in Addresses /\ s <= a /\ s \div ChunkSize = a \div ChunkSize
    BY <2>1, SliceOf
  <2>4. s \notin bad
    <3> SUFFICES ASSUME s \in bad PROVE FALSE
      OBVIOUS
    <3>1. stop \in Addresses /\ stop <= s
      BY <1>2 DEF Slices
    <3> HIDE DEF stop, bad
    <3> QED
      BY <2>1, <2>2, <2>3, <3>1, AddressIsNat
  <2>5. Get(tree, s) \notin NoData
    BY <2>3, <2>4
  <2>6. Get(tree, a) \in Bytes \cup {Garbage}
    BY ONLY <2>1, <2>3, <2>5, SameReason, TreeOK(tree)
  <2> QED
    BY <2>6 DEF a
<1> HIDE DEF stop, load
<1>5. data \in Seq(Bytes \cup {Garbage}) /\ Len(data) = size
  <2>1. data \in [1..size -> Bytes \cup {Garbage}]
    BY <1>4, BytesAssumption
  <2> HIDE DEF data
  <2> QED
    BY <2>1
<1> DEFINE got == Get(tree, stop)
<1>6. bad # {} => got \in NoData
  BY <1>2
<1> HIDE DEF bad, data, got
<1>7. CASE bad # {} /\ got # "Uninit"
  <2>1. load.ending = got
    BY <1>3, <1>7 DEF Failed, got
  <2> QED
    BY <1>6, <1>7, <2>1 DEF NoData, Endings, Signals, Failures, load
<1>8. CASE bad = {} /\ Short(where, size)
  <2>1. \E e \in {"hang", "crash"} : load = Failed(e)
    BY <1>3, <1>8
  <2>2. load.ending \in {"hang", "crash"}
    BY <2>1 DEF Failed
  <2> QED
    BY <2>2 DEF Endings, Failures, load
<1>9. CASE ~ (bad # {} /\ got # "Uninit") /\ ~ (bad = {} /\ Short(where, size))
  <2>1. load = Gave(data)
    BY <1>3, <1>9 DEF got
  <2>2. load.ending = "ok" /\ load.data = data
    BY <2>1 DEF Gave
  <2> QED
    BY <1>5, <2>2 DEF Endings, load
<1> QED
  BY <1>7, <1>8, <1>9 DEF load

LEMMA LoadIntEnding ==
    ASSUME NEW where, NEW size PROVE LoadInt(where, size).ending \in Endings
<1> DEFINE got == Get(tree, where)
<1>1. CASE Crosses(where, size)
  BY <1>1 DEF LoadInt, Failed, Endings, Signals
<1>2. CASE ~ Crosses(where, size) /\ got \in {"read violation", "crash"}
  <2>1. LoadInt(where, size) = Failed(got)
    BY <1>2 DEF LoadInt
  <2> HIDE DEF got
  <2>2. LoadInt(where, size).ending = got
    BY <2>1 DEF Failed
  <2> QED
    BY <1>2, <2>2 DEF Endings, Signals, Failures
<1>3. CASE ~ Crosses(where, size) /\ got \notin {"read violation", "crash"}
  BY <1>3 DEF LoadInt, Gave, Endings
<1> QED
  BY <1>1, <1>2, <1>3

LEMMA MemChrEnding ==
    ASSUME NEW t, NEW where, NEW ch, NEW limit PROVE MemChr(t, where, ch, limit) \in Endings
<1> DEFINE hits == {a \in Addresses : /\ where <= a /\ a < where + limit
                                      /\ Get(t, a) \in NoData \cup {ch}}
           hit == CHOOSE a \in hits : \A b \in hits : a <= b
           got == Get(t, hit)
<1>1. /\ hits = {} => MemChr(t, where, ch, limit) \in {"abort", "ok"}
      /\ hits # {} /\ got = "Uninit" => MemChr(t, where, ch, limit) = "read violation"
      /\ hits # {} /\ got \in NoData \ {"Uninit"} => MemChr(t, where, ch, limit) = got
      /\ hits # {} /\ got \notin NoData => MemChr(t, where, ch, limit) = "ok"
  BY DEF MemChr, NoData
<1> HIDE DEF hits, got
<1> QED
  BY <1>1 DEF NoData, Endings, Signals, Failures

-----------------------------------------------------------------------------
(* The blocks of a tree                                                    *)

Apart(n, m) == Limit(n) <= First(m) \/ Limit(m) <= First(n)

\* The nodes handed out, and the blocks that the program has them for.
Taken(t) == {n \in DOMAIN t : Allocated(t, n)}
TakenBlocks(t) == {Block(First(n), t[n].reallyAllocated) : n \in Taken(t)}

\* Blocks lie below the offset of their half, and are no longer than their node.
Extents(t, allocs, mallocs) ==
    \A n \in Taken(t) :
        /\ t[n].reallyAllocated <= Length(n)
        /\ t[n].status = "Alloca" => Limit(n) <= allocs
        /\ t[n].status = "Malloc" => HalfSize <= First(n) /\ Limit(n) <= HalfSize + mallocs

AllApart(t) == \A n, m \in Taken(t) : n = m \/ Apart(n, m)

UsedIn(bs, a) == \E b \in bs : a \in BlockAddresses(b)

\* The bytes that the program stored are in blocks, and the tree has them.
ImageHeld(t, bs, im) ==
    \A a \in Addresses : im[a] \in Bytes => UsedIn(bs, a) /\ Holds(t, a, im[a])

LEMMA TakenAreNodes ==
    ASSUME NEW t, TreeOK(t), NEW n \in Taken(t)
    PROVE  /\ n \in Nodes /\ n \in DOMAIN t /\ t[n].reallyAllocated \in 0 .. Size
           /\ t[n].status \in {"Malloc", "Alloca"} /\ Size \in Nat
  BY SizeIsWidth DEF TreeOK, NodeOK, NodeType, Taken, Allocated, Statuses

LEMMA ApartCovers ==
    ASSUME NEW n \in Nodes, NEW m \in Nodes, Apart(n, m), NEW a \in Int, Covers(n, a)
    PROVE  ~ Covers(m, a)
<1>1. /\ First(n) \in Nat /\ First(m) \in Nat /\ Limit(n) \in Nat /\ Limit(m) \in Nat
  BY NodeType1
<1> QED
  BY <1>1 DEF Apart, Covers

LEMMA ApartNotSame ==
    ASSUME NEW n \in Nodes, NEW m \in Nodes, Apart(n, m)
    PROVE  First(n) # First(m) /\ ~ Inside(n, m) /\ n # m
<1>1. /\ First(n) \in Nat /\ First(m) \in Nat /\ Limit(n) \in Nat /\ Limit(m) \in Nat
      /\ Length(n) \in Nat \ {0} /\ Length(m) \in Nat \ {0}
      /\ Limit(n) = First(n) + Length(n) /\ Limit(m) = First(m) + Length(m)
  BY NodeType1
<1>2. First(n) # First(m) /\ ~ Inside(n, m)
  BY <1>1 DEF Apart, Inside
<1> QED
  BY <1>2

\* An address in use belongs to a node that was handed out.
LEMMA UsedIsTaken ==
    ASSUME NEW t, TreeOK(t), NEW s, NEW m, Extents(t, s, m),
           NEW a \in Addresses, UsedIn(TakenBlocks(t), a)
    PROVE  \E n \in Taken(t) : Covers(n, a)
<1>1. PICK n \in Taken(t) : a \in BlockAddresses(Block(First(n), t[n].reallyAllocated))
  BY DEF UsedIn, TakenBlocks
<1>2. a \in Span(First(n), t[n].reallyAllocated)
  BY <1>1 DEF BlockAddresses, Block
<1>3. /\ n \in Nodes /\ t[n].reallyAllocated \in Nat /\ t[n].reallyAllocated <= Length(n)
      /\ a \in Nat
  BY TakenAreNodes, SizeIsWidth, AddressIsNat DEF Extents
<1>4. First(n) \in Nat /\ Length(n) \in Nat /\ Limit(n) = First(n) + Length(n)
  BY <1>3, NodeType1
<1> DEFINE r == t[n].reallyAllocated
<1>5. First(n) <= a /\ a <= First(n) + r - 1 /\ r \in Nat /\ r <= Length(n)
  BY <1>2, <1>3, <1>4 DEF Span
<1> HIDE DEF r
<1>6. Covers(n, a)
  BY <1>3, <1>4, <1>5 DEF Covers
<1> QED
  BY <1>6

\* Where nothing is handed out or taken back, the blocks stay.
LEMMA BlocksKept ==
    ASSUME NEW t, NEW u, \A n : Keeps(t, u, n)
    PROVE  /\ Taken(u) = Taken(t) /\ TakenBlocks(u) = TakenBlocks(t)
           /\ \A s, m : Extents(t, s, m) => Extents(u, s, m)
           /\ AllApart(t) => AllApart(u)
<1>1. \A n : n \in Taken(u) <=> n \in Taken(t)
  BY DEF Keeps, Taken, Allocated
<1>2. \A n \in Taken(t) : /\ u[n].status = t[n].status
                          /\ u[n].reallyAllocated = t[n].reallyAllocated
  BY DEF Keeps, Taken
<1>3. Taken(u) = Taken(t)
  BY <1>1
<1>4. TakenBlocks(u) = TakenBlocks(t)
  <2>1. \A b : b \in TakenBlocks(u) <=> \E n \in Taken(u) : b = Block(First(n), u[n].reallyAllocated)
    BY DEF TakenBlocks
  <2>2. \A b : b \in TakenBlocks(t) <=> \E n \in Taken(t) : b = Block(First(n), t[n].reallyAllocated)
    BY DEF TakenBlocks
  <2>3. \A b : b \in TakenBlocks(u) <=> b \in TakenBlocks(t)
    BY <1>2, <1>3, <2>1, <2>2
  <2> QED
    BY <2>3
<1>5. \A s, m : Extents(t, s, m) => Extents(u, s, m)
  BY <1>2, <1>3 DEF Extents
<1>6. AllApart(t) => AllApart(u)
  BY <1>3 DEF AllApart
<1> QED
  BY <1>3, <1>4, <1>5, <1>6

\* A block handed out joins the others.
LEMMA BlockJoins ==
    ASSUME NEW t, NEW u, NEW N, Handed(t, u, N)
    PROVE  /\ Taken(u) = Taken(t) \cup {N}
           /\ \A n \in Taken(t) : n # N => /\ u[n].status = t[n].status
                                           /\ u[n].reallyAllocated = t[n].reallyAllocated
<1>1. \A n : n # N => (n \in Taken(u) <=> n \in Taken(t))
  BY DEF Handed, Keeps, Taken, Allocated
<1>2. \A n \in Taken(t) : n # N => /\ u[n].status = t[n].status
                                   /\ u[n].reallyAllocated = t[n].reallyAllocated
  BY DEF Handed, Keeps, Taken
<1>3. N \in Taken(u)
  BY DEF Handed, Taken, Allocated
<1>4. \A n : n \in Taken(u) <=> n \in Taken(t) \/ n = N
  BY <1>1, <1>3
<1> QED
  BY <1>2, <1>4

LEMMA BlocksJoined ==
    ASSUME NEW t, NEW u, NEW N, Handed(t, u, N), N \notin Taken(t)
    PROVE  TakenBlocks(u) = TakenBlocks(t) \cup {Block(First(N), u[N].reallyAllocated)}
<1>1. /\ Taken(u) = Taken(t) \cup {N}
      /\ \A n \in Taken(t) : u[n].reallyAllocated = t[n].reallyAllocated
  BY BlockJoins
<1>2. \A b : b \in TakenBlocks(u) <=> \E n \in Taken(u) : b = Block(First(n), u[n].reallyAllocated)
  BY DEF TakenBlocks
<1>3. \A b : b \in TakenBlocks(t) <=> \E n \in Taken(t) : b = Block(First(n), t[n].reallyAllocated)
  BY DEF TakenBlocks
<1>4. ASSUME NEW b
      PROVE  b \in TakenBlocks(u) <=> b \in TakenBlocks(t) \/ b = Block(First(N), u[N].reallyAllocated)
  BY <1>1, <1>2, <1>3
<1> QED
  BY <1>4

\* A block taken back takes no other with it.
LEMMA BlockLeaves ==
    ASSUME NEW t, TreeOK(t), AllApart(t), NEW N \in Taken(t)
    PROVE  /\ Taken(Without(t, N)) = Taken(t) \ {N}
           /\ \A n \in Taken(t) \ {N} : Without(t, N)[n] = t[n]
<1> DEFINE u == Without(t, N)
<1>1. N \in Nodes /\ N \in DOMAIN t
  BY TakenAreNodes
<1>2. /\ \A n \in DOMAIN t : Inside(n, N) => n \notin DOMAIN u
      /\ \A n \in DOMAIN t : ~ Inside(n, N) => n \in DOMAIN u /\ u[n] = t[n]
      /\ DOMAIN u \subseteq DOMAIN t
  BY <1>1, WithoutOK
<1> HIDE DEF u
<1>3. Inside(N, N)
  BY <1>1, NodeType1 DEF Inside
<1>4. ASSUME NEW n \in Taken(t), n # N PROVE ~ Inside(n, N) /\ n \in DOMAIN t
  BY <1>1, <1>4, TakenAreNodes, ApartNotSame DEF AllApart
<1>5. \A n : n \in Taken(u) <=> n \in Taken(t) /\ n # N
  <2>1. ASSUME NEW n \in Taken(u) PROVE n \in Taken(t) /\ n # N
    <3>1. n \in DOMAIN u /\ n \in DOMAIN t /\ Allocated(u, n)
      BY <1>2 DEF Taken
    <3>2. ~ Inside(n, N) /\ u[n] = t[n]
      BY <1>2, <3>1
    <3> QED
      BY <1>3, <3>1, <3>2 DEF Taken, Allocated
  <2>2. ASSUME NEW n \in Taken(t), n # N PROVE n \in Taken(u)
    BY <1>2, <1>4, <2>2 DEF Taken, Allocated
  <2> QED
    BY <2>1, <2>2
<1>6. \A n \in Taken(t) \ {N} : u[n] = t[n]
  BY <1>2, <1>4
<1> QED
  BY <1>5, <1>6 DEF u

-----------------------------------------------------------------------------
(* The inductive invariant                                                 *)

VarTypes ==
    /\ currentAllocOffset \in 0..Size
    /\ currentMallocOffset \in 0..HalfSize
    /\ ending \in Endings
    /\ blocks \subseteq [start : Addresses, size : 0..Size]
    /\ image \in [Addresses -> Images]
    /\ ops \in 0..MaxOps

\* While the stack keeps to its half, the blocks are apart, the history names
\* the nodes handed out and nothing else, and what was stored is in the tree.
Agree ==
    StackInItsHalf =>
        /\ AllApart(tree)
        /\ blocks = TakenBlocks(tree)
        /\ ImageHeld(tree, blocks, image)

MemoryInv ==
    /\ VarTypes
    /\ TreeOK(tree)
    /\ Extents(tree, currentAllocOffset, currentMallocOffset)
    /\ Agree

LEMMA TypesAgree == MemoryInv => TypeOK
  BY DEF MemoryInv, VarTypes, TypeOK, TreeOK, NodeOK

LEMMA SameTree ==
    ASSUME MemoryInv, tree' = tree, blocks' = blocks, image' = image, offsets' = offsets,
           ending' \in Endings, ops' \in 0..MaxOps
    PROVE  MemoryInv'
<1>1. currentAllocOffset' = currentAllocOffset /\ currentMallocOffset' = currentMallocOffset
  BY DEF offsets
<1>2. VarTypes'
  BY <1>1 DEF MemoryInv, VarTypes
<1>3. TreeOK(tree') /\ Extents(tree', currentAllocOffset', currentMallocOffset')
  BY <1>1 DEF MemoryInv
<1>4. Agree'
  BY <1>1 DEF MemoryInv, Agree, StackInItsHalf
<1> QED
  BY <1>2, <1>3, <1>4 DEF MemoryInv

\* A call that gives no block and takes none back.
LEMMA KeepStep ==
    ASSUME MemoryInv, TreeOK(tree'), \A n : Keeps(tree, tree', n), blocks' = blocks,
           offsets' = offsets, ending' \in Endings, ops' \in 0..MaxOps,
           image' \in [Addresses -> Images],
           StackInItsHalf => ImageHeld(tree', blocks, image')
    PROVE  MemoryInv'
<1>1. currentAllocOffset' = currentAllocOffset /\ currentMallocOffset' = currentMallocOffset
  BY DEF offsets
<1>2. VarTypes'
  BY <1>1 DEF MemoryInv, VarTypes
<1>3. /\ TakenBlocks(tree') = TakenBlocks(tree)
      /\ \A s, m : Extents(tree, s, m) => Extents(tree', s, m)
      /\ AllApart(tree) => AllApart(tree')
  BY BlocksKept
<1>4. Extents(tree', currentAllocOffset', currentMallocOffset')
  BY <1>1, <1>3 DEF MemoryInv
<1>5. Agree'
  BY <1>1, <1>3 DEF MemoryInv, Agree, StackInItsHalf
<1> QED
  BY <1>2, <1>4, <1>5 DEF MemoryInv

LEMMA CallOps ==
    ASSUME MemoryInv, Call PROVE ops' \in 0..MaxOps /\ offsets' = offsets
  BY BoundsAssumption DEF MemoryInv, VarTypes, Call

\* A block with a fault of none lets a store go up to its end and no further.
LEMMA NoFault ==
    ASSUME NEW t, NEW n, Allocated(t, n), NEW where, NEW size,
           StoreFault(t, n, where, size) = "ok"
    PROVE  ~ (To(n, where + size) > First(n) + t[n].reallyAllocated)
<1> DEFINE didAlloc == \E m \in Ancestors[n] : Allocated(t, m)
<1>1. ~ didAlloc
  BY DEF StoreFault
<1> QED
  BY <1>1 DEF StoreFault

\* What checkAllocation lets pass is stored into a block.
LEMMA StoredInBlocks ==
    ASSUME NEW t, TreeOK(t), NEW where \in Nat, NEW size \in Nat,
           StoreEnding(t, where, size) = "ok", NEW a \in Addresses, a \in Span(where, size)
    PROVE  UsedIn(TakenBlocks(t), a)
<1> DEFINE L == LeafOf(a)
<1>1. \A n \in Touched(where, size) : StoreFault(t, n, where, size) = "ok"
  BY StoreEndingIs
<1>2. \A n \in Paths[a] : n \in Touched(where, size)
  BY SpanIsTouched
<1>3. \E m \in Paths[a] : Allocated(t, m)
  <2>1. L \in Nodes /\ IsLeaf(L) /\ Covers(L, a) /\ a \in Int /\ L \in Paths[a]
    BY LeafIsNode, AddressIsNat, LeafInPath
  <2>2. CASE Allocated(t, L)
    BY <2>1, <2>2
  <2>3. CASE ~ Allocated(t, L)
    <3>1. StoreFault(t, L, where, size) = "ok"
      BY <1>1, <1>2, <2>1
    <3> HIDE DEF L
    <3>2. \E m \in Ancestors[L] : Allocated(t, m)
      BY <2>1, <2>3, <3>1 DEF StoreFault
    <3>3. PICK m \in Ancestors[L] : Allocated(t, m)
      BY <3>2
    <3>4. m \in Nodes /\ Above(m, L)
      BY <2>1, AncestorsOf
    <3>5. Covers(m, a)
      BY <2>1, <3>4, AboveCovers
    <3> QED
      BY <3>3, <3>4, <3>5, PathOf
  <2> QED
    BY <2>2, <2>3
<1>4. PICK m \in Paths[a] : Allocated(t, m)
  BY <1>3
<1> DEFINE r == t[m].reallyAllocated
<1>5. ~ (To(m, where + size) > First(m) + r)
  BY <1>1, <1>2, <1>4, NoFault
<1>6. m \in Taken(t) /\ m \in Nodes /\ Covers(m, a) /\ r \in Nat /\ a \in Nat
  <2>1. m \in Taken(t)
    BY <1>4 DEF Taken, Allocated
  <2> QED
    BY <2>1, TakenAreNodes, PathOf, AddressIsNat
<1>7. First(m) \in Nat /\ Limit(m) \in Nat
  BY <1>6, NodeType1
<1> HIDE DEF r
<1>8. a \in Span(First(m), r)
  <2>1. where <= a /\ a <= where + size - 1 /\ First(m) <= a /\ a < Limit(m)
    BY <1>6 DEF Span, Covers
  <2>2. a < To(m, where + size)
    BY <1>6, <1>7, <2>1 DEF To
  <2>3. To(m, where + size) \in Nat
    BY <1>7 DEF To
  <2>4. a <= First(m) + r - 1
    BY <1>5, <1>6, <1>7, <2>2, <2>3
  <2> QED
    BY <1>6, <1>7, <2>1, <2>4 DEF Span
<1>9. Block(First(m), r) \in TakenBlocks(t)
  BY <1>6 DEF TakenBlocks, r
<1>10. a \in BlockAddresses(Block(First(m), r))
  BY <1>8 DEF BlockAddresses, Block
<1> QED
  BY <1>9, <1>10 DEF UsedIn

LEMMA StoreStep ==
    ASSUME MemoryInv, NEW where \in Nat, NEW data \in Seq(Bytes \cup {Garbage}),
           NEW seen \in Seq(Images), Len(seen) = Len(data),
           \A i \in 1..Len(data) : seen[i] \in Bytes => seen[i] = data[i],
           Finish(Store(tree, where, data), blocks, Put(String(where, seen))),
           offsets' = offsets, ops' \in 0..MaxOps
    PROVE  MemoryInv'
<1> DEFINE r == Store(tree, where, data)
           u == StoreResult(tree, where, data)
           size == Len(data)
<1>1. CASE r.ending \in Endings \ {"ok"} /\ r = Ends(r.ending, tree)
  <2>1. ending' = r.ending /\ tree' = r.tree /\ blocks' = blocks /\ image' = image
    BY <1>1 DEF Finish
  <2> HIDE DEF r
  <2>2. r.tree = tree
    BY <1>1 DEF Ends
  <2> QED
    BY <1>1, <2>1, <2>2, SameTree
<1>2. CASE r = Ends("ok", u) /\ StoreEnding(tree, where, size) = "ok"
  <2>1. r.ending = "ok" /\ r.tree = u
    BY <1>2 DEF Ends
  <2>2. ending' = "ok" /\ tree' = u /\ blocks' = blocks /\ image' = Put(String(where, seen))
    BY <2>1 DEF Finish
  <2>3. /\ TreeOK(tree) /\ TreeOK(u)
        /\ \A n : Keeps(tree, u, n)
        /\ \A a \in Addresses : \A v :
             a \notin Span(where, size) /\ Holds(tree, a, v) => Holds(u, a, v)
        /\ \A a \in Addresses :
             a \in Span(where, size) => Holds(u, a, data[a - where + 1])
    BY StoreOK DEF MemoryInv
  <2> HIDE DEF u, r
  <2>4. size \in Nat
    OBVIOUS
  <2>5. \A a \in Addresses : image'[a] =
           IF a \in Span(where, size) THEN seen[a - where + 1] ELSE image[a]
    BY <2>2 DEF Put, String
  <2>6. ASSUME NEW a \in Addresses, a \in Span(where, size) PROVE a - where + 1 \in 1..size
    BY <2>4, <2>6, AddressIsNat DEF Span
  <2>7. image' \in [Addresses -> Images]
    <3>1. \A a \in Addresses : image[a] \in Images
      BY DEF MemoryInv, VarTypes
    <3>2. \A a \in Addresses : image'[a] \in Images
      BY <2>4, <2>5, <2>6, <3>1
    <3>3. image' = [a \in Addresses |-> image'[a]]
      BY <2>2 DEF Put
    <3> QED
      BY <3>2, <3>3
  <2>8. ASSUME StackInItsHalf, NEW a \in Addresses, image'[a] \in Bytes
        PROVE  UsedIn(blocks, a) /\ Holds(u, a, image'[a])
    <3>1. blocks = TakenBlocks(tree) /\ ImageHeld(tree, blocks, image)
      BY <2>8 DEF MemoryInv, Agree
    <3>2. CASE a \in Span(where, size)
      <4>1. image'[a] = data[a - where + 1]
        BY <2>5, <2>6, <2>8, <3>2
      <4> QED
        BY <1>2, <2>3, <2>4, <3>1, <3>2, <4>1, StoredInBlocks
    <3>3. CASE a \notin Span(where, size)
      <4>1. image'[a] = image[a]
        BY <2>5, <3>3
      <4>2. UsedIn(blocks, a) /\ Holds(tree, a, image[a])
        BY <2>8, <3>1, <4>1 DEF ImageHeld
      <4> QED
        BY <2>3, <3>3, <4>1, <4>2
    <3> QED
      BY <3>2, <3>3
  <2>9. StackInItsHalf => ImageHeld(tree', blocks, image')
    BY <2>2, <2>8 DEF ImageHeld
  <2> QED
    BY <2>2, <2>3, <2>7, <2>9, KeepStep DEF Endings
<1> QED
  BY <1>1, <1>2, StoreCases

LEMMA MemsetStep ==
    ASSUME MemoryInv, NEW where \in Nat, NEW fill \in Bytes, NEW size \in Nat,
           MemsetMemory(where, fill, size)
    PROVE  MemoryInv'
<1> DEFINE r == Memset(tree, where, fill, size)
           u == MemsetResult(tree, where, fill, size)
<1>1. /\ Finish(r, blocks, Put(Fill(where, size, "anything")))
      /\ offsets' = offsets /\ ops' \in 0..MaxOps
  BY CallOps DEF MemsetMemory
<1>2. CASE r = Ends("abort", tree)
  <2>1. r.ending = "abort" /\ r.tree = tree
    BY <1>2 DEF Ends
  <2> HIDE DEF r
  <2>2. ending' = "abort" /\ tree' = tree /\ blocks' = blocks /\ image' = image
    BY <1>1, <2>1 DEF Finish
  <2> QED
    BY <1>1, <2>2, SameTree DEF Endings, Failures
<1>3. CASE r = Ends("ok", u)
  <2>1. r.ending = "ok" /\ r.tree = u
    BY <1>3 DEF Ends
  <2> HIDE DEF r, u
  <2>2. /\ ending' = "ok" /\ tree' = u /\ blocks' = blocks
        /\ image' = Put(Fill(where, size, "anything"))
    BY <1>1, <2>1 DEF Finish
  <2>3. /\ TreeOK(tree) /\ TreeOK(u)
        /\ \A n : Keeps(tree, u, n)
        /\ \A a \in Addresses : \A v :
             a \notin Span(where, size) /\ Holds(tree, a, v) => Holds(u, a, v)
    BY MemsetOK DEF MemoryInv, u
  <2>4. \A a \in Addresses : image'[a] =
           IF a \in Span(where, size) THEN "anything" ELSE image[a]
    BY <2>2 DEF Put, Fill
  <2>5. image' \in [Addresses -> Images]
    <3>1. \A a \in Addresses : image[a] \in Images /\ "anything" \in Images
      BY DEF MemoryInv, VarTypes, Images
    <3>2. image' = [a \in Addresses |-> image'[a]]
      BY <2>2 DEF Put
    <3> QED
      BY <2>4, <3>1, <3>2
  <2>6. ASSUME StackInItsHalf, NEW a \in Addresses, image'[a] \in Bytes
        PROVE  UsedIn(blocks, a) /\ Holds(u, a, image'[a])
    <3>1. a \notin Span(where, size) /\ image'[a] = image[a]
      BY <2>4, <2>6, ImagesAssumption
    <3>2. UsedIn(blocks, a) /\ Holds(tree, a, image[a])
      BY <2>6, <3>1 DEF MemoryInv, Agree, ImageHeld
    <3> QED
      BY <2>3, <3>1, <3>2
  <2>7. StackInItsHalf => ImageHeld(tree', blocks, image')
    BY <2>2, <2>6 DEF ImageHeld
  <2> QED
    BY <1>1, <2>2, <2>3, <2>5, <2>7, KeepStep DEF Endings
<1> QED
  BY <1>2, <1>3, MemsetCases

\* A load changes nothing; the program ends if there was nothing to load.
LEMMA LookStep ==
    ASSUME MemoryInv, NEW e \in Endings, Finish(Ends(e, tree), blocks, image),
           offsets' = offsets, ops' \in 0..MaxOps
    PROVE  MemoryInv'
<1>1. Ends(e, tree).ending = e /\ Ends(e, tree).tree = tree
  BY DEF Ends
<1>2. tree' = tree /\ ending' = e /\ blocks' = blocks /\ image' = image
  BY <1>1 DEF Finish
<1> QED
  BY <1>2, SameTree

LEMMA LookOps ==
    ASSUME MemoryInv, Look PROVE ops' \in 0..MaxOps /\ offsets' = offsets
  BY DEF MemoryInv, VarTypes, Look

LEMMA CopyStep ==
    ASSUME MemoryInv, NEW dst \in Nat, NEW src \in Addresses, NEW size \in Nat,
           src + size <= Size, CopyMemory(dst, src, size)
    PROVE  MemoryInv'
<1> DEFINE load == LoadBytes(src, size)
           seen == [i \in 1..size |-> IF load.data[i] \in Bytes THEN load.data[i] ELSE "anything"]
<1>1. ops' \in 0..MaxOps /\ offsets' = offsets
  BY CallOps DEF CopyMemory
<1>2. /\ load.ending \in Endings
      /\ load.ending = "ok" => load.data \in Seq(Bytes \cup {Garbage}) /\ Len(load.data) = size
  BY LoadBytesOK DEF MemoryInv
<1>3. /\ load.ending # "ok" => Finish(Ends(load.ending, tree), blocks, image)
      /\ load.ending = "ok" => Finish(Store(tree, dst, load.data), blocks, Put(String(dst, seen)))
  BY DEF CopyMemory, Ended
<1> HIDE DEF load
<1>4. CASE load.ending # "ok"
  BY <1>1, <1>2, <1>3, <1>4, LookStep
<1>5. CASE load.ending = "ok"
  <2>1. seen \in [1..size -> Images]
    BY DEF Images
  <2>2. seen \in Seq(Images) /\ Len(seen) = size
    <3> HIDE DEF seen
    <3> QED
      BY <2>1
  <2>3. \A i \in 1..size : seen[i] \in Bytes => seen[i] = load.data[i]
    BY ImagesAssumption
  <2> HIDE DEF seen
  <2> QED
    BY <1>1, <1>2, <1>3, <1>5, <2>2, <2>3, StoreStep
<1> QED
  BY <1>4, <1>5

-----------------------------------------------------------------------------
LEMMA FreedBlock ==
    ASSUME MemoryInv, StackInItsHalf, NEW ptr \in Addresses
    PROVE  /\ \A N \in FreedNodes(tree, ptr, "Malloc") :
                N \in Taken(tree)
                /\ {b \in blocks : b.start = ptr /\ ptr >= mallocStart} =
                     {Block(First(N), tree[N].reallyAllocated)}
           /\ FreedNodes(tree, ptr, "Malloc") = {} =>
                {b \in blocks : b.start = ptr /\ ptr >= mallocStart} = {}
<1>1. /\ TreeOK(tree) /\ AllApart(tree) /\ blocks = TakenBlocks(tree)
      /\ Extents(tree, currentAllocOffset, currentMallocOffset)
      /\ currentAllocOffset \in Nat /\ currentAllocOffset <= HalfSize
  BY SizeIsWidth DEF MemoryInv, Agree, StackInItsHalf, VarTypes
<1>2. ASSUME NEW n \in Taken(tree), NEW m \in Taken(tree), First(n) = First(m)
      PROVE  n = m
  BY <1>1, <1>2, TakenAreNodes, ApartNotSame DEF AllApart
<1>3. ASSUME NEW n \in Taken(tree), First(n) = ptr, ptr >= mallocStart
      PROVE  n \in FreedNodes(tree, ptr, "Malloc")
  <2>1. n \in Nodes /\ n \in DOMAIN tree /\ tree[n].status \in {"Malloc", "Alloca"}
    BY <1>1, TakenAreNodes
  <2>2. /\ First(n) \in Nat /\ Length(n) \in Nat \ {0} /\ Limit(n) = First(n) + Length(n)
        /\ HalfSize \in Nat
    BY <2>1, NodeType1, HalfIsWidth
  <2>3. tree[n].status # "Alloca"
    <3> SUFFICES ASSUME tree[n].status = "Alloca" PROVE FALSE
      OBVIOUS
    <3>1. Limit(n) <= currentAllocOffset
      BY <1>1 DEF Extents
    <3> QED
      BY <1>1, <1>3, <2>2, <3>1 DEF mallocStart
  <2>4. n \in Paths[ptr]
    BY <1>3, <2>1, CoversFirst, PathOf
  <2> QED
    BY <1>3, <2>1, <2>3, <2>4 DEF FreedNodes
<1>4. ASSUME NEW N \in FreedNodes(tree, ptr, "Malloc")
      PROVE  N \in Taken(tree) /\ First(N) = ptr /\ ptr >= mallocStart
  <2>1. N \in Taken(tree) /\ First(N) = ptr /\ tree[N].status = "Malloc"
    BY DEF FreedNodes, Taken, Allocated
  <2>2. N \in Nodes /\ First(N) \in Nat /\ HalfSize \in Nat
    BY <1>1, <2>1, TakenAreNodes, NodeType1, HalfIsWidth
  <2>3. HalfSize <= First(N)
    BY <1>1, <2>1 DEF Extents
  <2> QED
    BY <2>1, <2>2, <2>3 DEF mallocStart
<1>5. \A b : b \in blocks <=> \E n \in Taken(tree) : b = Block(First(n), tree[n].reallyAllocated)
  BY <1>1 DEF TakenBlocks
<1>6. \A x, y : Block(x, y).start = x
  BY DEF Block
<1>7. ASSUME NEW N \in FreedNodes(tree, ptr, "Malloc"), NEW b
      PROVE  (b \in blocks /\ b.start = ptr /\ ptr >= mallocStart)
                <=> b = Block(First(N), tree[N].reallyAllocated)
  BY <1>2, <1>4, <1>5, <1>6
<1>8. ASSUME FreedNodes(tree, ptr, "Malloc") = {}, NEW b \in blocks
      PROVE  ~ (b.start = ptr /\ ptr >= mallocStart)
  BY <1>3, <1>5, <1>6, <1>8
<1>9. ASSUME NEW N \in FreedNodes(tree, ptr, "Malloc")
      PROVE  {b \in blocks : b.start = ptr /\ ptr >= mallocStart} =
                     {Block(First(N), tree[N].reallyAllocated)}
  BY <1>7
<1> QED
  BY <1>4, <1>8, <1>9

LEMMA UsedElsewhere ==
    ASSUME NEW t, TreeOK(t), AllApart(t), NEW s, NEW m, Extents(t, s, m), NEW N \in Taken(t),
           NEW a \in Addresses, UsedIn(TakenBlocks(t), a),
           a \notin BlockAddresses(Block(First(N), t[N].reallyAllocated))
    PROVE  /\ UsedIn(TakenBlocks(t) \ {Block(First(N), t[N].reallyAllocated)}, a)
           /\ ~ Covers(N, a)
<1>1. PICK n \in Taken(t) : a \in BlockAddresses(Block(First(n), t[n].reallyAllocated))
  BY DEF UsedIn, TakenBlocks
<1> DEFINE b == Block(First(n), t[n].reallyAllocated)
           c == Block(First(N), t[N].reallyAllocated)
<1>2. b \in TakenBlocks(t) /\ b # c /\ n # N
  BY <1>1 DEF TakenBlocks
<1>3. UsedIn(TakenBlocks(t) \ {c}, a)
  BY <1>1, <1>2 DEF UsedIn
<1>4. a \in Span(First(n), t[n].reallyAllocated)
  BY <1>1 DEF BlockAddresses, Block
<1> DEFINE r == t[n].reallyAllocated
<1>5. n \in Nodes /\ N \in Nodes /\ r \in Nat /\ r <= Length(n) /\ a \in Nat /\ Apart(n, N)
  BY <1>2, TakenAreNodes, SizeIsWidth, AddressIsNat DEF Extents, AllApart
<1>6. First(n) \in Nat /\ Length(n) \in Nat /\ Limit(n) = First(n) + Length(n)
  BY <1>5, NodeType1
<1>7. First(n) <= a /\ a <= First(n) + r - 1
  BY <1>4 DEF Span
<1> HIDE DEF r
<1>8. Covers(n, a)
  BY <1>5, <1>6, <1>7 DEF Covers
<1>9. ~ Covers(N, a)
  BY <1>5, <1>8, ApartCovers
<1> QED
  BY <1>3, <1>9

LEMMA FreeStep ==
    ASSUME MemoryInv, NEW ptr \in Addresses, FreeMemory(ptr)
    PROVE  MemoryInv'
<1> DEFINE r == Free(tree, ptr, "Malloc")
           freed == {b \in blocks : b.start = ptr /\ ptr >= mallocStart}
           addresses == UNION {BlockAddresses(b) : b \in freed}
           left == [a \in Addresses |-> IF a \in addresses THEN "anything" ELSE image[a]]
<1>1. Finish(r, blocks \ freed, left) /\ ops' \in 0..MaxOps /\ offsets' = offsets
  BY CallOps DEF FreeMemory
<1>2. TreeOK(tree)
  BY DEF MemoryInv
<1>3. CASE r = Ends("free violation", tree)
  <2>1. ASSUME NEW e PROVE Ends(e, tree).ending = e /\ Ends(e, tree).tree = tree
    BY DEF Ends
  <2>2. r.ending = "free violation" /\ r.tree = tree
    BY <1>3, <2>1, Zenon
  <2> HIDE DEF r, freed, left
  <2>3. ending' = "free violation" /\ tree' = tree /\ blocks' = blocks /\ image' = image
    BY <1>1, <2>2 DEF Finish
  <2> QED
    BY <1>1, <2>3, SameTree DEF Endings, Signals
<1>4. /\ currentAllocOffset' = currentAllocOffset /\ currentMallocOffset' = currentMallocOffset
      /\ StackInItsHalf' = StackInItsHalf
  BY <1>1 DEF offsets, StackInItsHalf
<1>5. ASSUME blocks' = blocks \ freed, image' = left, ending' = "ok"
      PROVE  VarTypes'
  <2>1. blocks \ freed \in SUBSET [start : Addresses, size : 0..Size]
    BY DEF MemoryInv, VarTypes
  <2>2. left \in [Addresses -> Images]
    BY DEF MemoryInv, VarTypes, Images
  <2> QED
    BY <1>1, <1>4, <1>5, <2>1, <2>2 DEF MemoryInv, VarTypes, Endings
<1>6. ASSUME NEW u, r = Ends("ok", u)
      PROVE  /\ tree' = u /\ blocks' = blocks \ freed /\ image' = left /\ ending' = "ok"
  <2>1. r.ending = "ok" /\ r.tree = u
    BY <1>6 DEF Ends
  <2> HIDE DEF r, freed, left
  <2> QED
    BY <1>1, <2>1 DEF Finish
<1>7. CASE FreedNodes(tree, ptr, "Malloc") = {} /\ r = Ends("ok", tree)
  <2>1. tree' = tree /\ blocks' = blocks \ freed /\ image' = left /\ VarTypes'
    BY <1>5, <1>6, <1>7
  <2>2. ASSUME StackInItsHalf PROVE blocks' = blocks /\ image' = image
    <3>1. freed = {}
      BY <1>7, <2>2, FreedBlock
    <3>2. addresses = {}
      BY <3>1
    <3> HIDE DEF addresses, freed
    <3>3. left = image
      BY <3>2 DEF MemoryInv, VarTypes
    <3> QED
      BY <2>1, <3>1, <3>3
  <2>3. Agree'
    BY <1>4, <2>1, <2>2 DEF MemoryInv, Agree
  <2> QED
    BY <1>4, <2>1, <2>3 DEF MemoryInv
<1>8. CASE \E n \in FreedNodes(tree, ptr, "Malloc") : r = Ends("ok", Without(tree, n))
  <2>1. PICK N \in FreedNodes(tree, ptr, "Malloc") : r = Ends("ok", Without(tree, N))
    BY <1>8
  <2> DEFINE u == Without(tree, N)
             c == Block(First(N), tree[N].reallyAllocated)
  <2>2. tree' = u /\ blocks' = blocks \ freed /\ image' = left /\ VarTypes'
    BY <1>5, <1>6, <2>1
  <2>3. N \in Nodes /\ N \in Taken(tree)
    BY PathOf DEF FreedNodes, Taken, Allocated
  <2>4. /\ TreeOK(u)
        /\ \A n \in DOMAIN u : n \in DOMAIN tree /\ u[n] = tree[n]
        /\ \A a \in Addresses : \A v : ~ Covers(N, a) /\ Holds(tree, a, v) => Holds(u, a, v)
    BY <1>2, <2>3, WithoutOK DEF Without
  <2>5. /\ AllApart(tree) => /\ Taken(u) = Taken(tree) \ {N}
                             /\ \A n \in Taken(tree) \ {N} : u[n] = tree[n]
    BY <1>2, <2>3, BlockLeaves
  <2>6. Extents(tree, currentAllocOffset, currentMallocOffset)
    BY DEF MemoryInv
  <2>7. Extents(u, currentAllocOffset, currentMallocOffset)
    <3> HIDE DEF u
    <3>1. \A n \in Taken(u) : n \in Taken(tree) /\ u[n] = tree[n]
      BY <2>4 DEF Taken, Allocated
    <3> QED
      BY <2>6, <3>1 DEF Extents
  <2>8. ASSUME StackInItsHalf
        PROVE  AllApart(u) /\ blocks' = TakenBlocks(u) /\ ImageHeld(u, blocks', image')
    <3>1. AllApart(tree) /\ blocks = TakenBlocks(tree) /\ ImageHeld(tree, blocks, image)
      BY <2>8 DEF MemoryInv, Agree
    <3>2. freed = {c}
      BY <2>8, FreedBlock
    <3>3. Taken(u) = Taken(tree) \ {N} /\ \A n \in Taken(tree) \ {N} : u[n] = tree[n]
      BY <2>5, <3>1
    <3> HIDE DEF u
    <3>4. AllApart(u)
      BY <3>1, <3>3 DEF AllApart
    <3>5. blocks' = TakenBlocks(tree) \ {c}
      BY <2>2, <3>1, <3>2
    <3>6. TakenBlocks(tree) \ {c} = TakenBlocks(u)
      <4>1. ASSUME NEW n \in Taken(tree), n # N PROVE First(n) # First(N)
        BY <1>2, <2>3, <3>1, <4>1, TakenAreNodes, ApartNotSame DEF AllApart
      <4>2. \A x, y, z, w : Block(x, y) = Block(z, w) => x = z
        BY DEF Block
      <4>3. \A b : b \in TakenBlocks(tree) <=>
                      \E n \in Taken(tree) : b = Block(First(n), tree[n].reallyAllocated)
        BY DEF TakenBlocks
      <4>4. \A b : b \in TakenBlocks(u) <=>
                      \E n \in Taken(u) : b = Block(First(n), u[n].reallyAllocated)
        BY DEF TakenBlocks
      <4>5. ASSUME NEW b PROVE b \in TakenBlocks(u) <=> b \in TakenBlocks(tree) /\ b # c
        BY <2>3, <3>3, <4>1, <4>2, <4>3, <4>4
      <4> HIDE DEF c
      <4> QED
        BY <4>5
    <3>7. ASSUME NEW a \in Addresses, image'[a] \in Bytes
          PROVE  UsedIn(blocks', a) /\ Holds(u, a, image'[a])
      <4>1. a \notin BlockAddresses(c) /\ image'[a] = image[a]
        <5>1. addresses = BlockAddresses(c)
          BY <3>2
        <5> HIDE DEF addresses, c
        <5>2. image'[a] = IF a \in addresses THEN "anything" ELSE image[a]
          BY <2>2
        <5> QED
          BY <3>7, <5>1, <5>2, ImagesAssumption
      <4>2. UsedIn(TakenBlocks(tree), a) /\ Holds(tree, a, image[a])
        BY <3>1, <3>7, <4>1 DEF ImageHeld
      <4>3. UsedIn(TakenBlocks(tree) \ {c}, a) /\ ~ Covers(N, a)
        BY <1>2, <2>3, <2>6, <3>1, <4>1, <4>2, UsedElsewhere
      <4> QED
        BY <2>4, <3>5, <4>1, <4>2, <4>3
    <3>8. ImageHeld(u, blocks', image')
      BY <3>7 DEF ImageHeld
    <3> QED
      BY <3>4, <3>5, <3>6, <3>8
  <2>9. Agree'
    BY <1>4, <2>2, <2>8 DEF Agree
  <2> QED
    BY <1>4, <2>2, <2>4, <2>7, <2>9 DEF MemoryInv
<1> QED
  BY <1>2, <1>3, <1>7, <1>8, FreeCases

-----------------------------------------------------------------------------
(* A block goes where nothing is yet                                       *)

LEMMA BlockPlace ==
    ASSUME NEW amount \in 0 .. Size, NEW half \in {0, HalfSize}, NEW offset \in Nat,
           NEW real, real = calc_real_memory_amount(amount),
           NEW ptr \in Addresses, ptr = half + Align(offset, real),
           ~ (amount > Length(TargetOf(ptr, amount)))
    PROVE  /\ real \in Nat \ {0} /\ amount <= real
           /\ TargetOf(ptr, amount) = <<ptr, real>> /\ <<ptr, real>> \in Nodes
           /\ half + offset <= ptr /\ ptr + real <= Size
<1>1. PICK k \in 0 .. Depth : /\ real = Width(k) /\ amount <= Width(k)
                              /\ k # 0 => Width(k - 1) < amount
  BY RealAmount
<1>2. k \in Nat /\ real \in Nat \ {0} /\ Size \in Nat \ {0} /\ amount \in Nat
  BY <1>1, WidthType, DepthAssumption, SizeIsWidth
<1>3. PICK q \in Nat : Align(offset, real) = real * q /\ offset <= real * q
  BY <1>2, AlignIs
<1>4. real * q \in Nat /\ HalfSize \in Nat \ {0} /\ Size = 2 * HalfSize /\ ptr \in Nat /\ ptr < Size
  BY <1>2, <1>3, Multiples, HalfIsWidth, AddressIsNat
<1>5. ptr = half + real * q /\ half + offset <= ptr
  BY <1>3, <1>4
<1>6. \E i \in Nat : ptr = real * i
  <2>1. CASE half = 0
    BY <1>4, <1>5, <2>1
  <2>2. CASE half = HalfSize /\ k # Depth
    <3>1. k <= Depth - 1 /\ Depth - 1 \in Nat
      BY <1>2, <2>2, HalfIsWidth, DepthAssumption
    <3>2. PICK p \in Nat \ {0} : Width(Depth - 1) = Width(k) * p
      BY <1>2, <3>1, WidthTimes
    <3>3. ptr = real * p + real * q
      BY <1>1, <1>5, <2>2, <3>2, HalfIsWidth
    <3>4. ptr = real * (p + q)
      BY ONLY <1>2, <3>3, Multiples, p \in Nat \ {0}, q \in Nat
    <3> QED
      BY <3>4
  <2>3. CASE half = HalfSize /\ k = Depth
    <3> SUFFICES ASSUME TRUE PROVE FALSE
      OBVIOUS
    <3>1. HalfSize < amount
      BY <1>1, <2>3, HalfIsWidth, HalvesAssumption
    <3>2. ptr = HalfSize
      <4>1. real = Size
        BY <1>1, <2>3, SizeIsWidth
      <4>2. ASSUME 0 < q PROVE FALSE
        <5>1. Size * 0 + Size <= Size * q
          BY ONLY <1>2, <4>2, Multiples, q \in Nat, 0 \in Nat
        <5> QED
          BY <1>2, <1>4, <1>5, <2>3, <4>1, <5>1
      <4>3. q = 0
        BY <4>2
      <4> QED
        BY <1>2, <1>5, <2>3, <4>3
    <3> DEFINE T == TargetOf(ptr, amount)
    <3>3. T \in Nodes /\ Fits(T, ptr, amount)
      BY TargetIsNode
    <3> HIDE DEF T
    <3>4. /\ First(T) \in Nat /\ Length(T) \in Nat /\ Limit(T) = First(T) + Length(T)
          /\ Limit(T) <= Size
          /\ IsLeaf(T) => Length(T) = ChunkSize
      BY <3>3, NodeType1
    <3>5. amount <= Length(T)
      BY <1>2, <3>4 DEF T
    <3>6. CASE IsLeaf(T)
      <4>1. Length(T) = Width(0)
        <5>1. Width(0) = ChunkSize
          BY Powers, ChunkAssumption DEF Width
        <5> QED
          BY <3>4, <3>6, <5>1
      <4>2. Width(0) <= Width(Depth - 1)
        <5>1. Depth - 1 \in Nat /\ (Depth - 1 = 0 \/ 0 < Depth - 1)
          <6>1. Depth \in Nat /\ Depth - 1 \in Nat
            BY HalfIsWidth, DepthAssumption
          <6> QED
            BY <6>1
        <5>2. CASE Depth - 1 = 0
          BY <5>2, WidthType
        <5>3. CASE 0 < Depth - 1
          BY <5>1, <5>3, WidthGrows, WidthType
        <5> QED
          BY <5>1, <5>2, <5>3
      <4> QED
        BY <1>2, <1>4, <3>1, <3>4, <3>5, <4>1, <4>2, HalfIsWidth
    <3>7. CASE ~ IsLeaf(T)
      <4>1. First(T) = HalfSize
        BY <3>2, <3>3, <3>7 DEF Fits
      <4> QED
        BY <1>2, <1>4, <3>1, <3>4, <3>5, <4>1
    <3> QED
      BY <3>6, <3>7
  <2> QED
    BY <2>1, <2>2, <2>3
<1>7. PICK i \in Nat : ptr = real * i
  BY <1>6
<1>8. TargetOf(ptr, amount) = <<ptr, real>> /\ <<ptr, real>> \in Nodes
  BY <1>1, <1>2, <1>4, <1>7, TargetIsBlock
<1>9. ptr + real <= Size
  <2>1. First(<<ptr, real>>) = ptr /\ Length(<<ptr, real>>) = real
    BY DEF First, Length
  <2> QED
    BY <1>8, <2>1, NodeType1
<1> QED
  BY <1>1, <1>2, <1>5, <1>8, <1>9

LEMMA AllocationStep ==
    ASSUME MemoryInv, NEW ptr \in Addresses, NEW amount \in 0 .. Size, NEW real \in Nat \ {0},
           amount <= real, TargetOf(ptr, amount) = <<ptr, real>>, <<ptr, real>> \in Nodes,
           NEW status \in {"Malloc", "Alloca"}, NEW state \in {"Memset", "Uninit"},
           NEW what \in {"calloced", "anything"},
           tree' = AllocResult(tree, ptr, amount, state, status),
           blocks' = blocks \cup {Block(ptr, amount)},
           image' = Put(Fill(ptr, amount, what)), ending' = "ok", ops' = ops,
           currentAllocOffset' \in 0..Size, currentMallocOffset' \in 0..HalfSize,
           currentAllocOffset <= currentAllocOffset',
           currentMallocOffset <= currentMallocOffset',
           status = "Alloca" => ptr + real <= currentAllocOffset',
           status = "Malloc" => HalfSize <= ptr /\ ptr + real <= HalfSize + currentMallocOffset',
           StackInItsHalf' => \A n \in Taken(tree) : Apart(n, <<ptr, real>>)
    PROVE  MemoryInv'
<1> DEFINE N == <<ptr, real>>
           u == AllocResult(tree, ptr, amount, state, status)
           b == Block(ptr, amount)
<1>1. /\ TreeOK(tree) /\ Extents(tree, currentAllocOffset, currentMallocOffset)
      /\ currentAllocOffset \in Nat /\ currentMallocOffset \in Nat
      /\ HalfSize \in Nat /\ Size \in Nat
  BY HalfIsWidth, SizeIsWidth DEF MemoryInv, VarTypes
<1>2. First(N) = ptr /\ Length(N) = real /\ Limit(N) = ptr + real /\ N \in Nodes
  BY DEF First, Length, Limit
<1>3. /\ TreeOK(u) /\ Handed(tree, u, N)
      /\ u[N].status = status /\ u[N].reallyAllocated = amount
      /\ \A a \in Addresses : \A v : ~ Covers(N, a) /\ Holds(tree, a, v) => Holds(u, a, v)
  <2> DEFINE T == TargetOf(ptr, amount)
  <2>1. Allocates(tree, u, T, status, amount)
    BY ONLY <1>1, AllocateOK, ptr \in Addresses, amount \in 0 .. Size,
       status \in {"Malloc", "Alloca"}, state \in {"Memset", "Uninit"}
  <2>2. T = N
    OBVIOUS
  <2> HIDE DEF T, N, u
  <2>3. Allocates(tree, u, N, status, amount)
    BY ONLY <2>1, <2>2
  <2> QED
    BY ONLY <2>3 DEF Allocates
<1> HIDE DEF u, N
<1>4. /\ Taken(u) = Taken(tree) \cup {N}
      /\ \A n \in Taken(tree) : n # N => /\ u[n].status = tree[n].status
                                         /\ u[n].reallyAllocated = tree[n].reallyAllocated
  BY <1>3, BlockJoins
<1>5. Extents(u, currentAllocOffset', currentMallocOffset')
  <2>1. /\ u[N].reallyAllocated <= Length(N)
        /\ u[N].status = "Alloca" => Limit(N) <= currentAllocOffset'
        /\ u[N].status = "Malloc" =>
             HalfSize <= First(N) /\ Limit(N) <= HalfSize + currentMallocOffset'
    BY <1>2, <1>3
  <2>2. ASSUME NEW n \in Taken(tree), n # N
        PROVE  /\ u[n].reallyAllocated <= Length(n)
               /\ u[n].status = "Alloca" => Limit(n) <= currentAllocOffset'
               /\ u[n].status = "Malloc" =>
                    HalfSize <= First(n) /\ Limit(n) <= HalfSize + currentMallocOffset'
    <3>1. u[n].status = tree[n].status /\ u[n].reallyAllocated = tree[n].reallyAllocated
      BY <1>4, <2>2
    <3>2. Limit(n) \in Nat
      BY <1>1, TakenAreNodes, NodeType1
    <3>3. /\ tree[n].reallyAllocated <= Length(n)
          /\ tree[n].status = "Alloca" => Limit(n) <= currentAllocOffset
          /\ tree[n].status = "Malloc" =>
               HalfSize <= First(n) /\ Limit(n) <= HalfSize + currentMallocOffset
      BY <1>1 DEF Extents
    <3> QED
      BY <1>1, <3>1, <3>2, <3>3
  <2> QED
    BY <1>4, <2>1, <2>2 DEF Extents
<1>6. VarTypes'
  <2>1. b \in [start : Addresses, size : 0..Size]
    BY DEF Block
  <2>2. image' \in [Addresses -> Images]
    <3>1. \A a \in Addresses : image[a] \in Images /\ what \in Images
      BY DEF MemoryInv, VarTypes, Images
    <3>2. \A a \in Addresses : image'[a] = IF a \in Span(ptr, amount) THEN what ELSE image[a]
      BY DEF Put, Fill
    <3>3. image' = [a \in Addresses |-> image'[a]]
      BY DEF Put
    <3> QED
      BY <3>1, <3>2, <3>3
  <2> HIDE DEF b
  <2>3. blocks' \in SUBSET [start : Addresses, size : 0..Size]
    BY <2>1 DEF MemoryInv, VarTypes, b
  <2> QED
    BY <2>2, <2>3 DEF MemoryInv, VarTypes, Endings
<1>7. ASSUME StackInItsHalf'
      PROVE  AllApart(u) /\ blocks' = TakenBlocks(u) /\ ImageHeld(u, blocks', image')
  <2>1. StackInItsHalf
    BY <1>1, <1>7 DEF StackInItsHalf
  <2>2. AllApart(tree) /\ blocks = TakenBlocks(tree) /\ ImageHeld(tree, blocks, image)
    BY <2>1 DEF MemoryInv, Agree
  <2>3. \A n \in Taken(tree) : n \in Nodes /\ Apart(n, N) /\ n # N
    BY <1>1, <1>2, <1>7, TakenAreNodes, ApartNotSame DEF N
  <2>4. AllApart(u)
    BY <1>4, <2>2, <2>3 DEF AllApart, Apart
  <2>5. blocks' = TakenBlocks(u)
    <3>1. N \notin Taken(tree)
      BY <2>3
    <3>2. TakenBlocks(u) = TakenBlocks(tree) \cup {Block(First(N), u[N].reallyAllocated)}
      BY <1>3, <3>1, BlocksJoined
    <3> QED
      BY <1>2, <1>3, <2>2, <3>2
  <2>6. ASSUME NEW a \in Addresses, image'[a] \in Bytes
        PROVE  UsedIn(blocks', a) /\ Holds(u, a, image'[a])
    <3>1. image'[a] = image[a]
      <4>1. image'[a] = IF a \in Span(ptr, amount) THEN what ELSE image[a]
        BY DEF Put, Fill
      <4> QED
        BY <2>6, <4>1, ImagesAssumption
    <3>2. UsedIn(blocks, a) /\ Holds(tree, a, image[a])
      BY <2>2, <2>6, <3>1 DEF ImageHeld
    <3>3. PICK n \in Taken(tree) : Covers(n, a)
      BY <1>1, <2>2, <3>2, UsedIsTaken
    <3>4. ~ Covers(N, a)
      BY <1>2, <2>3, <3>3, ApartCovers, AddressIsNat
    <3>5. UsedIn(blocks', a)
      BY <3>2 DEF UsedIn
    <3> QED
      BY <1>3, <3>1, <3>2, <3>4, <3>5
  <2>7. ImageHeld(u, blocks', image')
    BY <2>6 DEF ImageHeld
  <2> QED
    BY <2>4, <2>5, <2>7
<1>8. Agree'
  BY <1>7 DEF Agree, u
<1> QED
  BY <1>3, <1>5, <1>6, <1>8 DEF MemoryInv, u

\* An allocation that did not succeed.
LEMMA NoAllocation ==
    ASSUME MemoryInv, NEW e \in Endings, NEW result, result = Ends(e, tree), e # "ok",
           NEW nb, NEW ni, Finish(result, nb, ni), offsets' = offsets, ops' = ops
    PROVE  MemoryInv'
<1>1. result.ending = e /\ result.tree = tree
  BY DEF Ends
<1>2. tree' = tree /\ ending' = e /\ blocks' = blocks /\ image' = image
  BY <1>1 DEF Finish
<1>3. ops' \in 0..MaxOps
  BY DEF MemoryInv, VarTypes
<1> QED
  BY <1>2, <1>3, SameTree

\* A block is put at the first multiple of its size from the offset on.
Placed(ptr, real, half, offset, amount) ==
    real = calc_real_memory_amount(amount) /\ ptr = half + Align(offset, real)

\* It is inside the tree, and its node is the target of the allocation.
Fitting(ptr, real, half, offset, amount) ==
    /\ ptr \in Addresses /\ amount \in 0 .. Size
    /\ real \in Nat \ {0} /\ amount <= real
    /\ TargetOf(ptr, amount) = <<ptr, real>> /\ <<ptr, real>> \in Nodes
    /\ half + offset <= ptr /\ ptr + real <= Size

LEMMA AllocationCases ==
    ASSUME NEW t, NEW amount \in Nat, NEW half \in {0, HalfSize}, NEW offset \in Nat,
           NEW state, NEW status,
           NEW real, NEW ptr, Placed(ptr, real, half, offset, amount)
    PROVE  LET r == Allocate(t, ptr, amount, state, status)
           IN  \/ \E e \in Endings \ {"ok"} : r = Ends(e, t)
               \/ /\ r = Ends("ok", AllocResult(t, ptr, amount, state, status))
                  /\ Fitting(ptr, real, half, offset, amount)
<1> DEFINE r == Allocate(t, ptr, amount, state, status)
<1> USE DEF Placed
<1>1. CASE amount > Size
  <2>1. r = Ends("out of memory", t)
    BY <1>1 DEF Allocate
  <2>2. "out of memory" \in Endings \ {"ok"}
    BY DEF Endings, Signals
  <2> QED
    BY <2>1, <2>2
<1>2. CASE ~ (amount > Size)
  <2>1. amount \in 0 .. Size
    BY <1>2, SizeIsWidth
  <2>2. PICK k \in 0 .. Depth : real = Width(k)
    BY <2>1, RealAmount
  <2>3. real \in Nat \ {0}
    BY <2>2, WidthType, DepthAssumption
  <2>4. ptr \in Nat
    <3>1. PICK q \in Nat : Align(offset, real) = real * q
      BY <2>3, AlignIs, Zenon
    <3>2. real * q \in Nat /\ half \in Nat
      BY <2>3, Multiples, HalfIsWidth
    <3> QED
      BY <3>1, <3>2
  <2>5. \/ \E e \in Endings \ {"ok"} : r = Ends(e, t)
        \/ /\ r = Ends("ok", AllocResult(t, ptr, amount, state, status))
           /\ ptr \in Addresses
           /\ ~ (amount > Length(TargetOf(ptr, amount)))
    BY <2>4, AllocateCases
  <2> HIDE DEF r
  <2>6. CASE ptr \in Addresses /\ ~ (amount > Length(TargetOf(ptr, amount)))
    <3>1. /\ real \in Nat \ {0} /\ amount <= real
          /\ TargetOf(ptr, amount) = <<ptr, real>> /\ <<ptr, real>> \in Nodes
          /\ half + offset <= ptr /\ ptr + real <= Size
      BY <2>1, <2>6, BlockPlace
    <3> QED
      BY <2>1, <2>5, <2>6, <3>1 DEF r, Fitting
  <2> QED
    BY <2>5, <2>6 DEF r
<1> QED
  BY <1>1, <1>2

LEMMA OffsetTypes ==
    MemoryInv => /\ currentAllocOffset \in Nat /\ currentMallocOffset \in Nat
                 /\ currentAllocOffset \in 0..Size /\ currentMallocOffset \in 0..HalfSize
                 /\ HalfSize \in Nat \ {0} /\ Size = 2 * HalfSize
                 /\ TreeOK(tree) /\ Extents(tree, currentAllocOffset, currentMallocOffset)
  BY HalfIsWidth DEF MemoryInv, VarTypes

LEMMA AllocaStep ==
    ASSUME MemoryInv, NEW amount \in Nat, AllocateMemory(amount)
    PROVE  MemoryInv'
<1> DEFINE real == calc_real_memory_amount(amount)
           ptr == allocStart + Align(currentAllocOffset, real)
           state == "Uninit"
           u == AllocResult(tree, ptr, amount, state, "Alloca")
           nb == blocks \cup {Block(ptr, amount)}
           ni == Put(Fill(ptr, amount, "anything"))
           result == Allocate(tree, ptr, amount, state, "Alloca")
<1>1. /\ Finish(result, nb, ni)
      /\ currentAllocOffset' = IF result.ending = "ok" THEN ptr + real - allocStart
                                                        ELSE currentAllocOffset
      /\ currentMallocOffset' = currentMallocOffset /\ ops' = ops
  BY DEF AllocateMemory, OffsetAfter
<1>2. /\ currentAllocOffset \in Nat /\ currentMallocOffset \in 0..HalfSize
      /\ HalfSize \in Nat \ {0} /\ Size = 2 * HalfSize
      /\ TreeOK(tree) /\ Extents(tree, currentAllocOffset, currentMallocOffset)
  BY OffsetTypes
<1>3. state \in {"Memset", "Uninit"}
  OBVIOUS
<1> HIDE DEF state
<1>4. \/ \E e \in Endings \ {"ok"} : result = Ends(e, tree)
      \/ /\ result = Ends("ok", u) /\ ptr \in Addresses /\ amount \in 0 .. Size
         /\ real \in Nat \ {0} /\ amount <= real
         /\ TargetOf(ptr, amount) = <<ptr, real>> /\ <<ptr, real>> \in Nodes
         /\ currentAllocOffset <= ptr /\ ptr + real <= Size
  <2>1. allocStart \in {0, HalfSize}
    BY DEF allocStart
  <2>2. Placed(ptr, real, allocStart, currentAllocOffset, amount)
    BY DEF Placed
  <2>3. currentAllocOffset \in Nat
    BY <1>2
  <2> HIDE DEF real, ptr
  <2>4. \/ \E e \in Endings \ {"ok"} : result = Ends(e, tree)
        \/ /\ result = Ends("ok", u)
           /\ Fitting(ptr, real, allocStart, currentAllocOffset, amount)
    BY ONLY <2>1, <2>2, <2>3, AllocationCases, amount \in Nat
  <2> HIDE DEF ptr, u, result
  <2>5. allocStart + currentAllocOffset = currentAllocOffset
    BY <1>2 DEF allocStart
  <2> QED
    BY <2>4, <2>5 DEF Fitting
<1> HIDE DEF real, ptr, u, result
<1>5. CASE \E e \in Endings \ {"ok"} : result = Ends(e, tree)
  <2>1. PICK e \in Endings \ {"ok"} : result = Ends(e, tree)
    BY <1>5
  <2>2. result.ending = e
    BY <2>1 DEF Ends
  <2>3. offsets' = offsets
    BY <1>1, <2>2 DEF offsets
  <2> HIDE DEF nb, ni
  <2> QED
    BY <1>1, <2>1, <2>3, NoAllocation
<1>6. CASE /\ result = Ends("ok", u) /\ ptr \in Addresses /\ amount \in 0 .. Size
           /\ real \in Nat \ {0} /\ amount <= real
           /\ TargetOf(ptr, amount) = <<ptr, real>> /\ <<ptr, real>> \in Nodes
           /\ currentAllocOffset <= ptr /\ ptr + real <= Size
  <2>1. result.ending = "ok" /\ result.tree = u
    BY <1>6 DEF Ends
  <2>2. ptr \in Nat /\ real \in Nat
    BY <1>6, AddressIsNat
  <2>3. tree' = u /\ blocks' = nb /\ image' = ni /\ ending' = "ok"
    BY <1>1, <2>1 DEF Finish
  <2>4. currentAllocOffset' = ptr + real
    BY <1>1, <2>1, <2>2 DEF allocStart
  <2>5. /\ currentAllocOffset' \in 0..Size /\ currentMallocOffset' \in 0..HalfSize
        /\ currentAllocOffset <= currentAllocOffset'
        /\ currentMallocOffset <= currentMallocOffset'
        /\ ptr + real <= currentAllocOffset'
    BY <1>1, <1>2, <1>6, <2>2, <2>4
  <2>6. ASSUME StackInItsHalf', NEW n \in Taken(tree) PROVE Apart(n, <<ptr, real>>)
    <3>1. n \in Nodes /\ tree[n].status \in {"Malloc", "Alloca"}
      BY <1>2, TakenAreNodes
    <3>2. First(n) \in Nat /\ Limit(n) \in Nat
      BY <3>1, NodeType1
    <3>3. First(<<ptr, real>>) = ptr /\ Limit(<<ptr, real>>) = ptr + real
      BY DEF First, Limit
    <3>4. ptr + real <= HalfSize
      BY <2>4, <2>6 DEF StackInItsHalf
    <3>5. /\ tree[n].status = "Alloca" => Limit(n) <= currentAllocOffset
          /\ tree[n].status = "Malloc" => HalfSize <= First(n)
      BY <1>2 DEF Extents
    <3> HIDE DEF First, Limit
    <3>6. Limit(n) <= ptr \/ ptr + real <= First(n)
      BY <1>2, <1>6, <2>2, <3>1, <3>2, <3>4, <3>5
    <3> QED
      BY <3>3, <3>6 DEF Apart
  <2> QED
    BY <1>1, <1>3, <1>6, <2>3, <2>5, <2>6, AllocationStep, Zenon DEF u, nb, ni
<1> QED
  BY <1>4, <1>5, <1>6

LEMMA MallocStep ==
    ASSUME MemoryInv, NEW amount \in Nat, NEW zero \in BOOLEAN, MallocMemory(amount, zero)
    PROVE  MemoryInv'
<1> DEFINE real == calc_real_memory_amount(amount)
           ptr == mallocStart + Align(currentMallocOffset, real)
           state == IF zero THEN "Memset" ELSE "Uninit"
           what == IF zero THEN "calloced" ELSE "anything"
           u == AllocResult(tree, ptr, amount, state, "Malloc")
           nb == blocks \cup {Block(ptr, amount)}
           ni == Put(Fill(ptr, amount, what))
           result == Allocate(tree, ptr, amount, state, "Malloc")
<1>1. /\ Finish(result, nb, ni)
      /\ currentMallocOffset' = IF result.ending = "ok" THEN ptr + real - mallocStart
                                                         ELSE currentMallocOffset
      /\ currentAllocOffset' = currentAllocOffset /\ ops' = ops
  BY DEF MallocMemory, OffsetAfter
<1>2. /\ currentMallocOffset \in Nat /\ currentAllocOffset \in 0..Size
      /\ currentAllocOffset \in Nat
      /\ HalfSize \in Nat \ {0} /\ Size = 2 * HalfSize
      /\ TreeOK(tree) /\ Extents(tree, currentAllocOffset, currentMallocOffset)
  BY OffsetTypes
<1>3. state \in {"Memset", "Uninit"} /\ what \in {"calloced", "anything"}
  OBVIOUS
<1> HIDE DEF state, what
<1>4. \/ \E e \in Endings \ {"ok"} : result = Ends(e, tree)
      \/ /\ result = Ends("ok", u) /\ ptr \in Addresses /\ amount \in 0 .. Size
         /\ real \in Nat \ {0} /\ amount <= real
         /\ TargetOf(ptr, amount) = <<ptr, real>> /\ <<ptr, real>> \in Nodes
         /\ HalfSize + currentMallocOffset <= ptr /\ ptr + real <= Size
  <2>1. mallocStart \in {0, HalfSize}
    BY DEF mallocStart
  <2>2. Placed(ptr, real, mallocStart, currentMallocOffset, amount)
    BY DEF Placed
  <2>3. currentMallocOffset \in Nat
    BY <1>2
  <2> HIDE DEF real, ptr
  <2>4. \/ \E e \in Endings \ {"ok"} : result = Ends(e, tree)
        \/ /\ result = Ends("ok", u)
           /\ Fitting(ptr, real, mallocStart, currentMallocOffset, amount)
    BY ONLY <2>1, <2>2, <2>3, AllocationCases, amount \in Nat
  <2> HIDE DEF ptr, u, result
  <2>5. mallocStart = HalfSize
    BY DEF mallocStart
  <2> QED
    BY <2>4, <2>5 DEF Fitting
<1> HIDE DEF real, ptr, u, result
<1>5. CASE \E e \in Endings \ {"ok"} : result = Ends(e, tree)
  <2>1. PICK e \in Endings \ {"ok"} : result = Ends(e, tree)
    BY <1>5
  <2>2. result.ending = e
    BY <2>1 DEF Ends
  <2>3. offsets' = offsets
    BY <1>1, <2>2 DEF offsets
  <2> HIDE DEF nb, ni
  <2> QED
    BY <1>1, <2>1, <2>3, NoAllocation
<1>6. CASE /\ result = Ends("ok", u) /\ ptr \in Addresses /\ amount \in 0 .. Size
           /\ real \in Nat \ {0} /\ amount <= real
           /\ TargetOf(ptr, amount) = <<ptr, real>> /\ <<ptr, real>> \in Nodes
           /\ HalfSize + currentMallocOffset <= ptr /\ ptr + real <= Size
  <2>1. result.ending = "ok" /\ result.tree = u
    BY <1>6 DEF Ends
  <2>2. ptr \in Nat /\ real \in Nat
    BY <1>6, AddressIsNat
  <2>3. tree' = u /\ blocks' = nb /\ image' = ni /\ ending' = "ok"
    BY <1>1, <2>1 DEF Finish
  <2>4. currentMallocOffset' = ptr + real - HalfSize
    BY <1>1, <2>1 DEF mallocStart
  <2>5. /\ currentAllocOffset' \in 0..Size /\ currentMallocOffset' \in 0..HalfSize
        /\ currentAllocOffset <= currentAllocOffset'
        /\ currentMallocOffset <= currentMallocOffset'
        /\ HalfSize <= ptr /\ ptr + real <= HalfSize + currentMallocOffset'
    BY <1>1, <1>2, <1>6, <2>2, <2>4
  <2>6. ASSUME StackInItsHalf', NEW n \in Taken(tree) PROVE Apart(n, <<ptr, real>>)
    <3>1. n \in Nodes /\ tree[n].status \in {"Malloc", "Alloca"}
      BY <1>2, TakenAreNodes
    <3>2. First(n) \in Nat /\ Limit(n) \in Nat
      BY <3>1, NodeType1
    <3>3. First(<<ptr, real>>) = ptr /\ Limit(<<ptr, real>>) = ptr + real
      BY DEF First, Limit
    <3>4. currentAllocOffset <= HalfSize
      BY <1>1, <2>6 DEF StackInItsHalf
    <3>5. /\ tree[n].status = "Alloca" => Limit(n) <= currentAllocOffset
          /\ tree[n].status = "Malloc" => Limit(n) <= HalfSize + currentMallocOffset
      BY <1>2 DEF Extents
    <3>6. Limit(n) <= ptr
      BY <1>2, <1>6, <2>2, <3>1, <3>2, <3>4, <3>5
    <3> QED
      BY <3>3, <3>6 DEF Apart
  <2> QED
    BY <1>1, <1>3, <1>6, <2>3, <2>5, <2>6, AllocationStep, Zenon DEF u, nb, ni
<1> QED
  BY <1>4, <1>5, <1>6

-----------------------------------------------------------------------------
(* Every step of the program                                               *)

LEMMA MemoryInit == Init => MemoryInv
<1> SUFFICES ASSUME Init PROVE MemoryInv
  OBVIOUS
<1>1. tree = EmptyTree /\ currentAllocOffset = 0 /\ currentMallocOffset = 0 /\ ending = "ok"
      /\ blocks = {} /\ image = [a \in Addresses |-> "anything"] /\ ops = 0
  BY DEF Init
<1>2. DOMAIN EmptyTree = {}
  BY DEF EmptyTree
<1>3. Taken(tree) = {} /\ TreeOK(tree)
  BY <1>1, <1>2 DEF Taken, TreeOK
<1>4. TakenBlocks(tree) = {}
  BY <1>3 DEF TakenBlocks
<1>5. VarTypes
  BY <1>1, SizeIsWidth, HalfIsWidth, BoundsAssumption DEF VarTypes, Endings, Images
<1>6. Extents(tree, currentAllocOffset, currentMallocOffset) /\ AllApart(tree)
  BY <1>3 DEF Extents, AllApart
<1>7. ImageHeld(tree, blocks, image)
  BY <1>1, ImagesAssumption DEF ImageHeld
<1> QED
  BY <1>1, <1>3, <1>4, <1>5, <1>6, <1>7 DEF MemoryInv, Agree

LEMMA StoreBytesStep ==
    ASSUME MemoryInv, NEW where \in Nat, NEW data \in Seq(Bytes), StoreBytesToMemory(where, data)
    PROVE  MemoryInv'
<1>1. data \in Seq(Bytes \cup {Garbage}) /\ data \in Seq(Images)
  BY DEF Images
<1>2. ops' \in 0..MaxOps /\ offsets' = offsets
  BY CallOps DEF StoreBytesToMemory
<1>3. Finish(Store(tree, where, data), blocks, Put(String(where, data)))
  BY DEF StoreBytesToMemory
<1> QED
  BY <1>1, <1>2, <1>3, StoreStep

LEMMA AllocationKeeps ==
    ASSUME MemoryInv, Allocation PROVE MemoryInv'
<1>1. ASSUME NEW amount \in AllocaSizes, AllocateMemory(amount) PROVE MemoryInv'
  BY <1>1, AllocaStep, SizesAssumption
<1>2. ASSUME NEW amount \in MallocSizes, NEW zero \in BOOLEAN, MallocMemory(amount, zero)
      PROVE  MemoryInv'
  BY <1>2, MallocStep, SizesAssumption
<1>3. ASSUME NEW ptr \in Pointers, FreeMemory(ptr) PROVE MemoryInv'
  BY <1>3, FreeStep, PointersAssumption
<1> QED
  BY <1>1, <1>2, <1>3 DEF Allocation

LEMMA StartsAreAddresses ==
    ASSUME NEW size, NEW where \in Starts(size)
    PROVE  where \in Addresses /\ where \in Nat /\ where + size <= Size
  BY PointersAssumption, AddressIsNat DEF Starts

LEMMA StoringKeeps ==
    ASSUME MemoryInv, Storing PROVE MemoryInv'
<1>1. ASSUME NEW data \in Data, NEW where \in Starts(Len(data)), StoreBytesToMemory(where, data)
      PROVE  MemoryInv'
  BY <1>1, StoreBytesStep, DataAssumption, StartsAreAddresses
<1>2. ASSUME NEW size \in CopySizes, NEW fill \in Bytes, NEW where \in Starts(size),
             MemsetMemory(where, fill, size)
      PROVE  MemoryInv'
  BY <1>2, MemsetStep, SizesAssumption, StartsAreAddresses
<1> QED
  BY <1>1, <1>2 DEF Storing

LEMMA LoadingKeeps ==
    ASSUME MemoryInv, Loading PROVE MemoryInv'
<1>1. ASSUME NEW size \in CopySizes, NEW where \in Starts(size), LoadIntFromMemory(where, size)
      PROVE  MemoryInv'
  BY <1>1, LookOps, LoadIntEnding, LookStep DEF LoadIntFromMemory, Ended
<1>2. ASSUME NEW size \in CopySizes, NEW where \in Starts(size), LoadBytesFromMemory(where, size)
      PROVE  MemoryInv'
  <2>1. LoadBytes(where, size).ending \in Endings
    BY LoadBytesOK, StartsAreAddresses, SizesAssumption DEF MemoryInv
  <2> QED
    BY <1>2, <2>1, LookOps, LookStep DEF LoadBytesFromMemory, Ended
<1>3. ASSUME NEW where, NEW ch, NEW limit, SearchMemory(where, ch, limit)
      PROVE  MemoryInv'
  BY <1>3, LookOps, MemChrEnding, LookStep DEF SearchMemory
<1>4. ASSUME NEW size \in CopySizes, NEW dst \in Starts(size), NEW src \in Starts(size),
             CopyMemory(dst, src, size)
      PROVE  MemoryInv'
  BY <1>4, CopyStep, StartsAreAddresses, SizesAssumption
<1> QED
  BY <1>1, <1>2, <1>3, <1>4 DEF Loading

LEMMA MemoryNext ==
    ASSUME MemoryInv, [Next]_vars PROVE MemoryInv'
<1>1. CASE Next
  BY <1>1, AllocationKeeps, StoringKeeps, LoadingKeeps DEF Next
<1>2. CASE UNCHANGED vars
  <2>1. ending \in Endings /\ ops \in 0..MaxOps
    BY DEF MemoryInv, VarTypes
  <2> QED
    BY <1>2, <2>1, SameTree DEF vars
<1> QED
  BY <1>1, <1>2

LEMMA MemoryHolds == Spec => []MemoryInv
<1>1. Init => MemoryInv
  BY MemoryInit
<1>2. MemoryInv /\ [Next]_vars => MemoryInv'
  BY MemoryNext
<1> QED
  BY <1>1, <1>2, PTL DEF Spec

\* The variables keep their types, whatever the program calls: the tree stays
\* one, with chunks at its leaves only, and both offsets stay in the tree.
THEOREM TypeCorrect == Spec => []TypeOK
<1>1. MemoryInv => TypeOK
  BY TypesAgree
<1> QED
  BY <1>1, MemoryHolds, PTL

-----------------------------------------------------------------------------
(* What the invariant says of stores and loads                             *)

LEMMA HalfAgrees ==
    ASSUME MemoryInv, StackInItsHalf
    PROVE  /\ TreeOK(tree) /\ AllApart(tree) /\ blocks = TakenBlocks(tree)
           /\ ImageHeld(tree, blocks, image)
           /\ Extents(tree, currentAllocOffset, currentMallocOffset)
  BY DEF MemoryInv, Agree

LEMMA NoneAbove ==
    ASSUME NEW t, TreeOK(t), AllApart(t), NEW n \in Nodes, Allocated(t, n), NEW m \in Ancestors[n]
    PROVE  ~ Allocated(t, m)
<1> SUFFICES ASSUME Allocated(t, m) PROVE FALSE
  OBVIOUS
<1>1. m \in Nodes /\ Above(m, n)
  BY AncestorsOf
<1>2. n \in Taken(t) /\ m \in Taken(t) /\ n # m
  BY <1>1 DEF Taken, Allocated, Above
<1>3. Apart(n, m)
  BY <1>2 DEF AllApart
<1> QED
  BY <1>1, <1>3, ApartNotSame DEF Above

LEMMA NestedSegments == MemoryInv => NoNestedSegments
<1> SUFFICES ASSUME MemoryInv, StackInItsHalf, NEW n \in DOMAIN tree, NEW m \in Ancestors[n],
                    Allocated(tree, m), Allocated(tree, n)
             PROVE  FALSE
  BY DEF NoNestedSegments
<1>1. TreeOK(tree) /\ AllApart(tree) /\ n \in Nodes
  BY HalfAgrees DEF TreeOK
<1> QED
  BY <1>1, NoneAbove

LEMMA ReadBack == MemoryInv => StoredBytesReadBack
<1> SUFFICES ASSUME MemoryInv, StackInItsHalf, NEW a \in Addresses, image[a] \in Bytes
             PROVE  Get(tree, a) = image[a]
  BY DEF StoredBytesReadBack
<1>1. Holds(tree, a, image[a])
  BY HalfAgrees DEF ImageHeld
<1> QED
  BY <1>1, HoldsIsGet

LEMMA GoodFault ==
    ASSUME NEW t, NEW n, NEW where, NEW size,
           \/ /\ Allocated(t, n)
              /\ \A m \in Ancestors[n] : ~ Allocated(t, m)
              /\ ~ (To(n, where + size) > First(n) + t[n].reallyAllocated)
           \/ /\ ~ Allocated(t, n)
              /\ IsLeaf(n) => \E m \in Ancestors[n] : Allocated(t, m)
    PROVE  StoreFault(t, n, where, size) = "ok"
<1>1. CASE Allocated(t, n)
  BY <1>1 DEF StoreFault
<1>2. CASE ~ Allocated(t, n)
  BY <1>2 DEF StoreFault
<1> QED
  BY <1>1, <1>2

LEMMA BadFault ==
    ASSUME NEW t, NEW n, NEW where, NEW size,
           \A m \in Ancestors[n] : ~ Allocated(t, m),
           \/ Allocated(t, n) /\ To(n, where + size) > First(n) + t[n].reallyAllocated
           \/ ~ Allocated(t, n) /\ IsLeaf(n)
    PROVE  StoreFault(t, n, where, size) # "ok"
<1>1. CASE Allocated(t, n)
  BY <1>1 DEF StoreFault
<1>2. CASE ~ Allocated(t, n)
  BY <1>2 DEF StoreFault
<1> QED
  BY <1>1, <1>2

LEMMA Inconsistent ==
    ASSUME NEW t, NEW n, NEW where, NEW size, StoreFault(t, n, where, size) = "inconsistency"
    PROVE  Allocated(t, n) /\ \E m \in Ancestors[n] : Allocated(t, m)
<1>1. CASE Allocated(t, n) /\ ~ \E m \in Ancestors[n] : Allocated(t, m)
  BY <1>1 DEF StoreFault
<1>2. CASE ~ Allocated(t, n)
  BY <1>2 DEF StoreFault
<1> QED
  BY <1>1, <1>2

\* The nodes that a store into a block touches are above the block, the block's
\* own, and below it, where no leaf stands alone.
LEMMA BlockStores == MemoryInv => StoresIntoBlocksPass
<1> SUFFICES ASSUME MemoryInv, StackInItsHalf, NEW b \in blocks,
                    NEW where \in BlockAddresses(b), NEW size \in 1..(b.start + b.size - where)
             PROVE  StoreEnding(tree, where, size) = "ok"
  BY DEF StoresIntoBlocksPass
<1>1. /\ TreeOK(tree) /\ AllApart(tree) /\ blocks = TakenBlocks(tree)
      /\ Extents(tree, currentAllocOffset, currentMallocOffset)
  BY HalfAgrees
<1>2. PICK n \in Taken(tree) : b = Block(First(n), tree[n].reallyAllocated)
  BY <1>1 DEF TakenBlocks
<1> DEFINE r == tree[n].reallyAllocated
<1>3. n \in Nodes /\ r \in Nat /\ r <= Length(n) /\ Allocated(tree, n)
  BY <1>1, TakenAreNodes, SizeIsWidth DEF Extents, Taken
<1>4. First(n) \in Nat /\ Length(n) \in Nat /\ Limit(n) = First(n) + Length(n)
  BY <1>3, NodeType1
<1>5. b.start = First(n) /\ b.size = r
  BY <1>2 DEF Block
<1>6. where \in Span(First(n), r)
  BY <1>5 DEF BlockAddresses
<1> HIDE DEF r
<1>7. where \in Nat /\ First(n) <= where /\ where <= First(n) + r - 1
  BY <1>3, <1>4, <1>6 DEF Span
<1>8. size \in Nat /\ size # 0 /\ where + size <= First(n) + r
  BY <1>3, <1>4, <1>5, <1>7
<1>9. where + size <= Limit(n) /\ where < Limit(n) /\ Covers(n, where)
  BY <1>3, <1>4, <1>7, <1>8 DEF Covers
<1>10. ASSUME NEW m \in Touched(where, size) PROVE StoreFault(tree, m, where, size) = "ok"
  <2>1. m \in Nodes /\ (Covers(m, where) \/ (First(m) < where + size /\ where < Limit(m)))
    BY TouchedIs
  <2>2. First(m) \in Nat /\ Limit(m) \in Nat /\ Limit(n) \in Nat
    BY <1>3, <2>1, NodeType1
  <2>3. ~ Apart(m, n)
    BY <1>4, <1>7, <1>8, <1>9, <2>1, <2>2 DEF Apart, Covers
  <2>4. CASE Allocated(tree, m)
    <3>1. m \in Taken(tree)
      BY <2>4 DEF Taken, Allocated
    <3>2. m = n
      BY <1>1, <2>3, <3>1 DEF AllApart
    <3>3. \A l \in Ancestors[n] : ~ Allocated(tree, l)
      BY <1>1, <1>3, NoneAbove
    <3>4. ~ (To(n, where + size) > First(n) + r)
      BY <1>3, <1>4, <1>7, <1>8, <1>9 DEF To
    <3> QED
      BY <2>4, <3>2, <3>3, <3>4, GoodFault DEF r
  <2>5. CASE ~ Allocated(tree, m)
    <3>1. ASSUME IsLeaf(m) PROVE \E l \in Ancestors[m] : Allocated(tree, l)
      <4>1. Length(m) <= Length(n) /\ m # n
        BY <1>3, <2>1, <2>5, <3>1, NodeType1
      <4>2. Inside(m, n)
        BY <1>3, <2>1, <2>3, <4>1, NestedOrApart DEF Apart
      <4>3. n \in Ancestors[m]
        BY <1>3, <2>1, <4>1, <4>2, AncestorsOf DEF Above
      <4> QED
        BY <1>3, <4>3
    <3> QED
      BY <2>5, <3>1, GoodFault
  <2> QED
    BY <2>4, <2>5
<1> QED
  BY <1>10, StoreEndingIs

LEMMA StrayStores == MemoryInv => StrayStoresAreCaught
<1> SUFFICES ASSUME MemoryInv, StackInItsHalf, NEW where \in Addresses, ~ InUse(where)
             PROVE  StoreEnding(tree, where, 1) = "write violation"
  BY DEF StrayStoresAreCaught
<1>1. /\ TreeOK(tree) /\ AllApart(tree) /\ blocks = TakenBlocks(tree)
      /\ Extents(tree, currentAllocOffset, currentMallocOffset)
  BY HalfAgrees
<1>2. where \in Nat
  BY AddressIsNat
<1>3. \E n \in Touched(where, 1) : StoreFault(tree, n, where, 1) # "ok"
  <2>1. CASE \E n \in Paths[where] : Allocated(tree, n)
    <3>1. PICK n \in Paths[where] : Allocated(tree, n)
      BY <2>1
    <3> DEFINE r == tree[n].reallyAllocated
    <3>2. n \in Taken(tree)
      BY <3>1 DEF Taken, Allocated
    <3>3. n \in Nodes /\ Covers(n, where) /\ r \in Nat
      BY <1>1, <3>2, TakenAreNodes, PathOf, SizeIsWidth
    <3>4. First(n) \in Nat /\ Limit(n) \in Nat
      BY <3>3, NodeType1
    <3>5. Block(First(n), r) \in blocks
      BY <1>1, <3>2 DEF TakenBlocks
    <3>6. where \notin Span(First(n), r)
      <4>1. where \notin BlockAddresses(Block(First(n), r))
        BY <3>5 DEF InUse
      <4>2. BlockAddresses(Block(First(n), r)) = Span(First(n), r)
        BY DEF BlockAddresses, Block
      <4> QED
        BY <4>1, <4>2
    <3> HIDE DEF r
    <3>7. First(n) <= where /\ where < Limit(n) /\ First(n) + r <= where
      BY <1>2, <3>3, <3>4, <3>6 DEF Span, Covers
    <3>8. To(n, where + 1) > First(n) + r
      BY <1>2, <3>3, <3>4, <3>7 DEF To
    <3>9. \A m \in Ancestors[n] : ~ Allocated(tree, m)
      BY <1>1, <3>1, <3>3, NoneAbove
    <3>10. n \in Touched(where, 1)
      BY <3>3, TouchedIs
    <3> QED
      BY <3>1, <3>8, <3>9, <3>10, BadFault DEF r
  <2>2. CASE ~ \E n \in Paths[where] : Allocated(tree, n)
    <3> DEFINE L == LeafOf(where)
    <3>1. L \in Nodes /\ IsLeaf(L) /\ Covers(L, where) /\ L \in Paths[where]
      BY LeafIsNode, LeafInPath
    <3> HIDE DEF L
    <3>2. \A m \in Ancestors[L] : m \in Paths[where]
      BY <1>2, <3>1, AncestorsOf, AboveCovers, PathOf
    <3>3. L \in Touched(where, 1)
      BY <3>1, TouchedIs
    <3> QED
      BY <2>2, <3>1, <3>2, <3>3, BadFault
  <2> QED
    BY <2>1, <2>2
<1>4. PICK n \in Touched(where, 1) :
         /\ StoreFault(tree, n, where, 1) # "ok"
         /\ StoreEnding(tree, where, 1) = StoreFault(tree, n, where, 1)
  BY <1>3, StoreEndingIs
<1>5. StoreFault(tree, n, where, 1) # "inconsistency"
  <2>1. n \in Nodes
    BY TouchedIs
  <2> QED
    BY <1>1, <2>1, Inconsistent, NoneAbove
<1> QED
  BY <1>4, <1>5, StoreFaultType DEF StoreFaults

\* A byte that a store or a memcpy put somewhere is what a load finds there, in
\* a tree of any size and after any number of calls, while the stack keeps to
\* its half.
THEOREM StoredBytesStay == Spec => []StoredBytesReadBack
<1>1. MemoryInv => StoredBytesReadBack
  BY ReadBack
<1> QED
  BY <1>1, MemoryHolds, PTL

\* No two blocks of alloca or malloc are ever nested.
THEOREM SegmentsAreFlat == Spec => []NoNestedSegments
<1>1. MemoryInv => NoNestedSegments
  BY NestedSegments
<1> QED
  BY <1>1, MemoryHolds, PTL

\* checkAllocation never raises an alarm about a store into a block in use.
THEOREM NoFalseAlarms == Spec => []StoresIntoBlocksPass
<1>1. MemoryInv => StoresIntoBlocksPass
  BY BlockStores
<1> QED
  BY <1>1, MemoryHolds, PTL

\* checkAllocation misses no store that begins outside all blocks.
THEOREM NoMissedStores == Spec => []StrayStoresAreCaught
<1>1. MemoryInv => StrayStoresAreCaught
  BY StrayStores
<1> QED
  BY <1>1, MemoryHolds, PTL
=============================================================================
