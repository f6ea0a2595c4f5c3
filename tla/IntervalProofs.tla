--------------------------- MODULE IntervalProofs ---------------------------
(***************************************************************************)
(* What the interpreters ask of the numerical domain, for every width:     *)
(* joining, widening, adding and comparing lose no number.                 *)
(***************************************************************************)
EXTENDS Intervals, TLAPS

IntervalType == [lb : Int, ub : Int]

\* The comparison of two numbers.
Holds(op, m, n) ==
    \/ op = "EQ" /\ m = n
    \/ op = "NEQ" /\ m # n
    \/ op = "LT" /\ m < n
    \/ op = "LE" /\ m <= n
    \/ op = "GT" /\ m > n
    \/ op = "GE" /\ m >= n

Comparisons == {"EQ", "NEQ", "LT", "LE", "GT", "GE"}

\* The bounds are within the infinities.
IsBounded(a) == -Infinity <= a.lb /\ a.ub <= Infinity

-----------------------------------------------------------------------------

\* Infinity is beyond every number of the width.
LEMMA InfinityType == Infinity \in Int /\ Infinity > 1
  BY ModulusAssumption DEF Infinity

\* Interval::join (Interval.hpp:216): what is in either is in the join.
THEOREM JoinCovers ==
  ASSUME NEW a \in IntervalType, NEW b \in IntervalType, NEW n \in Int, Has(a, n) \/ Has(b, n)
  PROVE  Has(Join(a, b), n)
<1>1. CASE IsBottom(a)
  BY <1>1 DEF Join, Has, IsBottom, IntervalType
<1>2. CASE ~IsBottom(a) /\ IsBottom(b)
  BY <1>2 DEF Join, Has, IsBottom, IntervalType
<1>3. CASE ~IsBottom(a) /\ ~IsBottom(b)
  <2>1. Join(a, b) = Interval(Lesser(a.lb, b.lb), Greater(a.ub, b.ub))
    BY <1>3 DEF Join
  <2>2. QED
    BY <2>1 DEF Has, Interval, Lesser, Greater, IntervalType
<1>4. QED
  BY <1>1, <1>2, <1>3

\* Interval::widen (Interval.hpp:243): so is it in the widened interval, for
\* numbers of the width.
THEOREM WidenCovers ==
  ASSUME NEW a \in IntervalType, NEW b \in IntervalType, IsBounded(a), IsBounded(b),
         NEW n \in Int, Has(a, n) \/ Has(b, n)
  PROVE  Has(Widen(a, b), n)
<1>1. CASE IsBottom(a)
  BY <1>1 DEF Widen, Has, IsBottom, IntervalType
<1>2. CASE ~IsBottom(a) /\ IsBottom(b)
  BY <1>2 DEF Widen, Has, IsBottom, IntervalType
<1>3. CASE ~IsBottom(a) /\ ~IsBottom(b)
  <2> DEFINE l == IF b.lb < a.lb THEN -Infinity ELSE a.lb
             u == IF b.ub > a.ub THEN Infinity ELSE a.ub
  <2>1. Widen(a, b) = Interval(l, u)
    BY <1>3 DEF Widen
  <2>2. l \in Int /\ u \in Int /\ l <= n /\ n <= u
    BY InfinityType DEF Has, IsBounded, IntervalType
  <2>3. QED
    BY <2>1, <2>2 DEF Has, Interval
<1>4. QED
  BY <1>1, <1>2, <1>3

\* Interval::operator+ (Interval.hpp:442): a sum is in the sum of the intervals
\* when no bound of it overflows; AbstractInterpreter shows what becomes of one
\* that does.
THEOREM PlusCovers ==
  ASSUME NEW a \in IntervalType, NEW b \in IntervalType, NEW signed \in BOOLEAN,
         NEW m \in Int, NEW n \in Int, Has(a, m), Has(b, n),
         -Infinity <= m + n, m + n <= Infinity,
         a.lb # Infinity, a.ub # -Infinity, b.lb # Infinity, b.ub # -Infinity,
         Wrap(signed, a.lb + b.lb) = a.lb + b.lb,
         Wrap(signed, a.ub + b.ub) = a.ub + b.ub
  PROVE  Has(Plus(signed, a, b), m + n)
<1> DEFINE l == BoundPlus(signed, a.lb, b.lb)
           u == BoundPlus(signed, a.ub, b.ub)
<1>1. ~IsBottom(a) /\ ~IsBottom(b)
  BY DEF IsBottom, Has, IntervalType
<1>2. Plus(signed, a, b) = Interval(l, u)
  BY <1>1 DEF Plus
<1>3. l \in Int /\ l <= m + n
  BY InfinityType DEF BoundPlus, IsFinite, Has, IntervalType
<1>4. u \in Int /\ m + n <= u
  BY InfinityType DEF BoundPlus, IsFinite, Has, IntervalType
<1>5. QED
  BY <1>2, <1>3, <1>4 DEF Interval, Has

\* Interval::operator- (Interval.hpp:454): the same of a difference, whose bounds
\* come from opposite ends.
THEOREM MinusCovers ==
  ASSUME NEW a \in IntervalType, NEW b \in IntervalType, NEW signed \in BOOLEAN,
         NEW m \in Int, NEW n \in Int, Has(a, m), Has(b, n),
         -Infinity <= m - n, m - n <= Infinity,
         a.lb # Infinity, a.ub # -Infinity, b.lb # Infinity, b.ub # -Infinity,
         Wrap(signed, a.lb - b.ub) = a.lb - b.ub,
         Wrap(signed, a.ub - b.lb) = a.ub - b.lb
  PROVE  Has(Minus(signed, a, b), m - n)
<1> DEFINE l == BoundMinus(signed, a.lb, b.ub)
           u == BoundMinus(signed, a.ub, b.lb)
<1>1. ~IsBottom(a) /\ ~IsBottom(b)
  BY DEF IsBottom, Has, IntervalType
<1>2. Minus(signed, a, b) = Interval(l, u)
  BY <1>1 DEF Minus
<1>3. l \in Int /\ l <= m - n
  BY InfinityType DEF BoundMinus, IsFinite, Has, IntervalType
<1>4. u \in Int /\ m - n <= u
  BY InfinityType DEF BoundMinus, IsFinite, Has, IntervalType
<1>5. QED
  BY <1>2, <1>3, <1>4 DEF Interval, Has

\* Interval::splitByLess (Interval.hpp:420): neither side of a branch on a
\* comparison loses a number that takes it.
THEOREM SplitKeeps ==
  ASSUME NEW a \in IntervalType, NEW b \in IntervalType,
         NEW m \in Int, NEW n \in Int, Has(a, m), Has(b, n)
  PROVE  /\ m <= n => Has(SplitByLess(a, b).true, m)
         /\ m >= n => Has(SplitByLess(a, b).false, m)
<1>1. CASE SplitByLess(a, b) = Split(a, a)
  BY <1>1 DEF Split
<1>2. CASE SplitByLess(a, b) = Split(Interval(a.lb, b.ub), Interval(b.lb, a.ub))
  <2>1. m <= n => Has(Interval(a.lb, b.ub), m)
    BY DEF Interval, Has, IntervalType
  <2>2. m >= n => Has(Interval(b.lb, a.ub), m)
    BY DEF Interval, Has, IntervalType
  <2>3. QED
    BY <1>2, <2>1, <2>2 DEF Split
<1>3. QED
  BY <1>1, <1>2 DEF SplitByLess

\* Interval::apply (Interval.hpp:345): a comparison that is decided is so for
\* all numbers of the intervals.
THEOREM DecidedComparisons ==
  ASSUME NEW a \in IntervalType, NEW b \in IntervalType, NEW op \in Comparisons,
         NEW p \in BOOLEAN, Compare(op, a, b) = BoolOf(p),
         NEW m \in Int, NEW n \in Int, Has(a, m), Has(b, n)
  PROVE  Holds(op, m, n) <=> p
<1>1. Top # BoolOf(p)
  BY InfinityType DEF Top, BoolOf, Singleton
<1>2. {a, b} \cap {Top, Bottom} = {}
  BY <1>1 DEF Compare
<1>3. BoolOf(TRUE) # BoolOf(FALSE)
  BY DEF BoolOf, Singleton
<1>4. CASE op \in {"EQ", "NEQ"} /\ IsSingleton(a) /\ IsSingleton(b)
  <2>1. Compare(op, a, b) = BoolOf((op = "EQ") <=> (a = b))
    BY <1>2, <1>4 DEF Compare
  <2>2. ((op = "EQ") <=> (a = b)) <=> p
    BY <2>1, <1>3
  <2>3. (a = b) <=> (m = n)
    BY <1>4 DEF IsSingleton, Has, IntervalType
  <2>4. CASE op = "EQ"
    BY <2>2, <2>3, <2>4 DEF Holds
  <2>5. CASE op = "NEQ"
    BY <2>2, <2>3, <2>5 DEF Holds
  <2>6. QED
    BY <1>4, <2>4, <2>5
<1>5. CASE ~(op \in {"EQ", "NEQ"} /\ IsSingleton(a) /\ IsSingleton(b))
  <2>1. ~Intersects(a, b) /\ BoolOf(Decide(op, a, b)) = BoolOf(p)
    BY <1>1, <1>2, <1>5 DEF Compare
  <2>2. a.ub < b.lb \/ b.ub < a.lb
    BY <2>1 DEF Intersects, Has, IntervalType
  <2>3. Decide(op, a, b) \in BOOLEAN
    BY DEF Decide, Comparisons, IntervalType
  <2>4. Decide(op, a, b) <=> p
    BY <2>1, <2>3, <1>3
  <2>5. Holds(op, m, n) <=> Decide(op, a, b)
    BY <2>2 DEF Holds, Decide, Has, Comparisons, IntervalType
  <2>6. QED
    BY <2>4, <2>5
<1>6. QED
  BY <1>4, <1>5
=============================================================================
