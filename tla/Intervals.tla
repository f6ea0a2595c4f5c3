------------------------------ MODULE Intervals -----------------------------
(***************************************************************************)
(* The numerical domain of the abstract interpreters: intervals of numbers *)
(* of a width, once as signed and once as unsigned numbers.                *)
(*                                                                         *)
(* A bound is a number or an infinity.  The code keeps an infinite bound   *)
(* apart with two flags and orders bounds with leq and geq; here it is an  *)
(* integer beyond all numbers, and the order is that of the integers.      *)
(* Every empty interval is Bottom: nothing in the code looks at its bounds.*)
(***************************************************************************)
EXTENDS Integers

CONSTANT Modulus    \* 2 to the width

\* A number has at least one bit.
ASSUME ModulusAssumption == Modulus \in Nat \ {0} /\ Modulus % 2 = 0

Infinity == 2 * Modulus
IsFinite(b) == b # Infinity /\ b # -Infinity

\* llvm::APInt: the number with the low bits of n.
Wrap(signed, n) ==
    IF signed THEN ((n + (Modulus \div 2)) % Modulus) - (Modulus \div 2) ELSE n % Modulus

-----------------------------------------------------------------------------
(* Interval                                                                *)

Bottom == [lb |-> 1, ub |-> 0]
Top == [lb |-> -Infinity, ub |-> Infinity]

Interval(l, u) == IF l > u THEN Bottom ELSE [lb |-> l, ub |-> u]
Singleton(n) == [lb |-> n, ub |-> n]

IsBottom(a) == a.lb > a.ub
IsTop(a) == a = Top
IsSingleton(a) == a.lb = a.ub

Has(a, n) == a.lb <= n /\ n <= a.ub

Lesser(m, n) == IF m < n THEN m ELSE n
Greater(m, n) == IF m < n THEN n ELSE m

Join(a, b) ==
    IF IsBottom(a) THEN b
    ELSE IF IsBottom(b) THEN a
    ELSE Interval(Lesser(a.lb, b.lb), Greater(a.ub, b.ub))

\* A bound that b moves outwards goes to infinity.
Widen(a, b) ==
    IF IsBottom(a) THEN b
    ELSE IF IsBottom(b) THEN a
    ELSE Interval(IF b.lb < a.lb THEN -Infinity ELSE a.lb,
                  IF b.ub > a.ub THEN Infinity ELSE a.ub)

Intersects(a, b) == Has(a, b.lb) \/ Has(b, a.lb)

-----------------------------------------------------------------------------
(* Sums and differences                                                    *)

\* An infinite bound stays what it is, whatever is added to it.
BoundPlus(signed, m, n) ==
    IF IsFinite(m) THEN IF IsFinite(n) THEN Wrap(signed, m + n) ELSE n ELSE m

BoundMinus(signed, m, n) ==
    IF IsFinite(m) THEN IF IsFinite(n) THEN Wrap(signed, m - n) ELSE -n ELSE m

Plus(signed, a, b) ==
    IF IsBottom(a) \/ IsBottom(b) THEN Bottom
    ELSE Interval(BoundPlus(signed, a.lb, b.lb), BoundPlus(signed, a.ub, b.ub))

Minus(signed, a, b) ==
    IF IsBottom(a) \/ IsBottom(b) THEN Bottom
    ELSE Interval(BoundMinus(signed, a.lb, b.ub), BoundMinus(signed, a.ub, b.lb))

-----------------------------------------------------------------------------
(* Comparison: to an interval of Booleans                                  *)

BoolOf(p) == Singleton(IF p THEN 1 ELSE 0)

Decide(op, a, b) ==
    \/ op = "NEQ"
    \/ op = "LT" /\ a.ub < b.lb
    \/ op = "LE" /\ a.ub <= b.lb
    \/ op = "GT" /\ b.ub < a.lb
    \/ op = "GE" /\ b.ub <= a.lb

Compare(op, a, b) ==
    IF {a, b} \cap {Top, Bottom} # {} THEN Top
    ELSE IF op \in {"EQ", "NEQ"} /\ IsSingleton(a) /\ IsSingleton(b)
      THEN BoolOf((op = "EQ") <=> (a = b))
    ELSE IF Intersects(a, b) THEN Top
    ELSE BoolOf(Decide(op, a, b))

Negation == [EQ |-> "NEQ", NEQ |-> "EQ", LT |-> "GE", GE |-> "LT", GT |-> "LE", LE |-> "GT"]

Split(t, f) == [true |-> t, false |-> f]

SplitByEq(a, b) ==
    IF ~IsBottom(a) /\ ~IsBottom(b) /\ IsSingleton(b) THEN Split(b, a) ELSE Split(a, a)

SplitByLess(a, b) ==
    IF \/ IsBottom(a) \/ IsBottom(b)
       \/ b.lb <= a.lb /\ a.ub <= b.ub
       \/ ~Intersects(a, b)
      THEN Split(a, a)
      ELSE Split(Interval(a.lb, b.ub), Interval(b.lb, a.ub))

-----------------------------------------------------------------------------
(* DoubleInterval: the domain of an integer                                *)

Double(s, u) ==
    IF IsTop(s) \/ IsTop(u) THEN [s |-> Top, u |-> Top]
    ELSE IF IsBottom(s) \/ IsBottom(u) THEN [s |-> Bottom, u |-> Bottom]
    ELSE [s |-> s, u |-> u]

TopInt == Double(Top, Top)
BottomInt == Double(Bottom, Bottom)
ConstantInt(n) == Double(Singleton(Wrap(TRUE, n)), Singleton(Wrap(FALSE, n)))

\* The numbers are 0 .. Modulus - 1, however they are read.
Covers(d, n) == Has(d.s, Wrap(TRUE, n)) /\ Has(d.u, Wrap(FALSE, n))

IntersectInts(d, e) == Intersects(d.s, e.s) \/ Intersects(d.u, e.u)

JoinInts(d, e) ==
    IF d = BottomInt THEN e
    ELSE IF e = BottomInt THEN d
    ELSE Double(Join(d.s, e.s), Join(d.u, e.u))

WidenInts(d, e) ==
    IF d = BottomInt THEN e
    ELSE IF e = BottomInt THEN d
    ELSE Double(Widen(d.s, e.s), Widen(d.u, e.u))

\* Signed and unsigned are joined: [0, 1] when they disagree.
CompareInts(op, d, e) == Join(Compare(op, d.s, e.s), Compare(op, d.u, e.u))

SplitIntsByEq(d, e) ==
    IF d = BottomInt \/ e = BottomInt THEN Split(d, d)
    ELSE Split(Double(SplitByEq(d.s, e.s).true, SplitByEq(d.u, e.u).true),
               Double(SplitByEq(d.s, e.s).false, SplitByEq(d.u, e.u).false))

SplitIntsByLess(d, e) ==
    IF d = BottomInt \/ e = BottomInt THEN Split(d, d)
    ELSE Split(Double(SplitByLess(d.s, e.s).true, SplitByLess(d.u, e.u).true),
               Double(SplitByLess(d.s, e.s).false, SplitByLess(d.u, e.u).false))
=============================================================================
