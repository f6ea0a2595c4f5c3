------------------------- MODULE IntervalArithmetic -------------------------
(***************************************************************************)
(* The other operations on intervals: products, quotients, shifts and the  *)
(* operations on bits.                                                     *)
(***************************************************************************)
EXTENDS Intervals, FiniteSetsExt

\* llvm::APInt divides towards zero.
Sign(n) == IF n < 0 THEN -1 ELSE 1
Quotient(m, n) == Sign(m) * Sign(n) * ((Sign(m) * m) \div (Sign(n) * n))
Remainder(m, n) == m - n * Quotient(m, n)

\* Numbers are read without a sign for their bits, one for every power of two.
Bits(op, m, n) ==
    LET l == Wrap(FALSE, m)
        r == Wrap(FALSE, n)
        powers == {2 ^ i : i \in 0 .. Modulus} \cap 1 .. (Modulus - 1)
        ones(p) == ((l \div p) % 2) + ((r \div p) % 2)
    IN  CASE op = "AND" -> SumSet({p \in powers : ones(p) = 2})
          [] op = "OR"  -> SumSet({p \in powers : ones(p) > 0})
          [] op = "XOR" -> SumSet({p \in powers : ones(p) = 1})

-----------------------------------------------------------------------------
(* Bound                                                                   *)

\* An infinite bound stays what it is here too, whatever it is multiplied by.
BoundTimes(signed, m, n) ==
    IF IsFinite(m) THEN IF IsFinite(n) THEN Wrap(signed, m * n) ELSE n ELSE m

BoundQuotient(signed, m, n) ==
    CASE IsFinite(m) /\ IsFinite(n)  -> Wrap(signed, Quotient(m, n))
      [] IsFinite(m) /\ ~IsFinite(n) -> 0
      [] ~IsFinite(m) /\ IsFinite(n) -> Sign(n) * m
      [] OTHER                       -> m

Magnitude(signed, b) ==
    IF b >= 0 THEN b ELSE IF IsFinite(b) THEN Wrap(signed, -b) ELSE -b

\* Every right shift of a number fills it with its sign, unsigned or not.
BoundShift(op, signed, m, n) ==
    CASE m = 0 \/ ~IsFinite(m)         -> m
      [] ~IsFinite(n) /\ op = "LSHR"   -> 0
      [] ~IsFinite(n) /\ op # "LSHR"   -> Sign(m) * Infinity
      [] IsFinite(n) /\ op = "SHL"     -> Wrap(signed, m * 2 ^ n)
      [] OTHER                         -> Wrap(signed, Wrap(TRUE, m) \div 2 ^ n)

-----------------------------------------------------------------------------
(* Interval                                                                *)

Ends(a) == {a.lb, a.ub}
Hull(bounds) == Interval(Min(bounds), Max(bounds))

Times(signed, a, b) == Hull({BoundTimes(signed, m, n) : m \in Ends(a), n \in Ends(b)})

\* Nothing is known of a quotient when either side has a zero.
Divide(signed, a, b) ==
    IF Has(a, 0) \/ Has(b, 0) THEN Top
    ELSE Hull({BoundQuotient(signed, m, n) : m \in Ends(a), n \in Ends(b)})

\* No larger than the dividend, and smaller than the divisor.
RemainderLimit(signed, a, b) ==
    Lesser(Max({Magnitude(signed, m) : m \in Ends(a)}),
           BoundMinus(signed, Max({Magnitude(signed, n) : n \in Ends(b)}), 1))

Modulo(signed, a, b) ==
    LET limit == RemainderLimit(signed, a, b)
        lowest == BoundMinus(signed, 0, limit)
    IN  CASE b = Singleton(0)                   -> Bottom
          [] b # Singleton(0) /\ IsSingleton(a) /\ IsSingleton(b)
                                                -> Singleton(Wrap(signed, Remainder(a.lb, b.lb)))
          [] OTHER -> IF a.lb >= 0 THEN Interval(0, limit)
                      ELSE Interval(lowest, IF a.ub > 0 THEN limit ELSE 0)

\* How far is shifted: the part of b that is not negative.
Shift(op, signed, a, b) ==
    LET by == Interval(Greater(b.lb, 0), b.ub)
        shifted(m) == {BoundShift(op, signed, m, n) : n \in Ends(by)}
        factor == Interval(BoundShift("SHL", signed, 1, by.lb), BoundShift("SHL", signed, 1, by.ub))
    IN  CASE IsBottom(by) -> Bottom
          [] ~IsBottom(by) /\ op = "SHL" -> IF IsBottom(factor) THEN Bottom ELSE Times(signed, a, factor)
          [] ~IsBottom(by) /\ op # "SHL" -> IF Has(a, 0) THEN Top ELSE Hull(shifted(a.lb) \cup shifted(a.ub))

\* All bits set: -1 with a sign.
AllOnes(signed) == Singleton(Wrap(signed, -1))

BitAnd(signed, a, b) ==
    CASE a = AllOnes(signed) -> b
      [] b = AllOnes(signed) -> a
      [] a.lb >= 0 /\ b.lb >= 0 -> Interval(0, Lesser(a.ub, b.ub))
      [] a.lb >= 0 /\ b.lb < 0  -> Interval(0, a.ub)
      [] OTHER -> Top

BitOr(signed, a, b) ==
    CASE AllOnes(signed) \in {a, b} -> AllOnes(signed)
      [] OTHER -> IF b = Singleton(0) THEN a ELSE IF a = Singleton(0) THEN b ELSE Top

BitXor(a, b) == IF b = Singleton(0) THEN a ELSE IF a = Singleton(0) THEN b ELSE Top

BitOperation(op, signed, a, b) ==
    IF IsSingleton(a) /\ IsSingleton(b) THEN Singleton(Wrap(signed, Bits(op, a.lb, b.lb)))
    ELSE IF op = "AND" /\ Singleton(0) \in {a, b} THEN Singleton(0)
    ELSE CASE op = "AND" -> BitAnd(signed, a, b)
           [] op = "OR"  -> BitOr(signed, a, b)
           [] op = "XOR" -> BitXor(a, b)

Arith(op, signed, a, b) ==
    IF IsBottom(a) \/ IsBottom(b) THEN Bottom
    ELSE CASE op = "ADD" -> Plus(signed, a, b)
           [] op = "SUB" -> Minus(signed, a, b)
           [] op = "MUL" -> Times(signed, a, b)
           [] op = "DIV" -> Divide(signed, a, b)
           [] op = "REM" -> Modulo(signed, a, b)
           [] op \in {"SHL", "ASHR", "LSHR"} -> Shift(op, signed, a, b)
           [] op \in {"AND", "OR", "XOR"}    -> BitOperation(op, signed, a, b)

ArithInts(op, d, e) == Double(Arith(op, TRUE, d.s, e.s), Arith(op, FALSE, d.u, e.u))
=============================================================================
