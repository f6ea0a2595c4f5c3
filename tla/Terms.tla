-------------------------------- MODULE Terms -------------------------------
(***************************************************************************)
(* The terms and the predicates of a predicate state, as far as an alias   *)
(* analysis and a slicer tell them apart.  A predicate is one object of    *)
(* the program: two with the same text have different ids.                 *)
(***************************************************************************)
EXTENDS Integers, FiniteSets, Sequences

CONSTANTS
    Pointers,     \* the names that have a pointer type
    Globals       \* those of them that are global variables

Var(n) == [op |-> "var", name |-> n]
LoadOf(t) == [op |-> "load", parts |-> <<t>>]
GepOf(t) == [op |-> "gep", parts |-> <<t>>]
CastOf(t) == [op |-> "cast", parts |-> <<t>>]
BoundOf(t) == [op |-> "bound", parts |-> <<t>>]
Ternary(c, t, f) == [op |-> "ternary", parts |-> <<c, t, f>>]
Binary(l, r) == [op |-> "binary", parts |-> <<l, r>>]
Bool(v) == [op |-> "bool", value |-> v]
Num(v) == [op |-> "num", value |-> v]

True == 1
False == 2

IsConstant(t) == t.op \in {"bool", "num"}
IsNamed(t) == t.op = "var"

\* subterms
Parts(t) == IF IsConstant(t) \/ IsNamed(t) THEN <<>> ELSE t.parts

RECURSIVE IsPointer(_)

\* By its type: what loads and bounds are is a number here.
IsPointer(t) == \/ IsNamed(t) /\ t.name \in Pointers
                \/ t.op \in {"gep", "cast"} /\ IsPointer(t.parts[1])
                \/ t.op = "ternary" /\ IsPointer(t.parts[2])

RECURSIVE FullTerms(_)

\* getFullTermSet: a term and the terms in it.
FullTerms(t) == {t} \cup UNION {FullTerms(Parts(t)[i]) : i \in DOMAIN Parts(t)}

Interesting(S) == {t \in UNION {FullTerms(u) : u \in S} : IsNamed(t) \/ t.op = "cast"}

-----------------------------------------------------------------------------

Equality(id, type, l, r) == [id |-> id, kind |-> "eq", type |-> type, ops |-> <<l, r>>]
Store(id, l, r) == [id |-> id, kind |-> "store", type |-> "STATE", ops |-> <<l, r>>]
WriteBound(id, l, r) == [id |-> id, kind |-> "bound", type |-> "STATE", ops |-> <<l, r>>]
Alloca(id, l) == [id |-> id, kind |-> "alloca", type |-> "STATE", ops |-> <<l>>]
Malloc(id, l, n) == [id |-> id, kind |-> "malloc", type |-> "STATE", ops |-> <<l, n>>]
DefaultCase(id, t, cases) == [id |-> id, kind |-> "default", type |-> "PATH", ops |-> <<t>> \o cases]
GlobalVars(id, names) == [id |-> id, kind |-> "globals", type |-> "STATE", ops |-> names]

\* nullptr
NoPredicate == [kind |-> "null"]

\* What PredicateEquals compares: type and operands, and not the object.
Content(p) == [kind |-> p.kind, type |-> p.type, ops |-> p.ops]

Operands(p) == {p.ops[i] : i \in DOMAIN p.ops}
=============================================================================
