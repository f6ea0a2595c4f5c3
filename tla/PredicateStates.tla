--------------------------- MODULE PredicateStates --------------------------
(***************************************************************************)
(* Predicate states (State/): what Borealis knows of the executions that   *)
(* reach an instruction, as a term that solvers are given.  A basic state  *)
(* is a list of predicates, a chain is one state after another, a choice   *)
(* is any one of several.  States are values; an operation builds new ones.*)
(***************************************************************************)
EXTENDS Integers, Sequences, FiniteSets, SequencesExt

Data(data) == [tag |-> "basic", data |-> data]
Link(base, curr) == [tag |-> "chain", base |-> base, curr |-> curr]
Either(choices) == [tag |-> "choice", choices |-> choices]

\* nullptr
NoState == [tag |-> "null"]

IsBasic(s) == s.tag = "basic"
IsChain(s) == s.tag = "chain"
IsChoice(s) == s.tag = "choice"

-----------------------------------------------------------------------------
(* What a state means                                                      *)

RECURSIVE Paths(_)

\* The lists of predicates that a reader of the state may collect.
Paths(s) ==
    CASE IsBasic(s)  -> {s.data}
      [] IsChain(s)  -> {p \o q : p \in Paths(s.base), q \in Paths(s.curr)}
      [] IsChoice(s) -> UNION {Paths(c) : c \in ToSet(s.choices)}
      [] OTHER       -> {}

-----------------------------------------------------------------------------
(* The factory and the builder                                             *)

RECURSIVE IsEmpty(_)

\* A choice is empty when all its alternatives are, also when it has none.
IsEmpty(s) ==
    CASE IsBasic(s)  -> s.data = <<>>
      [] IsChain(s)  -> IsEmpty(s.curr) /\ IsEmpty(s.base)
      [] IsChoice(s) -> \A c \in ToSet(s.choices) : IsEmpty(c)

Nil == Data(<<>>)

Chain(base, curr) ==
    IF IsEmpty(base) THEN curr ELSE IF IsEmpty(curr) THEN base
    ELSE Link(base, curr)

Choice(choices) == IF Len(choices) = 1 THEN choices[1] ELSE Either(choices)

\* PredicateStateBuilder::operator+=
Plus(s, t) ==
    IF IsEmpty(t) THEN s ELSE IF IsEmpty(s) THEN t ELSE Chain(s, t)

-----------------------------------------------------------------------------
(* Slicing                                                                 *)

RECURSIVE SliceOn(_, _)

\* Mutant: the last predicate of the beginning is kept.
SliceBasicOverlap(s, on) ==
    IF s = on THEN Nil
    ELSE IF IsBasic(on) /\ IsPrefix(on.data, s.data)
      THEN Data(SubSeq(s.data, Max({1, Len(on.data)}), Len(s.data)))
      ELSE NoState

SliceBasic(s, on) ==
    IF s = on THEN Nil
    ELSE IF IsBasic(on) /\ IsPrefix(on.data, s.data)
      THEN Data(SubSeq(s.data, Len(on.data) + 1, Len(s.data)))
      ELSE NoState

SliceChain(s, on) ==
    LET baseSlice == SliceOn(s.base, on)
    IN IF s.base = on THEN s.curr
       ELSE IF baseSlice # NoState THEN Link(baseSlice, s.curr) ELSE NoState

SliceChoice(s, on) ==
    LET slices == [i \in DOMAIN s.choices |-> SliceOn(s.choices[i], on)]
    IN IF NoState \in ToSet(slices) THEN NoState ELSE Either(slices)

\* What s adds to its beginning "on", or nullptr when it does not begin with it.
SliceOn(s, on) ==
    CASE IsBasic(s)  -> SliceBasic(s, on)
      [] IsChain(s)  -> SliceChain(s, on)
      [] IsChoice(s) -> SliceChoice(s, on)

-----------------------------------------------------------------------------
(* Optimisations                                                           *)

RECURSIVE GetFront(_)

GetFront(s) == IF IsChain(s) THEN GetFront(s.base) ELSE s

RECURSIVE OptimizeChoices(_)

AfterFront(front, s) == IF s = front THEN Nil ELSE SliceOn(s, front)

\* Alternatives that begin with the same state share it.  (The code compares
\* the beginnings as pointers; alternatives that meet them share the object.)
OptimizeChoices(choices) ==
    LET full == SelectSeq(choices, LAMBDA c : ~IsEmpty(c))
        first(i) == \A j \in 1..(i - 1) : GetFront(full[j]) # GetFront(full[i])
        fronts == SetToSortSeq({i \in DOMAIN full : first(i)}, <)
        group(front) == SelectSeq(full, LAMBDA c : GetFront(c) = front)
        tails(front) == [i \in DOMAIN group(front) |->
                           AfterFront(front, group(front)[i])]
        shared(front) ==
            IF IsEmpty(front) THEN Choice(group(front))
            ELSE Chain(front, Choice(OptimizeChoices(tails(front))))
    IN IF Len(full) < 2 THEN choices
       ELSE (IF Len(full) < Len(choices) THEN <<Nil>> ELSE <<>>)
              \o [k \in DOMAIN fronts |-> shared(GetFront(full[fronts[k]]))]

\* Mutant: the two lists are joined the wrong way round.
MergeReversed(a, b) ==
    IF IsBasic(a) /\ IsBasic(b) THEN Data(b.data \o a.data) ELSE NoState

Merge(a, b) ==
    IF IsBasic(a) /\ IsBasic(b) THEN Data(a.data \o b.data) ELSE NoState

RECURSIVE MergeChain(_)

\* StateOptimizer::transformPredicateStateChain joins neighbouring basic states.
MergeChain(s) ==
    IF IsBasic(s.base) /\ IsBasic(s.curr) THEN Merge(s.base, s.curr)
    ELSE IF IsChain(s.base) /\ IsBasic(s.curr) /\ IsBasic(s.base.curr)
      THEN MergeChain(Chain(s.base.base, Merge(s.base.curr, s.curr)))
    ELSE IF IsBasic(s.base) /\ IsChain(s.curr) /\ IsBasic(s.curr.base)
      THEN MergeChain(Chain(Merge(s.base, s.curr.base), s.curr.curr))
    ELSE s

RECURSIVE Optimize(_)

\* StateOptimizer visits the parts of a state before the state.
Optimize(s) ==
    CASE IsBasic(s)  -> s
      [] IsChain(s)  -> MergeChain(Link(Optimize(s.base), Optimize(s.curr)))
      [] IsChoice(s) -> Either([i \in DOMAIN s.choices |->
                                  Optimize(s.choices[i])])
=============================================================================
