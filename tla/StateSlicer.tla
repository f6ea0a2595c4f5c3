----------------------------- MODULE StateSlicer ----------------------------
(***************************************************************************)
(* What CheckHelper does to a predicate state before it asks the solver:   *)
(* StateSlicer keeps the predicates that the query can depend on, judged   *)
(* by a local alias analysis and by the path predicates that dominate      *)
(* them, and simplifies the rest.                                          *)
(*                                                                         *)
(* One action per stage of StateSlicer::transform.                         *)
(***************************************************************************)
EXTENDS LocalStensgaardAA

CONSTANT Inputs      \* records [state, query] of states and basic states

VARIABLES
    input,           \* the state to slice and the query
    stage,           \* the stage that comes next
    space,           \* the memory space that MemorySpacer gives to a pointer
    aa,              \* AA
    deps,            \* CFDT: dominatorMap_ and the path predicates at the end
    slice            \* the state as far as it is sliced

vars == <<input, stage, space, aa, deps, slice>>

Init ==
    /\ input \in Inputs
    /\ stage = "space"
    /\ space = [n \in {} |-> NoToken]
    /\ aa = Nothing
    /\ deps = [at |-> [id \in {} |-> {}], now |-> {}]
    /\ slice = NoState

-----------------------------------------------------------------------------
(* ControlFlowDepsTracker                                                  *)

IsState(p) == p.type \in {"STATE", "INVARIANT"}

\* A predicate object that is met again, in another alternative, is dominated
\* by what dominated it in either.
TrackPredicate(d, p) ==
    LET now == IF IsState(p) THEN d.now ELSE d.now \cup {Content(p)}
        old == IF p.id \in DOMAIN d.at THEN d.at[p.id] ELSE {}
    IN  [at |-> (p.id :> old \cup now) @@ d.at, now |-> now]

RECURSIVE TrackState(_, _)

\* Mutant: what one alternative assumed is taken along into the next.
TrackChoiceInTurn(d, choices) == FoldLeft(TrackState, d, choices)

\* The alternatives begin alike; after them, all that any of them assumed.
TrackChoice(d, choices) ==
    LET one(acc, c) ==
            LET after == TrackState([acc EXCEPT !.now = d.now], c)
            IN  [after EXCEPT !.now = acc.now \cup after.now]
    IN  FoldLeft(one, d, choices)

TrackState(d, s) ==
    CASE IsBasic(s)  -> FoldLeft(TrackPredicate, d, s.data)
      [] IsChain(s)  -> TrackState(TrackState(d, s.base), s.curr)
      [] IsChoice(s) -> TrackChoice(d, s.choices)

-----------------------------------------------------------------------------
(* reverse, filter and simplify of predicate states                        *)

RECURSIVE ReverseState(_)

\* The alternatives of a choice keep their order.
ReverseState(s) ==
    CASE IsBasic(s)  -> Data(Reverse(s.data))
      [] IsChain(s)  -> Link(ReverseState(s.curr), ReverseState(s.base))
      [] IsChoice(s) -> Either([i \in DOMAIN s.choices |-> ReverseState(s.choices[i])])

RECURSIVE FilterState(_)

\* Mutant: what was sliced out of an alternative stays there as a hole.
FilterBlocks(s) ==
    CASE IsBasic(s)  -> Data(SelectSeq(s.data, LAMBDA p : p # NoPredicate))
      [] IsChain(s)  -> Link(FilterState(s.base), FilterState(s.curr))
      [] IsChoice(s) -> s

FilterState(s) ==
    CASE IsBasic(s)  -> Data(SelectSeq(s.data, LAMBDA p : p # NoPredicate))
      [] IsChain(s)  -> Link(FilterState(s.base), FilterState(s.curr))
      [] IsChoice(s) -> Either([i \in DOMAIN s.choices |-> FilterState(s.choices[i])])

\* Mutant: what comes after the conditions is not looked at.
FirstCondition(choices) ==
    /\ Len(choices) = 2
    /\ \A i \in 1 .. 2 : /\ IsBasic(choices[i])
                         /\ choices[i].data[1].kind = "eq"
                         /\ choices[i].data[1].ops[2].op = "bool"
    /\ choices[1].data[1].ops[1] = choices[2].data[1].ops[1]
    /\ choices[1].data[1].ops[2] # choices[2].data[1].ops[2]

\* Nothing but a condition in the one alternative and its inverse in the other.
OnlyCondition(choices) ==
    /\ Len(choices) = 2
    /\ \A i \in 1 .. 2 : /\ IsBasic(choices[i])
                         /\ Len(choices[i].data) = 1
                         /\ choices[i].data[1].kind = "eq"
                         /\ choices[i].data[1].ops[2].op = "bool"
    /\ choices[1].data[1].ops[1] = choices[2].data[1].ops[1]
    /\ choices[1].data[1].ops[2] # choices[2].data[1].ops[2]

RECURSIVE Simplify(_)

SimplifyChain(s) ==
    LET base == Simplify(s.base)
        curr == Simplify(s.curr)
    IN  IF IsEmpty(curr) THEN base ELSE IF IsEmpty(base) THEN curr
        ELSE Link(base, curr)

\* Alternatives that are empty are dropped: what is left must be taken.
SimplifyChoice(s) ==
    LET simple == [i \in DOMAIN s.choices |-> Simplify(s.choices[i])]
        full == SelectSeq(simple, LAMBDA c : ~IsEmpty(c))
    IN  IF OnlyCondition(full) THEN Either(<<>>)
        ELSE Choice(full)

Simplify(s) ==
    CASE IsBasic(s)  -> s
      [] IsChain(s)  -> SimplifyChain(s)
      [] IsChoice(s) -> SimplifyChoice(s)

-----------------------------------------------------------------------------
(* StateSlicer: k holds sliceVars, slicePtrs and currentPathDeps, and out  *)
(* is what became of the predicate or the state that was sliced.           *)

AddTerms(k, S) ==
    [k EXCEPT !.ptrs = @ \cup {t \in S : IsPointer(t)},
              !.vars = @ \cup {t \in S : ~IsPointer(t)}]

\* inverse: only of what is said to be true or false.
HasInverse(p) == p.kind = "eq" /\ p.ops[2].op = "bool"

InverseOf(p) == [Content(p) EXCEPT !.ops[2] = Bool(IF @.value = True THEN False ELSE True)]

DependsOn(k, p) ==
    /\ Content(p) \in k.deps
    /\ HasInverse(p) => InverseOf(p) \notin k.deps

Kept(k, d, p) ==
    [k EXCEPT !.deps = IF p.id \in DOMAIN d.at THEN d.at[p.id] ELSE {}, !.out = p]

Dropped(k) == [k EXCEPT !.out = NoPredicate]

SliceGlobals(k, p) ==
    LET used == SelectSeq(p.ops, LAMBDA t : t \in k.ptrs)
    IN  [k EXCEPT !.out = IF used = <<>> THEN NoPredicate ELSE [p EXCEPT !.ops = used]]

SlicePath(k, d, p) ==
    IF DependsOn(k, p) THEN Kept(AddTerms(k, Interesting(Operands(p))), d, p)
    ELSE Dropped(k)

Receivers(p) == Interesting({p.ops[1]})
Arguments(p) == Interesting({p.ops[i] : i \in 2 .. Len(p.ops)})

DefinesVar(k, p) == \E t \in Receivers(p) : ~IsPointer(t) /\ t \in k.vars
DefinesPtr(k, p) == \E t \in Receivers(p) : IsPointer(t) /\ t \in k.ptrs

\* Mutant: only the pointer that the query names is looked at.
WritesNothingElse(k, alias, p) == FALSE

\* A predicate that changes memory, through a pointer to what the slice reads.
WritesAlias(k, alias, p) ==
    /\ p.kind \in {"store", "bound", "alloca", "malloc"}
    /\ \E a \in Receivers(p), b \in k.ptrs : IsPointer(a) /\ MayAlias(alias, a, b)

\* checkVars and checkPtrs, both of them with the terms they were given.
AfterChecks(k, alias, p) ==
    LET asVar == IF DefinesVar(k, p) THEN AddTerms(k, Arguments(p)) ELSE k
    IN  CASE DefinesPtr(asVar, p) -> AddTerms(asVar, Arguments(p))
          [] ~DefinesPtr(asVar, p) /\ WritesAlias(asVar, alias, p) ->
                AddTerms(asVar, Receivers(p) \cup Arguments(p))
          [] OTHER -> asVar

Relevant(k, alias, p) ==
    LET asVar == IF DefinesVar(k, p) THEN AddTerms(k, Arguments(p)) ELSE k
    IN  DefinesVar(k, p) \/ DefinesPtr(asVar, p) \/ WritesAlias(asVar, alias, p)

SliceState(k, alias, d, p) ==
    IF Relevant(k, alias, p) THEN Kept(AfterChecks(k, alias, p), d, p) ELSE Dropped(k)

SlicePredicate(k, alias, d, p) ==
    CASE p.kind = "globals"                -> SliceGlobals(k, p)
      [] p.kind # "globals" /\ ~IsState(p) -> SlicePath(k, d, p)
      [] p.kind # "globals" /\ IsState(p)  -> SliceState(k, alias, d, p)

\* One part after another, each with what the parts before it found.
InTurn(op(_, _), k, parts) ==
    LET one(acc, part) ==
            LET after == op(acc.k, part)
            IN  [k |-> after, outs |-> Append(acc.outs, after.out)]
    IN  FoldLeft(one, [k |-> k, outs |-> <<>>], parts)

RECURSIVE SliceOf(_, _, _, _)

SliceData(k, alias, d, s) ==
    LET all == InTurn(LAMBDA acc, p : SlicePredicate(acc, alias, d, p), k, s.data)
    IN  [all.k EXCEPT !.out = Data(all.outs)]

SliceLinks(k, alias, d, s) ==
    LET all == InTurn(LAMBDA acc, part : SliceOf(acc, alias, d, part), k, <<s.base, s.curr>>)
    IN  [all.k EXCEPT !.out = Link(all.outs[1], all.outs[2])]

\* Every alternative begins with the path predicates that the code after the
\* choice needs, and leaves them as they were.
SliceChoices(k, alias, d, choices) ==
    LET one(acc, c) == SliceOf([acc EXCEPT !.deps = k.deps], alias, d, c)
        all == InTurn(one, k, choices)
    IN  [all.k EXCEPT !.out = Either(all.outs), !.deps = k.deps]

SliceOf(k, alias, d, s) ==
    CASE IsBasic(s)  -> SliceData(k, alias, d, s)
      [] IsChain(s)  -> SliceLinks(k, alias, d, s)
      [] IsChoice(s) -> LET simple == Simplify(s)
                        IN  IF IsChoice(simple)
                              THEN SliceChoices(k, alias, d, simple.choices)
                              ELSE SliceOf(k, alias, d, simple)

\* The constructor: what the query reads is what the slice must define.
SliceTerms(query) ==
    AddTerms([vars |-> {}, ptrs |-> {}, deps |-> {}, out |-> NoState],
             Interesting(UNION {Operands(query.data[i]) : i \in DOMAIN query.data}))

-----------------------------------------------------------------------------
(* The stages                                                              *)

RECURSIVE PredicatesOf(_)

PredicatesOf(s) ==
    CASE IsBasic(s)  -> ToSet(s.data)
      [] IsChain(s)  -> PredicatesOf(s.base) \cup PredicatesOf(s.curr)
      [] IsChoice(s) -> UNION {PredicatesOf(c) : c \in ToSet(s.choices)}

NamesIn(s) ==
    {t.name : t \in {u \in Interesting(UNION {Operands(p) : p \in PredicatesOf(s)}) : IsNamed(u)}}

\* MemorySpacer has an analysis of its own, of the state before the query.
SpaceMemory ==
    /\ stage = "space"
    /\ LET whole == Chain(input.state, input.query)
           known == VisitState(Nothing, whole)
       IN  space' = [n \in NamesIn(whole) \cap Pointers |->
                       Memspace(Get(known, Var(n)), Var(n))]
    /\ stage' = "prepare"
    /\ UNCHANGED <<input, aa, deps, slice>>

\* From here on, StateSlicer::transform: the analysis reads the query first.
Prepare ==
    /\ stage = "prepare"
    /\ aa' = VisitState(aa, Chain(input.query, input.state))
    /\ stage' = "track"
    /\ UNCHANGED <<input, space, deps, slice>>

Track ==
    /\ stage = "track"
    /\ deps' = TrackState(deps, input.state)
    /\ stage' = "slice"
    /\ UNCHANGED <<input, space, aa, slice>>

SliceReversed ==
    /\ stage = "slice"
    /\ LET k == [SliceTerms(input.query) EXCEPT !.deps = deps.now]
       IN  slice' = SliceOf(k, aa, deps, ReverseState(input.state)).out
    /\ stage' = "filter"
    /\ UNCHANGED <<input, space, aa, deps>>

\* Mutant: the slice is left reversed.
FilterOnly ==
    /\ stage = "filter"
    /\ slice' = FilterState(slice)
    /\ stage' = "simplify"
    /\ UNCHANGED <<input, space, aa, deps>>

FilterAndReverse ==
    /\ stage = "filter"
    /\ slice' = ReverseState(FilterState(slice))
    /\ stage' = "simplify"
    /\ UNCHANGED <<input, space, aa, deps>>

SimplifySlice ==
    /\ stage = "simplify"
    /\ slice' = Simplify(slice)
    /\ stage' = "done"
    /\ UNCHANGED <<input, space, aa, deps>>

Next == SpaceMemory \/ Prepare \/ Track \/ SliceReversed \/ FilterAndReverse \/ SimplifySlice

Spec == Init /\ [][Next]_vars
=============================================================================
