-------------------------- MODULE SlicedExecutions --------------------------
(***************************************************************************)
(* What a slice is for: it must have a defect where the whole state has    *)
(* one, and no defect that the whole state excludes.  Predicates are read  *)
(* as the solver reads them: equalities hold between the values that the   *)
(* names have from the first to the last, and stores change a memory.      *)
(***************************************************************************)
EXTENDS StateSlicer

CONSTANTS Addresses, Values

Valuations(names) ==
    {s \in [names -> Addresses \cup Values] :
       \A n \in names : s[n] \in IF n \in Pointers THEN Addresses ELSE Values}

\* What a cell is read for: what it holds, and how long its object is.
Cells == (IF \E p \in PredicatesOf(Chain(input.state, input.query)) :
                p.kind = "bound" \/ \E t \in UNION {FullTerms(u) : u \in Operands(p)} : t.op = "bound"
            THEN {"load", "bound"} ELSE {"load"}) \X Addresses

Memories == [Cells -> Values]

RECURSIVE Eval(_, _, _)

\* An element that gep computes is the first one; a binary term compares.
Eval(s, m, t) ==
    LET part == [i \in DOMAIN Parts(t) |-> Eval(s, m, t.parts[i])]
    IN  CASE t.op = "var" -> s[t.name]
          [] t.op \in {"load", "bound"} -> m[t.op, part[1]]
          [] t.op \in {"gep", "cast"} -> part[1]
          [] t.op = "ternary" -> IF part[1] = True THEN part[2] ELSE part[3]
          [] t.op = "binary"  -> IF part[1] = part[2] THEN True ELSE False
          [] OTHER -> t.value

After(s, m, p) ==
    CASE p.kind = "eq"      -> {x \in {m} : Eval(s, m, p.ops[1]) = Eval(s, m, p.ops[2])}
      [] p.kind = "default" -> {x \in {m} : \A i \in 2 .. Len(p.ops) : Eval(s, m, p.ops[1]) # Eval(s, m, p.ops[i])}
      [] p.kind = "store"   -> {[m EXCEPT !["load", Eval(s, m, p.ops[1])] = Eval(s, m, p.ops[2])]}
      [] p.kind = "bound"   -> {[m EXCEPT !["bound", Eval(s, m, p.ops[1])] = Eval(s, m, p.ops[2])]}
      [] OTHER              -> {m}

\* The memory at the end, if all predicates hold on the way.
Ends(s, m, path) ==
    FoldLeft(LAMBDA ms, p : UNION {After(s, x, p) : x \in ms}, {m}, path)

HasDefect(s, m, path) == Ends(s, m, path \o input.query.data) # {}

-----------------------------------------------------------------------------

Whole == Chain(input.state, input.query)

Defined == {p.ops[1].name : p \in {q \in PredicatesOf(input.state) :
                                     /\ q.kind \in {"eq", "alloca", "malloc"}
                                     /\ IsState(q) /\ IsNamed(q.ops[1])}}

Objects == (Globals \cap NamesIn(Whole))
             \cup {p.ops[1].name : p \in {q \in PredicatesOf(input.state) : q.kind \in {"alloca", "malloc"}}}

\* What nothing in the function defines: its arguments.
FreePointers == (NamesIn(Whole) \cap Pointers) \ (Defined \cup Globals)

\* Objects have addresses of their own, and no two arguments are the same.
\* (The first is a fact about the program, the second a hope of the analysis.)
Apart(s) ==
    \A n, k \in (Objects \cup FreePointers) \cap DOMAIN s : n # k => s[n] # s[k]

\* No path asks for a condition again.  (When it does, both its values are
\* among the path predicates at the end, and the slicer takes neither.)
ConditionsAskedOnce ==
    \A path \in Paths(input.state) : \A i, j \in DOMAIN path :
        i # j /\ ~IsState(path[i]) /\ ~IsState(path[j]) => path[i].ops[1] # path[j].ops[1]

RECURSIVE HasOptionalPart(_)

\* A choice of something or of nothing.
HasOptionalPart(s) ==
    CASE IsBasic(s)  -> FALSE
      [] IsChain(s)  -> HasOptionalPart(s.base) \/ HasOptionalPart(s.curr)
      [] IsChoice(s) -> \/ \E c \in ToSet(s.choices) : HasOptionalPart(c)
                        \/ /\ \E c \in ToSet(s.choices) : IsEmpty(c)
                           /\ \E c \in ToSet(s.choices) : ~IsEmpty(c)

\* A path predicate asks for a value that a statement or the query reads.
ConditionIsRead ==
    LET asked == {p \in PredicatesOf(input.state) : ~IsState(p)}
        others == PredicatesOf(Whole) \ asked
    IN  \E p \in asked, q \in others : Interesting(Operands(p)) \cap Interesting(Operands(q)) # {}

RECURSIVE SlicePaths(_)

\* What simplify makes of a slice: nothing of a choice without alternatives.
\* (The solver is given false for one that is left.)
SlicePaths(s) ==
    CASE IsBasic(s)  -> {s.data}
      [] IsChain(s)  -> {p \o q : p \in SlicePaths(s.base), q \in SlicePaths(s.curr)}
      [] IsChoice(s) -> IF s.choices = <<>> THEN {<<>>}
                        ELSE UNION {SlicePaths(c) : c \in ToSet(s.choices)}

\* Wherever a path of the first set has a defect, one of the second has it.
KeepsDefects(from, to) ==
    \A s \in Valuations(NamesIn(Whole)), m \in Memories :
        /\ Apart(s)
        /\ \E path \in from : HasDefect(s, m, path)
        => \E path \in to : HasDefect(s, m, path)

-----------------------------------------------------------------------------
(* Properties                                                              *)

\* Every stage leaves what the next one needs: a slice without holes behind
\* filter, names of known tokens, dominators of every predicate.
TypeOK ==
    /\ stage \in {"space", "prepare", "track", "slice", "filter", "simplify", "done"}
    /\ \A t \in DOMAIN aa.view : aa.view[t] \in DOMAIN aa.root
    /\ \A t \in DOMAIN aa.pointsTo : aa.pointsTo[t] \in {NoToken} \cup DOMAIN aa.root
    /\ stage \in {"slice", "filter", "simplify", "done"} =>
         DOMAIN deps.at = {p.id : p \in PredicatesOf(input.state)}
    /\ stage \in {"simplify", "done"} => NoPredicate \notin PredicatesOf(slice)

\* The slice of a state asserts nothing that the state does not, in no other
\* order: each of its paths is a path of the state with predicates left out.
SliceInventsNothing ==
    stage = "simplify" =>
        \A path \in SlicePaths(slice) : \E long \in Paths(input.state) :
            \E kept \in SUBSET DOMAIN long :
                \* globals lose the names that are not used
                LET left == SetToSortSeq(kept, <)
                IN  /\ Len(left) = Len(path)
                    /\ \A i \in DOMAIN left : path[i].id = long[left[i]].id

\* Two pointers that an execution uses as one are one for MemorySpacer and
\* may be one for the slicer, whichever came first in the state.
AliasesAreSeen ==
    stage = "track" =>
        LET used == {n \in NamesIn(Whole) \cap Pointers :
                       \E p \in PredicatesOf(Whole) :
                           \/ p.kind \in {"store", "bound"} /\ Var(n) \in FullTerms(p.ops[1])
                           \/ \E t \in UNION {FullTerms(u) : u \in Operands(p)} :
                                 t.op \in {"load", "bound"} /\ Var(n) \in FullTerms(t)}
        IN  \A s \in Valuations(NamesIn(Whole)), n, k \in used :
                /\ n # k
                /\ s[n] = s[k]
                /\ Apart(s)
                /\ \E m \in Memories, path \in Paths(input.state) : Ends(s, m, path) # {}
                => space[n] = space[k] /\ MayAlias(aa, Var(n), Var(k))

\* Until it is simplified, a slice has every defect that the state has.
SliceKeepsDefects ==
    stage = "simplify" => KeepsDefects(Paths(input.state), SlicePaths(slice))

\* Simplification loses no defect, unless a part is optional in the slice.
SimplifyKeepsDefects ==
    [][stage = "simplify" /\ ~HasOptionalPart(slice) => KeepsDefects(SlicePaths(slice), Paths(slice'))]_vars

\* What the slice leaves out could not have prevented the defect: names that
\* the slice does not mention have values for which the whole state has it.
\* (The condition of an alternative that is sliced to nothing is lost with it,
\* which matters when the condition is a value that the query depends on.)
SliceKeepsReasons ==
    /\ stage = "simplify"
    /\ ConditionsAskedOnce
    /\ HasOptionalPart(slice) => ~ConditionIsRead
    =>
        \A short \in SlicePaths(slice) :
            LET names == NamesIn(Data(short \o input.query.data))
            IN  \A s \in Valuations(names), m \in Memories :
                    HasDefect(s, m, short) /\ Apart(s) =>
                        \E long \in Paths(input.state), t \in Valuations(NamesIn(Whole)) :
                            /\ \A n \in names : t[n] = s[n]
                            /\ Apart(t)
                            /\ HasDefect(t, m, long)

\* The slicer's own word: "everything relevant must be in slice".
EverythingRelevantIsInSlice ==
    stage = "done" => KeepsDefects(Paths(input.state), Paths(slice))
=============================================================================
