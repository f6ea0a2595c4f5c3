----------------------- MODULE PredicateStateAnalysis -----------------------
(***************************************************************************)
(* The predicate state analysis: for every instruction of a function, the  *)
(* state that holds when control gets there.  PredicateStateAnalysis hands *)
(* a function to one of three analyses, psa-mode of the configuration:     *)
(*   one-for-one          follows every path with a work queue;            *)
(*   one-for-all          builds the states of blocks from those of their  *)
(*                        predecessors, cut off at the immediate dominator,*)
(*                        when an instruction is asked for;                *)
(*   one-for-all-reverse  builds one state of the whole function along the *)
(*                        post-dominators and crops it at the instruction. *)
(* The checkers then ask for the states of instructions, in any order.     *)
(*                                                                         *)
(* A function is a loop-free graph of blocks numbered in topological order *)
(* (loops are unrolled before).  A block has one instruction of interest   *)
(* and its terminator.                                                     *)
(***************************************************************************)
EXTENDS PredicateStates

CONSTANTS Functions,    \* the functions analysed
          Configs,      \* the configurations they are analysed in
          MaxAsks       \* bound on the instructions asked for

VARIABLES
    function,           \* the function being analysed
    config,             \* the configuration
    phase,              \* how far runOnFunction is, or what ended it
    initialState,
    basicBlockStates,   \* one-for-all: block -> state at its end
    workQueue,          \* one-for-one
    predicateStates,    \* one-for-one: instruction -> states, one per path
    finalState,         \* one-for-all-reverse
    instructionStates,  \* what was computed: instruction -> state
    body,               \* the inline summary
    asks                \* bounded counter

vars == <<function, config, phase, initialState, basicBlockStates, workQueue,
          predicateStates, finalState, instructionStates, body, asks>>

Blocks(f) == DOMAIN f.succ
Entry == 1
Points == {"inst", "end"}
Instructions(f) == Blocks(f) \X Points
RetBlocks(f) == {b \in Blocks(f) : f.succ[b] = <<>>}

Preds(f, b) == {p \in Blocks(f) : b \in ToSet(f.succ[p])}

\* pred_begin .. pred_end: one entry per edge, in the order of the blocks.
PredEdges(f, b) ==
    FlattenSeq([p \in 1..(b - 1) |->
                  LET edges == SelectSeq(f.succ[p], LAMBDA s : s = b)
                  IN [i \in DOMAIN edges |-> p]])

-----------------------------------------------------------------------------
(* The predicates of instructions and edges (PredicateAnalysis)            *)

\* A store or computation; one that occurs twice; a call; nothing.
PM(f, inst) ==
    CASE inst[2] = "end"               -> <<>>
      [] inst[2] = "inst" /\ f.kind[inst[1]] = "none" -> <<>>
      [] inst[2] = "inst" /\ f.kind[inst[1]] = "same" -> <<<<"same", 0, 0>>>>
      [] OTHER                         -> <<<<"inst", inst[1], 0>>>>

\* What the callee ensures, after a call.
CallState(f, inst) ==
    IF inst[2] = "inst" /\ f.kind[inst[1]] = "call"
      THEN <<<<"ensures", inst[1], 0>>>> ELSE <<>>

\* The map has one predicate per terminator and successor: with several cases
\* to one block the last of them, or default, overwrites the others.
TPM(f, b, succ) ==
    IF Len(f.succ[b]) = 1 THEN <<>>
    ELSE <<<<"edge", b,
             CHOOSE i \in DOMAIN f.succ[b] :
               /\ f.succ[b][i] = succ
               /\ \A j \in DOMAIN f.succ[b] : f.succ[b][j] = succ => j <= i>>>>

PPM(f, pred, b) ==
    IF f.phi[b] THEN <<<<"phi", pred, b>>>> ELSE <<>>

\* runOnFunction: the globals, and what the function requires, if anything.
InitialState(f) ==
    Plus(Data(<<<<"globals", 0, 0>>>>),
         Data(IF f.requires THEN <<<<"requires", 0, 0>>>> ELSE <<>>))

\* isUnreachableIn: no way of reading the state is free of a contradiction.
IsUnreachable(f, s) ==
    /\ config.checkUnreachable
    /\ \A path \in Paths(s) : \E p \in ToSet(path) : p \in f.refuted

-----------------------------------------------------------------------------
(* Dominators                                                              *)

\* The blocks on every way from the entry to b.
Dominators(f) ==
    LET dom[b \in Blocks(f)] ==
          {b} \cup {d \in Blocks(f) : /\ b # Entry
                                      /\ \A p \in Preds(f, b) : d \in dom[p]}
    IN dom

IDom(f, b) == Max(Dominators(f)[b] \ {b})

\* The blocks on every way from b to a return.
PostDominators(f) ==
    LET last == Cardinality(Blocks(f))
        pdom[k \in 0..(last - 1)] ==
          LET b == last - k
          IN {b} \cup {d \in Blocks(f) : /\ f.succ[b] # <<>>
                                         /\ \A s \in ToSet(f.succ[b]) :
                                              d \in pdom[last - s]}
    IN [b \in Blocks(f) |-> pdom[last - b]]

NoBlock == 0

\* The virtual exit of a function with several returns has no block.
IPDom(f, b) ==
    LET above == PostDominators(f)[b] \ {b}
    IN IF above = {} THEN NoBlock ELSE Min(above)

-----------------------------------------------------------------------------
Init ==
    /\ function \in Functions
    /\ config \in Configs
    /\ phase = "start"
    /\ initialState = InitialState(function)
    /\ basicBlockStates = <<>>
    /\ workQueue = <<>>
    /\ predicateStates = <<>>
    /\ finalState = NoState
    /\ instructionStates = <<>>
    /\ body = NoState
    /\ asks = 0

\* updateInlineSummary looks for the one return of the function.
WantsSummary == config.inline /\ Cardinality(RetBlocks(function)) = 1
Return == <<Max(RetBlocks(function)), "end">>

\* The checkers' call of getInstructionState, or that of updateInlineSummary.
Asked(inst) ==
    /\ inst \notin DOMAIN instructionStates
    /\ \/ phase = "ready" /\ asks < MaxAsks /\ asks' = asks + 1
       \/ phase = "summary" /\ WantsSummary /\ inst = Return /\ UNCHANGED asks

Extend(map, key, value) ==
    [k \in DOMAIN map \cup {key} |-> IF k = key THEN value ELSE map[k]]

Optimized(s) == IF config.optimize THEN Optimize(s) ELSE s

\* The state of an instruction, and the one after it.
At(f, inst, inState) == Plus(inState, Data(PM(f, inst)))
Past(f, inst, inState) ==
    Plus(At(f, inst, inState), Data(CallState(f, inst)))

-----------------------------------------------------------------------------
(* OneForAll                                                               *)

\* One alternative of BBM: what happened between the dominator and b.
Incoming(f, states, b, pred) ==
    SliceOn(Plus(Plus(states[pred], Data(TPM(f, pred, b))), Data(PPM(f, pred, b))),
            states[IDom(f, b)])

\* Unreachable blocks have no state, and neither has one that only they lead to.
BBM(f, states, b) ==
    LET preds == SelectSeq(PredEdges(f, b), LAMBDA p : p \in DOMAIN states)
        slices == [i \in DOMAIN preds |-> Incoming(f, states, b, preds[i])]
        choices == IF config.aggressive THEN OptimizeChoices(slices) ELSE slices
    IN CASE b = Entry -> initialState
         [] b # Entry /\ (IDom(f, b) \notin DOMAIN states \/ preds = <<>>) -> NoState
         [] OTHER -> Plus(states[IDom(f, b)], Choice(choices))

SliceFails(f, states, b) ==
    /\ b # Entry
    /\ IDom(f, b) \in DOMAIN states
    /\ \E p \in Preds(f, b) \cap DOMAIN states :
         Incoming(f, states, b, p) = NoState

Dead(f, s) == s = NoState \/ IsUnreachable(f, s)

\* processBasicBlock and finalizeBasicBlock, which transforms the state of every
\* instruction of the block: a null one cannot be.
ProcessBlock(f, work, b) ==
    LET inState == BBM(f, work.blocks, b)
        atInst == At(f, <<b, "inst">>, inState)
        atEnd == At(f, <<b, "end">>, Past(f, <<b, "inst">>, inState))
    IN CASE work.ended # "" -> work
         [] work.ended = "" /\ SliceFails(f, work.blocks, b) ->
              [work EXCEPT !.ended = "slice failed"]
         [] work.ended = "" /\ ~SliceFails(f, work.blocks, b)
              /\ Dead(f, inState) -> [work EXCEPT !.ended = "null state"]
         [] OTHER ->
              [work EXCEPT
                 !.blocks = Extend(@, b, Past(f, <<b, "end">>,
                                              Past(f, <<b, "inst">>, inState))),
                 !.insts = Extend(Extend(@, <<b, "inst">>, Optimized(atInst)),
                                  <<b, "end">>, Optimized(atEnd))]

\* Mutant: the search goes one step back and no further.
ActiveNear(f, b) ==
    {b} \cup {p \in Preds(f, b) : <<p, "end">> \notin DOMAIN instructionStates}

\* The blocks before b whose states were never asked for, back to those with one.
Active(f, b) ==
    LET active[a \in Blocks(f)] ==
          {a} \cup UNION {active[p] : p \in
                  {q \in Preds(f, a) : <<q, "end">> \notin DOMAIN instructionStates}}
    IN active[b]

AskOneForAll(inst) ==
    LET active == SetToSortSeq(Active(function, inst[1]), <)
        work == FoldLeft(LAMBDA w, b : ProcessBlock(function, w, b),
                         [blocks |-> basicBlockStates, insts |-> instructionStates,
                          ended |-> ""], active)
    IN /\ config.mode = "one-for-all"
       /\ Asked(inst)
       /\ basicBlockStates' = work.blocks
       /\ instructionStates' = work.insts
       /\ phase' = IF work.ended = "" THEN phase ELSE work.ended
       /\ UNCHANGED <<function, config, initialState, workQueue, predicateStates,
                      finalState, body>>

-----------------------------------------------------------------------------
(* OneForOne                                                               *)

Entered(f, from, b, s) ==
    IF from = NoBlock THEN s ELSE Plus(s, Data(PPM(f, from, b)))

\* Mutant: the predicate of the edge is left to the successor's PHIs.
LeaveByEdges(f, b, s) ==
    [i \in DOMAIN f.succ[b] |-> <<b, f.succ[b][i], s>>]

\* Mutant: a return is followed to the virtual exit.
LeaveToExit(f, b, s) ==
    IF f.succ[b] = <<>> THEN <<<<b, NoBlock, s>>>> ELSE LeaveByEdges(f, b, s)

\* processTerminator: one queue entry per edge.
Leave(f, b, s) ==
    [i \in DOMAIN f.succ[b] |->
        <<b, f.succ[b][i], Plus(s, Data(TPM(f, b, f.succ[b][i])))>>]

AppendState(map, inst, s) ==
    Extend(map, inst, IF inst \in DOMAIN map THEN Append(map[inst], s) ELSE <<s>>)

ProcessQueue ==
    LET from == workQueue[1][1]
        b == workQueue[1][2]
        s == workQueue[1][3]
        inState == Entered(function, from, b, s)
        outState == Past(function, <<b, "end">>,
                         Past(function, <<b, "inst">>, inState))
        atInst == At(function, <<b, "inst">>, inState)
        atEnd == At(function, <<b, "end">>, Past(function, <<b, "inst">>, inState))
    IN /\ phase = "queue"
       /\ workQueue # <<>>
       /\ IF IsUnreachable(function, s)
            THEN /\ workQueue' = Tail(workQueue)
                 /\ UNCHANGED predicateStates
            ELSE /\ workQueue' = Tail(workQueue) \o Leave(function, b, outState)
                 /\ predicateStates' =
                      AppendState(AppendState(predicateStates, <<b, "inst">>, atInst),
                                  <<b, "end">>, atEnd)
       /\ UNCHANGED <<function, config, phase, initialState, basicBlockStates,
                      finalState, instructionStates, body, asks>>

Finalize ==
    /\ phase = "queue"
    /\ workQueue = <<>>
    /\ instructionStates' = [inst \in DOMAIN predicateStates |->
                               Optimized(Choice(predicateStates[inst]))]
    /\ initialState' = Optimized(initialState)
    /\ phase' = "summary"
    /\ UNCHANGED <<function, config, basicBlockStates, workQueue, predicateStates,
                   finalState, body, asks>>

-----------------------------------------------------------------------------
(* OneForAllTD                                                             *)

Mark(inst) == <<"mark", inst[1], inst[2]>>

\* Every instruction has a predicate, an artificial one if need be.
PredicatesFor(f, inst) ==
    IF PM(f, inst) = <<>> THEN <<Mark(inst)>> ELSE PM(f, inst)

BasicFor(f, b) ==
    LET inst(point) == Plus(Data(PredicatesFor(f, <<b, point>>)),
                            Data(CallState(f, <<b, point>>)))
    IN Plus(inst("inst"), inst("end"))

RECURSIVE StateBetween(_, _, _)

\* From b, inclusive, to its post-dominator dom, exclusive.
StateBetween(f, b, dom) ==
    LET idom == IPDom(f, b)
        way(succ) == Plus(Plus(Data(TPM(f, b, succ)), Data(PPM(f, b, succ))),
                          StateBetween(f, succ, idom))
        ways == [i \in DOMAIN f.succ[b] |-> way(f.succ[b][i])]
        through == IF ways = <<>> THEN BasicFor(f, b)
                   ELSE Plus(BasicFor(f, b), Choice(ways))
    IN IF b = dom THEN Nil
       ELSE IF idom # dom THEN Plus(through, StateBetween(f, idom, dom))
       ELSE through

RECURSIVE Crop(_, _)

\* What Cropper makes of s, and whether it has met the predicate.
Crop(s, pred) ==
    CASE IsBasic(s) ->
           IF pred \in ToSet(s.data)
             THEN [met |-> TRUE, state |->
                     Data(SubSeq(s.data, 1, SelectInSeq(s.data, LAMBDA p : p = pred)))]
             ELSE [met |-> FALSE, state |-> s]
      [] IsChain(s) ->
           LET base == Crop(s.base, pred)
               curr == Crop(s.curr, pred)
           IN IF base.met THEN base
              ELSE [met |-> curr.met,
                    state |-> IF curr.met THEN Chain(base.state, curr.state) ELSE s]
      [] IsChoice(s) ->
           LET cropped == SelectSeq([i \in DOMAIN s.choices |->
                                       Crop(s.choices[i], pred)], LAMBDA c : c.met)
           IN [met |-> cropped # <<>>,
               state |-> IF cropped = <<>> THEN s
                         ELSE Choice([i \in DOMAIN cropped |-> cropped[i].state])]

RECURSIVE EraseMarks(_)

EraseMarks(s) ==
    CASE IsBasic(s)  -> Data(SelectSeq(s.data, LAMBDA p : p[1] # "mark"))
      [] IsChain(s)  -> Link(EraseMarks(s.base), EraseMarks(s.curr))
      [] IsChoice(s) -> Either([i \in DOMAIN s.choices |-> EraseMarks(s.choices[i])])

AskOneForAllTD(inst) ==
    LET preds == PredicatesFor(function, inst)
        cropped == Crop(finalState, preds[Len(preds)]).state
    IN /\ config.mode = "one-for-all-reverse"
       /\ Asked(inst)
       /\ instructionStates' =
            Extend(instructionStates, inst, Optimized(EraseMarks(cropped)))
       /\ UNCHANGED <<function, config, phase, initialState, basicBlockStates,
                      workQueue, predicateStates, finalState, body>>

-----------------------------------------------------------------------------
(* PredicateStateAnalysis::runOnFunction                                   *)

\* The delegate's runOnFunction; only one-for-one does its work here.
Run ==
    /\ phase = "start"
    /\ CASE config.mode = "one-for-one" ->
              /\ workQueue' = <<<<NoBlock, Entry, initialState>>>>
              /\ phase' = "queue"
              /\ UNCHANGED finalState
         [] config.mode = "one-for-all" ->
              /\ phase' = "summary"
              /\ UNCHANGED <<workQueue, finalState>>
         [] config.mode = "one-for-all-reverse" ->
              /\ finalState' =
                   Optimize(Plus(initialState, StateBetween(function, Entry, NoBlock)))
              /\ phase' = "summary"
              /\ UNCHANGED workQueue
    /\ UNCHANGED <<function, config, initialState, basicBlockStates,
                   predicateStates, instructionStates, body, asks>>

SummaryDone ==
    UNCHANGED <<function, config, initialState, basicBlockStates, workQueue,
                predicateStates, finalState, instructionStates, asks>>

NoSummary ==
    /\ phase = "summary"
    /\ ~WantsSummary
    /\ phase' = "ready"
    /\ UNCHANGED body
    /\ SummaryDone

\* The state at the return, without what held at the entry.
UpdateInlineSummary ==
    /\ phase = "summary"
    /\ WantsSummary
    /\ Return \in DOMAIN instructionStates
    /\ body' = SliceOn(instructionStates[Return], initialState)
    /\ phase' = IF body' = NoState THEN "summary failed" ELSE "ready"
    /\ SummaryDone

\* ASSERT(riState): the return is unreachable and one-for-one has no state for it.
SummaryMissing ==
    /\ phase = "summary"
    /\ WantsSummary
    /\ config.mode = "one-for-one"
    /\ Return \notin DOMAIN instructionStates
    /\ phase' = "summary failed"
    /\ UNCHANGED body
    /\ SummaryDone

Summary == NoSummary \/ UpdateInlineSummary \/ SummaryMissing

Ask(inst) == AskOneForAll(inst) \/ AskOneForAllTD(inst)

Next ==
    \/ Run \/ ProcessQueue \/ Finalize \/ Summary
    \/ \E inst \in Instructions(function) : Ask(inst)

Spec == Init /\ [][Next]_vars

-----------------------------------------------------------------------------
(* The paths of the function, and properties                               *)

EdgePredicate(f, b, i) ==
    IF Len(f.succ[b]) = 1 THEN <<>> ELSE <<<<"edge", b, i>>>>

Through(f, b) ==
    PM(f, <<b, "inst">>) \o CallState(f, <<b, "inst">>) \o PM(f, <<b, "end">>)

Edges(f, b) ==
    {e \in Blocks(f) \X (1..9) :
        e[2] \in DOMAIN f.succ[e[1]] /\ f.succ[e[1]][e[2]] = b}

\* What an execution that gets to the beginning of a block has met.
PathsInto(f) ==
    LET into[b \in Blocks(f)] ==
          IF b = Entry THEN Paths(InitialState(f))
          ELSE UNION {{w \o Through(f, e[1]) \o EdgePredicate(f, e[1], e[2])
                         \o PPM(f, e[1], b) : w \in into[e[1]]} : e \in Edges(f, b)}
    IN into

PathsTo(f, inst) ==
    {w \o (IF inst[2] = "inst" THEN PM(f, inst) ELSE Through(f, inst[1])) :
        w \in PathsInto(f)[inst[1]]}

DistinctSuccessors(f) ==
    \A b \in Blocks(f) : Cardinality(ToSet(f.succ[b])) = Len(f.succ[b])

Distinguishable(f) ==
    \A i, j \in Instructions(f) : i # j /\ PM(f, i) = PM(f, j) => PM(f, i) = <<>>

Feasible(f, path) ==
    config.checkUnreachable => \A p \in ToSet(path) : p \notin f.refuted

\* One-for-all-reverse finds an instruction by its predicate.
Located == config.mode = "one-for-all-reverse" => Distinguishable(function)

Answered(inst) ==
    \/ inst \in DOMAIN instructionStates
    \/ config.mode = "one-for-one" /\ phase = "ready"

StateOf(inst) ==
    IF inst \in DOMAIN instructionStates THEN instructionStates[inst] ELSE NoState

\* Every variable has its type.
TypeOK ==
    /\ function \in Functions
    /\ config \in Configs
    /\ phase \in {"start", "queue", "summary", "ready", "slice failed",
                  "null state", "summary failed"}
    /\ DOMAIN basicBlockStates \subseteq Blocks(function)
    /\ DOMAIN predicateStates \subseteq Instructions(function)
    /\ DOMAIN instructionStates \subseteq Instructions(function)
    /\ \A i \in DOMAIN workQueue : workQueue[i][2] \in Blocks(function)
    /\ asks \in 0..MaxAsks

\* The state of an instruction describes only executions that get there, in the
\* order of their steps, whatever was asked before.
NoInventedPaths ==
    Located => \A inst \in DOMAIN instructionStates :
        Paths(instructionStates[inst]) \subseteq PathsTo(function, inst)

\* The state of an instruction describes every execution that gets there, unless
\* the solver has refuted it, given that no two edges of a block share their end;
\* and no question is left without a state, since the state of a predecessor
\* begins with the one of the immediate dominator and can be sliced on it.
NoPathLost ==
    /\ phase # "slice failed"
    /\ Located /\ DistinctSuccessors(function) =>
        \A inst \in Instructions(function) : Answered(inst) =>
            \A path \in PathsTo(function, inst) :
                Feasible(function, path) => path \in Paths(StateOf(inst))

\* The inline summary is what the function adds to its initial state.
SummaryIsTheBody ==
    body # NoState =>
        {p \o q : p \in Paths(initialState), q \in Paths(body)}
            = Paths(instructionStates[Return])

\* "All predecessors are unreachable, and so we are also as such": an unreachable
\* block is skipped.
UnreachableIsSkipped == phase # "null state"

\* "Function state slicing failed" never happens.
SummariesSucceed == phase # "summary failed"
=============================================================================
