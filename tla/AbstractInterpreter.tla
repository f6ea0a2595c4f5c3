-------------------------- MODULE AbstractInterpreter -----------------------
(***************************************************************************)
(* The abstract interpreter of LLVM IR: a work list of blocks for every    *)
(* function that is being interpreted, the states before and after every   *)
(* block, and a stack of the calls.  One action per visitor.               *)
(*                                                                         *)
(* A program is a record of functions and of the sequence that run()       *)
(* interprets.  Of the domains there are integers and Booleans; memory,    *)
(* floats and structures are left out.                                     *)
(***************************************************************************)
EXTENDS IntervalArithmetic, Sequences, SequencesExt

CONSTANT Programs

VARIABLES
    program,
    todo,       \* what run() has not interpreted yet
    func,       \* of every function: args, in and out
    block,      \* of every block of it: in, out and three flags
    stack,      \* stack_ and callStack_
    aborted     \* an assertion has failed or a null pointer was followed

vars == <<program, todo, func, block, stack, aborted>>

Value(name) == [kind |-> "value", name |-> name]
Number(n) == [kind |-> "number", n |-> n]
IsNumber(x) == x.kind = "number"

\* The code of a function, and the values it knows.
CodeIn(fn) == UNION {ToSet(fn.blocks[b].code) : b \in DOMAIN fn.blocks}
ValuesIn(fn) == {Value(p) : p \in ToSet(fn.params)} \cup {i.def : i \in CodeIn(fn)}

SuccessorsOf(end) ==
    CASE end.op = "ret"    -> <<>>
      [] end.op = "jump"   -> <<end.to>>
      [] end.op = "br"     -> <<end.yes, end.no>>
      [] end.op = "switch" -> Append([i \in DOMAIN end.cases |-> end.cases[i].to], end.default)

\* What LLVM's verifier has made sure of: control stays in the function, a
\* condition is a comparison, the operands are values of the function, and a
\* call has an argument for every parameter.
IsOperand(fn, x) == IsNumber(x) \/ x \in ValuesIn(fn)

IsEnd(fn, end) ==
    /\ end.op \in {"ret", "jump", "br", "switch"}
    /\ ToSet(SuccessorsOf(end)) \subseteq DOMAIN fn.blocks
    /\ end.op = "br" =>
         /\ \E i \in CodeIn(fn) : i.def = end.cond
         /\ \A i \in CodeIn(fn) :
              i.def = end.cond => IsOperand(fn, i.l) /\ IsOperand(fn, i.r) /\ i.pred \in DOMAIN Negation
    /\ end.op = "switch" => IsOperand(fn, end.on) /\ end.cases \in Seq(ToSet(end.cases))

IsFunction(fn) ==
    /\ fn.params \in Seq(ToSet(fn.params))
    /\ fn.entry \in DOMAIN fn.blocks
    /\ IsFiniteSet(DOMAIN fn.blocks)
    /\ \A b \in DOMAIN fn.blocks :
         /\ fn.blocks[b].code \in Seq(ToSet(fn.blocks[b].code))
         /\ IsEnd(fn, fn.blocks[b].end)

IsCall(p, i) == i.callee \in DOMAIN p.functions => DOMAIN i.args = DOMAIN p.functions[i.callee].params

ASSUME ProgramsAssumption ==
    \A p \in Programs :
        /\ p.roots \in Seq(DOMAIN p.functions)
        /\ \A f \in DOMAIN p.functions :
             /\ IsFunction(p.functions[f])
             /\ \A i \in CodeIn(p.functions[f]) : i.op = "call" => IsCall(p, i)

-----------------------------------------------------------------------------
(* DomainStorage and SeparateDomain                                        *)

NoState == [ints |-> [x \in {} |-> TopInt], bools |-> [x \in {} |-> Top]]

With(f, x, d) == [y \in DOMAIN f \cup {x} |-> IF y = x THEN d ELSE f[y]]

Merged(f, g, join(_, _)) ==
    [x \in DOMAIN f \cup DOMAIN g |-> IF x \notin DOMAIN g THEN f[x]
                                      ELSE IF x \notin DOMAIN f THEN g[x]
                                      ELSE join(f[x], g[x])]

\* Mutant: what is known is kept.
JoinMissing(s, t) ==
    [ints |-> Merged(s.ints, t.ints, LAMBDA d, e : d), bools |-> Merged(s.bools, t.bools, LAMBDA d, e : d)]

\* Values that one of the states does not know come from the other.
JoinWith(s, t) == [ints |-> Merged(s.ints, t.ints, JoinInts), bools |-> Merged(s.bools, t.bools, Join)]

Known(s, x) == IsNumber(x) \/ x \in DOMAIN s.ints
Get(s, x) == IF IsNumber(x) THEN ConstantInt(x.n) ELSE s.ints[x]
Assign(s, x, d) == [s EXCEPT !.ints = With(@, x, d)]
AssignBool(s, x, b) == [s EXCEPT !.bools = With(@, x, b)]

\* addConstraint: both are narrowed by what the other was.
Constrain(s, op, x, y) ==
    LET l == Get(s, x)
        r == Get(s, y)
        both(d, e) == Assign(Assign(s, x, d), y, e)
    IN  CASE op = "EQ"           -> both(SplitIntsByEq(l, r).true, SplitIntsByEq(r, l).true)
          [] op = "NEQ"          -> both(SplitIntsByEq(l, r).false, SplitIntsByEq(r, l).false)
          [] op \in {"GT", "GE"} -> both(SplitIntsByLess(l, r).false, SplitIntsByLess(r, l).true)
          [] op \in {"LT", "LE"} -> both(SplitIntsByLess(l, r).true, SplitIntsByLess(r, l).false)

\* The two states of a split are copies that share their domains with the
\* state that is split: the constraint of each ends up in all three.
Narrow(s, cmp, op) ==
    IF s.bools[cmp.def] \in {Top, Bottom} THEN s ELSE Constrain(s, op, cmp.l, cmp.r)

-----------------------------------------------------------------------------
(* BasicBlock                                                              *)

NewBlock == [in |-> NoState, out |-> NoState, changed |-> FALSE, fixpoint |-> FALSE, visited |-> FALSE]

mergeToInput(b, s) == [b EXCEPT !.in = JoinWith(@, s), !.changed = TRUE]

\* It replaces what the state before the block knew of x.
addToInput(b, x, d) == [b EXCEPT !.in = Assign(@, x, d), !.changed = TRUE]

\* Mutant: a block without values need not be visited.
SettledUnvisited(b) ==
    IF b.changed THEN [b EXCEPT !.fixpoint = (b.out = b.in), !.changed = FALSE] ELSE b

\* atFixpoint: the block with its flags set, the second of them the answer.
Settled(b) ==
    IF b.out = NoState /\ ~b.visited THEN [b EXCEPT !.fixpoint = FALSE]
    ELSE IF b.changed THEN [b EXCEPT !.fixpoint = (b.out = b.in), !.changed = FALSE]
    ELSE b

-----------------------------------------------------------------------------
(* Function                                                                *)

NewFunction == [args |-> <<>>, in |-> NoState, out |-> NoState]

Params(f) == program.functions[f].params
Entry(f) == program.functions[f].entry

\* A Top is taken as it is; everything else widens what was there.
NewArgs(f, args) ==
    IF func[f].args = <<>> THEN args
    ELSE [i \in DOMAIN args |->
            IF args[i] = TopInt THEN TopInt ELSE WidenInts(func[f].args[i], args[i])]

\* ... but the state before the entry is given the other way round.
GivenArgs(f, args) ==
    IF func[f].args = <<>> THEN args
    ELSE [i \in DOMAIN args |-> WidenInts(args[i], func[f].args[i])]

NeedsInterpretation(f, args) ==
    IF Params(f) = <<>> THEN ~block[f][Entry(f)].visited
    ELSE NewArgs(f, args) # func[f].args

UpdatedInput(f, args) ==
    LET params == [i \in DOMAIN args |-> Value(Params(f)[i])]
        given == [x \in ToSet(params) |-> GivenArgs(f, args)[CHOOSE i \in DOMAIN args : params[i] = x]]
    IN  [func[f].in EXCEPT !.ints = Merged(@, given, LAMBDA d, e : e)]

UpdatedFunctions(f, args, input) ==
    [func EXCEPT ![f].args = NewArgs(f, args), ![f].in = input]

UpdatedBlocks(f, input) ==
    IF Params(f) = <<>> THEN block
    ELSE [block EXCEPT ![f][Entry(f)] = mergeToInput(@, input)]

-----------------------------------------------------------------------------
(* The interpreter                                                         *)

Init ==
    /\ program \in Programs
    /\ todo = program.roots
    /\ func = [f \in DOMAIN program.functions |-> NewFunction]
    /\ block = [f \in DOMAIN program.functions |->
                  [b \in DOMAIN program.functions[f].blocks |-> NewBlock]]
    /\ stack = <<>>
    /\ aborted = FALSE

Frame(f) == [func |-> f, queue |-> <<Entry(f)>>, next |-> 0]

Context == Last(stack)
CurrentFunction == Context.func
CurrentBlock == Head(Context.queue)
CodeOf(f, b) == program.functions[f].blocks[b].code
EndOf(f, b) == program.functions[f].blocks[b].end
State == block[CurrentFunction][CurrentBlock].out

InBlock == ~aborted /\ stack # <<>> /\ Context.queue # <<>> /\ Context.next > 0
AtInstruction(op) ==
    /\ InBlock
    /\ Context.next <= Len(CodeOf(CurrentFunction, CurrentBlock))
    /\ CodeOf(CurrentFunction, CurrentBlock)[Context.next].op = op
Instruction == CodeOf(CurrentFunction, CurrentBlock)[Context.next]
AtEnd(op) ==
    /\ InBlock
    /\ Context.next > Len(CodeOf(CurrentFunction, CurrentBlock))
    /\ EndOf(CurrentFunction, CurrentBlock).op = op
Terminator == EndOf(CurrentFunction, CurrentBlock)

NextInstruction == [stack EXCEPT ![Len(stack)].next = @ + 1]

\* The instruction's value is assigned, and that is all.
Assigned(d) ==
    /\ block' = [block EXCEPT ![CurrentFunction][CurrentBlock].out = Assign(@, Instruction.def, d)]
    /\ stack' = NextInstruction
    /\ UNCHANGED <<program, todo, func, aborted>>

InterpretRoot ==
    /\ ~aborted /\ stack = <<>> /\ todo # <<>>
    /\ LET f == Head(todo)
           args == [i \in DOMAIN Params(f) |-> TopInt]
       IN  \E input \in {UpdatedInput(f, args)} :
           /\ func' = UpdatedFunctions(f, args, input)
           /\ block' = UpdatedBlocks(f, input)
           /\ stack' = IF NeedsInterpretation(f, args) THEN <<Frame(f)>> ELSE <<>>
    /\ todo' = Tail(todo)
    /\ UNCHANGED <<program, aborted>>

BeginBlock ==
    /\ ~aborted /\ stack # <<>> /\ Context.queue # <<>> /\ Context.next = 0
    /\ block' = [block EXCEPT ![CurrentFunction][CurrentBlock].out =
                   JoinWith(@, block[CurrentFunction][CurrentBlock].in)]
    /\ stack' = NextInstruction
    /\ UNCHANGED <<program, todo, func, aborted>>

\* What comes from blocks that have been visited.
Incoming ==
    SelectSeq(Instruction.ins,
              LAMBDA e : block[CurrentFunction][e.from].visited /\ Known(State, e.value))

Phi ==
    /\ AtInstruction("phi")
    /\ Incoming # <<>>
    /\ Assigned(LET again == Known(State, Instruction.def)
                    merge(d, e) == IF again THEN WidenInts(d, Get(State, e.value))
                                   ELSE JoinInts(d, Get(State, e.value))
                IN  FoldLeft(merge, BottomInt, Incoming))

BinaryOperator ==
    /\ AtInstruction("arith")
    /\ Known(State, Instruction.l) /\ Known(State, Instruction.r)
    /\ Assigned(ArithInts(Instruction.opcode, Get(State, Instruction.l), Get(State, Instruction.r)))

ICmp ==
    /\ AtInstruction("icmp")
    /\ Known(State, Instruction.l) /\ Known(State, Instruction.r)
    /\ block' = [block EXCEPT ![CurrentFunction][CurrentBlock].out =
                   AssignBool(@, Instruction.def,
                              CompareInts(Instruction.pred, Get(@, Instruction.l), Get(@, Instruction.r)))]
    /\ stack' = NextInstruction
    /\ UNCHANGED <<program, todo, func, aborted>>

\* A condition that is not decided makes anything of the result.
Select ==
    /\ AtInstruction("select")
    /\ Known(State, Instruction.yes) /\ Known(State, Instruction.no)
    /\ LET cond == State.bools[Instruction.cond]
       IN  Assigned(CASE cond = BoolOf(TRUE)  -> Get(State, Instruction.yes)
                      [] cond = BoolOf(FALSE) -> Get(State, Instruction.no)
                      [] OTHER                -> TopInt)

-----------------------------------------------------------------------------
(* Calls                                                                   *)

Callee == Instruction.callee
IsDeclaration(f) == f \notin DOMAIN program.functions
OnCallStack(f) == \E i \in DOMAIN stack : stack[i].func = f
Arguments == [i \in DOMAIN Instruction.args |-> Get(State, Instruction.args[i])]
ArgumentsKnown == \A i \in DOMAIN Instruction.args : Known(State, Instruction.args[i])

CallDeclaration ==
    /\ AtInstruction("call")
    /\ IsDeclaration(Callee)
    /\ Assigned(TopInt)

CallRecursively ==
    /\ AtInstruction("call")
    /\ ~IsDeclaration(Callee) /\ OnCallStack(Callee)
    /\ Assigned(TopInt)

CallFunction ==
    /\ AtInstruction("call")
    /\ ~IsDeclaration(Callee) /\ ~OnCallStack(Callee)
    /\ ArgumentsKnown
    /\ NeedsInterpretation(Callee, Arguments)
    /\ \E input \in {UpdatedInput(Callee, Arguments)} :
         /\ func' = UpdatedFunctions(Callee, Arguments, input)
         /\ block' = UpdatedBlocks(Callee, input)
    /\ stack' = Append(stack, Frame(Callee))
    /\ UNCHANGED <<program, todo, aborted>>

\* getReturnValue: a value that no block of the function knows is not assigned.
WithResult(blocks, f, b, def, callee) ==
    LET result == program.functions[callee].result
        out == func[callee].out
    IN  IF Known(out, result)
          THEN [blocks EXCEPT ![f][b].out = Assign(@, def, Get(out, result))]
          ELSE blocks

CallUnchanged ==
    /\ AtInstruction("call")
    /\ ~IsDeclaration(Callee) /\ ~OnCallStack(Callee)
    /\ ArgumentsKnown
    /\ ~NeedsInterpretation(Callee, Arguments)
    /\ \E input \in {UpdatedInput(Callee, Arguments)} :
         /\ func' = UpdatedFunctions(Callee, Arguments, input)
         /\ block' = WithResult(UpdatedBlocks(Callee, input),
                                CurrentFunction, CurrentBlock, Instruction.def, Callee)
    /\ stack' = NextInstruction
    /\ UNCHANGED <<program, todo, aborted>>

EndFunction ==
    /\ ~aborted /\ stack # <<>> /\ Context.queue = <<>>
    /\ IF Len(stack) = 1
         THEN /\ stack' = <<>>
              /\ block' = block
         ELSE LET caller == stack[Len(stack) - 1]
                  b == Head(caller.queue)
                  call == CodeOf(caller.func, b)[caller.next]
              IN  /\ block' = WithResult(block, caller.func, b, call.def, CurrentFunction)
                  /\ stack' = Append(SubSeq(stack, 1, Len(stack) - 2),
                                     [caller EXCEPT !.next = @ + 1])
    /\ UNCHANGED <<program, todo, func, aborted>>

-----------------------------------------------------------------------------
(* Ends of blocks                                                          *)

\* The ways out of a block are numbered: succs[i] is where the i-th leads, for
\* those i that may be taken.
FirstWay(succs, b) ==
    CHOOSE i \in DOMAIN succs : succs[i] = b /\ \A j \in DOMAIN succs : succs[j] = b => i <= j
LastWay(succs, b) ==
    CHOOSE i \in DOMAIN succs : succs[i] = b /\ \A j \in DOMAIN succs : succs[j] = b => j <= i

\* The members of a set of successors, in the order of the ways to them.
InOrder(succs, new) ==
    {q \in [1 .. Cardinality(new) -> new] :
       \A i, j \in DOMAIN q : i < j => FirstWay(succs, q[i]) < FirstWay(succs, q[j])}

\* Mutant: the fixpoint is not asked for.
AddUnsettled(blocks, queue, succs) ==
    {queue \o q : q \in InOrder(succs, ToSet(succs) \ ToSet(queue))}

\* The queue after it, as the one member of a set.  A block that is in the queue
\* is not added; the one that is being visited is still its first.
AddSuccessors(blocks, queue, succs) ==
    {queue \o q : q \in InOrder(succs, {b \in ToSet(succs) : ~blocks[b].fixpoint} \ ToSet(queue))}

LeaveBlock(merged, succs) ==
    \E blocks \in {[b \in DOMAIN merged |-> IF b \in ToSet(succs) THEN Settled(merged[b]) ELSE merged[b]]} :
    \E queue \in AddSuccessors(blocks, Context.queue, succs) :
        /\ block' = [block EXCEPT ![CurrentFunction] = [blocks EXCEPT ![CurrentBlock].visited = TRUE]]
        /\ func' = [func EXCEPT ![CurrentFunction].out = JoinWith(@, blocks[CurrentBlock].out)]
        /\ stack' = [stack EXCEPT ![Len(stack)] = [@ EXCEPT !.queue = Tail(queue), !.next = 0]]
        /\ UNCHANGED <<program, todo, aborted>>

\* A block that two ways lead to is merged with the same state twice, which is
\* once.
MergeInto(blocks, succs, s) ==
    [b \in DOMAIN blocks |-> IF b \in ToSet(succs) THEN mergeToInput(blocks[b], s) ELSE blocks[b]]

Return ==
    /\ AtEnd("ret")
    /\ LeaveBlock(block[CurrentFunction], <<>>)

Jump ==
    /\ AtEnd("jump")
    /\ LeaveBlock(MergeInto(block[CurrentFunction], <<Terminator.to>>, State), <<Terminator.to>>)

DefinitionOf(f, v) ==
    CHOOSE i \in UNION {ToSet(CodeOf(f, b)) : b \in DOMAIN program.functions[f].blocks} : i.def = v

Branch ==
    /\ AtEnd("br")
    /\ LET cmp == DefinitionOf(CurrentFunction, Terminator.cond)
           cond == State.bools[Terminator.cond]
           succs == IF cond = BoolOf(TRUE) THEN <<Terminator.yes>>
                    ELSE IF cond = BoolOf(FALSE) THEN <<Terminator.no>>
                    ELSE <<Terminator.yes, Terminator.no>>
       IN  \E s \in {Narrow(State, cmp, cmp.pred)} : \E split \in {Narrow(s, cmp, Negation[cmp.pred])} :
               LeaveBlock(MergeInto([block[CurrentFunction] EXCEPT ![CurrentBlock].out = split], succs, split),
                          succs)

\* The last of the ways to a block says what the condition is there.
Cases(cases, default, cond) ==
    LET undecided == cond \in {TopInt, BottomInt}
        hit == {i \in DOMAIN cases : undecided \/ IntersectInts(cond, ConstantInt(cases[i].n))}
        isDefault == hit = {} \/ undecided \/ ~(IsSingleton(cond.s) /\ IsSingleton(cond.u))
    IN  [i \in hit \cup (IF isDefault THEN {Len(cases) + 1} ELSE {}) |->
           IF i \in hit THEN [to |-> cases[i].to, is |-> ConstantInt(cases[i].n)]
           ELSE [to |-> default, is |-> cond]]

Switch ==
    /\ AtEnd("switch")
    /\ Known(State, Terminator.on)
    /\ \E ways \in {Cases(Terminator.cases, Terminator.default, Get(State, Terminator.on))} :
           LET succs == [i \in DOMAIN ways |-> ways[i].to]
               merged == MergeInto(block[CurrentFunction], succs, State)
           IN  LeaveBlock([b \in DOMAIN merged |->
                             IF b \in ToSet(succs)
                               THEN addToInput(merged[b], Terminator.on, ways[LastWay(succs, b)].is)
                               ELSE merged[b]], succs)

-----------------------------------------------------------------------------

\* A null pointer is taken for a value, or a phi has nothing to join.
Abort ==
    /\ \/ AtInstruction("phi") /\ Incoming = <<>>
       \/ /\ AtInstruction("arith") \/ AtInstruction("icmp")
          /\ ~Known(State, Instruction.l) \/ ~Known(State, Instruction.r)
       \/ AtInstruction("select") /\ ~(Known(State, Instruction.yes) /\ Known(State, Instruction.no))
       \/ /\ AtInstruction("call")
          /\ ~IsDeclaration(Callee) /\ ~OnCallStack(Callee) /\ ~ArgumentsKnown
       \/ AtEnd("switch") /\ ~Known(State, Terminator.on)
    /\ aborted' = TRUE
    /\ UNCHANGED <<program, todo, func, block, stack>>

Next ==
    \/ InterpretRoot \/ BeginBlock \/ EndFunction
    \/ Phi \/ BinaryOperator \/ ICmp \/ Select
    \/ CallDeclaration \/ CallRecursively \/ CallFunction \/ CallUnchanged
    \/ Return \/ Jump \/ Branch \/ Switch
    \/ Abort

\* The interpreter is one thread that runs until it is done.  Every step changes
\* what is left, the stack or the flag.
Spec == Init /\ [][Next]_vars /\ WF_<<todo, stack, aborted>>(Next)

Ended == aborted \/ (stack = <<>> /\ todo = <<>>)

-----------------------------------------------------------------------------
Functions == DOMAIN program.functions
BlocksOf(f) == DOMAIN program.functions[f].blocks

\* The frames and the blocks fit together: what is visited has been queued in
\* a function that is interpreted once at a time, and no state knows a value
\* that its function does not compute.
TypeOK ==
    /\ \A i, j \in DOMAIN stack : stack[i].func = stack[j].func => i = j
    /\ \A i \in DOMAIN stack :
         IsInjective(stack[i].queue) /\ ToSet(stack[i].queue) \subseteq BlocksOf(stack[i].func)
    /\ \A f \in Functions : \A b \in BlocksOf(f) :
         /\ block[f][b].fixpoint => block[f][b].visited
         /\ \A x \in DOMAIN block[f][b].in.ints \cup DOMAIN block[f][b].out.ints :
              IsOperand(program.functions[f], x)
=============================================================================
