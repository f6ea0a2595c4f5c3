------------------------ MODULE InterpretedExecutions -----------------------
(***************************************************************************)
(* What an abstract interpreter is for: whatever the program does is in    *)
(* what it found.  The program is executed here step by step, with all     *)
(* arguments, on numbers of the width; a call of a declaration returns    *)
(* any number, and an operation that overflows is not executed.            *)
(***************************************************************************)
EXTENDS AbstractInterpreter

Numbers == 0 .. Modulus - 1

Start(f, env) == [func |-> f, block |-> Entry(f), from |-> Entry(f), next |-> 1, env |-> env]

Read(env, x) == IF IsNumber(x) THEN x.n % Modulus ELSE env[x]
Bind(env, x, n) == (x :> n) @@ env

Holds(op, m, n) ==
    LET l == Wrap(TRUE, m)
        r == Wrap(TRUE, n)
    IN  CASE op = "EQ" -> l = r
          [] op = "NEQ" -> l # r
          [] op = "LT" -> l < r
          [] op = "LE" -> l <= r
          [] op = "GT" -> l > r
          [] op = "GE" -> l >= r

\* Whether an operation is defined by LLVM, and what it is without a width.
IsDefined(opcode, n) ==
    /\ opcode \in {"DIV", "REM"} => n # 0
    /\ opcode \in {"SHL", "ASHR", "LSHR"} => n \in 0 .. Modulus

Exact(opcode, m, n) ==
    CASE opcode = "ADD" -> m + n
      [] opcode = "SUB" -> m - n
      [] opcode = "MUL" -> m * n
      [] opcode = "DIV" -> Quotient(m, n)
      [] opcode = "REM" -> Remainder(m, n)
      [] opcode = "SHL" -> m * 2 ^ n
      [] opcode \in {"ASHR", "LSHR"} -> m \div 2 ^ n

\* An operation that overflows, or whose result as signed numbers is not the
\* one as unsigned numbers, ends the execution: an infinite bound stands for
\* numbers of any size, and the code does not know which of sdiv and udiv, or
\* of srem and urem, it looks at.
Results(opcode, l, r) ==
    IF opcode \in {"AND", "OR", "XOR"} THEN {Bits(opcode, l, r)}
    ELSE {n \in Numbers : \A signed \in BOOLEAN :
             /\ IsDefined(opcode, Wrap(signed, r))
             /\ Wrap(signed, n) = Exact(opcode, Wrap(signed, l), Wrap(signed, r))}

\* What an instruction other than a call of a function computes.
Computed(frame, i) ==
    CASE i.op = "phi"   -> {Read(frame.env, e.value) : e \in {d \in ToSet(i.ins) : d.from = frame.from}}
      [] i.op = "arith" -> Results(i.opcode, Read(frame.env, i.l), Read(frame.env, i.r))
      [] i.op = "select" -> {Read(frame.env, IF frame.env[i.cond] = 1 THEN i.yes ELSE i.no)}
      [] i.op = "icmp"  -> {IF Holds(i.pred, Read(frame.env, i.l), Read(frame.env, i.r)) THEN 1 ELSE 0}
      [] i.op = "call"  -> Numbers

Target(frame, end) ==
    CASE end.op = "jump"   -> end.to
      [] end.op = "br"     -> IF frame.env[end.cond] = 1 THEN end.yes ELSE end.no
      [] end.op = "switch" ->
            LET hit == SelectSeq(end.cases, LAMBDA c : c.n % Modulus = Read(frame.env, end.on))
            IN  IF hit = <<>> THEN end.default ELSE Head(hit).to

GoOn(frames, frame) == Append(Front(frames), frame)

StepsOf(frames) ==
    LET frame == Last(frames)
        code == CodeOf(frame.func, frame.block)
        end == EndOf(frame.func, frame.block)
        i == code[frame.next]
    IN  IF frame.next <= Len(code)
          THEN IF i.op = "call" /\ ~IsDeclaration(i.callee)
                 THEN {Append(frames, Start(i.callee,
                          [x \in {Value(p) : p \in ToSet(Params(i.callee))} |->
                             Read(frame.env, i.args[CHOOSE k \in DOMAIN Params(i.callee) :
                                                      Params(i.callee)[k] = x.name])]))}
                 ELSE {GoOn(frames, [frame EXCEPT !.env = Bind(@, i.def, n), !.next = @ + 1]) :
                         n \in Computed(frame, i)}
          ELSE IF end.op # "ret"
                 THEN {GoOn(frames, [frame EXCEPT !.block = Target(frame, end), !.from = frame.block, !.next = 1])}
          ELSE IF Len(frames) = 1 THEN {}
          ELSE LET caller == frames[Len(frames) - 1]
                   call == CodeOf(caller.func, caller.block)[caller.next]
                   n == Read(frame.env, program.functions[frame.func].result)
               IN  {Append(SubSeq(frames, 1, Len(frames) - 2),
                           [caller EXCEPT !.env = Bind(@, call.def, n), !.next = @ + 1])}

RECURSIVE Reachable(_, _)

Reachable(seen, new) ==
    IF new = {} THEN seen
    ELSE Reachable(seen \cup new, UNION {StepsOf(c) : c \in new} \ (seen \cup new))

Executions ==
    Reachable({}, UNION {{<<Start(f, env)>> : env \in [{Value(p) : p \in ToSet(Params(f))} -> Numbers]} :
                           f \in ToSet(program.roots)})

-----------------------------------------------------------------------------
(* Where the interpreter is known to miss executions                       *)

AllBlocks == UNION {BlocksOf(f) : f \in Functions}

\* The block that is visited is still in the queue and is not added to it.
HasSelfLoop == \E f \in Functions : \E b \in BlocksOf(f) : b \in ToSet(SuccessorsOf(EndOf(f, b)))

\* A loop whose latch computes nothing leaves the state of its header as it
\* was, and the constant that comes from there is never seen.
HasConstantFromLatch ==
    \E f \in Functions : \E b \in BlocksOf(f) : \E i \in ToSet(CodeOf(f, b)) :
        i.op = "phi" /\ \E e \in ToSet(i.ins) :
            /\ IsNumber(e.value) /\ CodeOf(f, e.from) = <<>>
            /\ e.from \in ToSet(SuccessorsOf(EndOf(f, b)))

\* addToInput forgets what came to the block on another way.
HasSharedCase ==
    \E f \in Functions : \E b \in BlocksOf(f) :
        EndOf(f, b).op = "switch" /\ ~IsInjective(SuccessorsOf(EndOf(f, b)))

\* Both constraints of an equality end up in the state.
HasDecidedEquality ==
    \E f \in Functions : \E b \in BlocksOf(f) :
        /\ block[f][b].visited /\ EndOf(f, b).op = "br"
        /\ DefinitionOf(f, EndOf(f, b).cond).pred \in {"EQ", "NEQ"}
        /\ block[f][b].out.bools[EndOf(f, b).cond] # Top

\* The operands of the arithmetic that has been interpreted.
Operations(signed) ==
    UNION {{[opcode |-> i.opcode,
             l |-> IF signed THEN Get(block[f][b].out, i.l).s ELSE Get(block[f][b].out, i.l).u,
             r |-> IF signed THEN Get(block[f][b].out, i.r).s ELSE Get(block[f][b].out, i.r).u] :
              i \in {i \in ToSet(CodeOf(f, b)) : i.op = "arith"}} :
           <<f, b>> \in {<<g, c>> \in Functions \X AllBlocks : c \in BlocksOf(g) /\ block[g][c].visited}}

\* A bound has overflowed, and the others may not have.  The magnitude that
\* srem takes of the lowest number does, too.
HasOverflow ==
    \E signed \in BOOLEAN : \E o \in Operations(signed) :
        \/ /\ o.opcode \notin {"AND", "OR", "XOR"}
           /\ \E m \in Ends(o.l), n \in Ends(o.r) :
                 /\ IsFinite(m) /\ IsFinite(n) /\ IsDefined(o.opcode, n)
                 /\ Wrap(signed, Exact(o.opcode, m, n)) # Exact(o.opcode, m, n)
        \/ o.opcode = "REM" /\ signed /\ -(Modulus \div 2) \in Ends(o.l) \cup Ends(o.r)

\* An infinite bound keeps its sign whatever it is multiplied by; it is lost
\* from remainders of unsigned numbers; and an arithmetic shift by any number
\* of bits makes a bound infinite that should become zero.
HasInfiniteBound ==
    \E signed \in BOOLEAN : \E o \in Operations(signed) :
        \/ /\ o.opcode \in {"MUL", "SHL"} /\ Top \notin {o.l, o.r}
           /\ \E m \in Ends(o.l) \cup Ends(o.r) : ~IsFinite(m)
           /\ \E m \in Ends(o.l) \cup Ends(o.r) : m <= 0
        \/ o.opcode = "REM" /\ ~signed /\ o.l.lb = -Infinity
        \/ o.opcode = "ASHR" /\ o.r.ub = Infinity

InInterval(a, b) == IsBottom(a) \/ (b.lb <= a.lb /\ a.ub <= b.ub)

CallIsCovered(f, b, call) ==
    /\ block[call.callee][Entry(call.callee)].visited
    /\ LET within == block[call.callee][Entry(call.callee)].out
       IN  \A i \in DOMAIN call.args :
               LET given == Get(block[f][b].out, call.args[i])
                   seen == Get(within, Value(Params(call.callee)[i]))
               IN  InInterval(given.s, seen.s) /\ InInterval(given.u, seen.u)

IsExempt ==
    \/ HasSelfLoop \/ HasConstantFromLatch \/ HasSharedCase
    \/ HasDecidedEquality \/ HasOverflow \/ HasInfiniteBound
    \/ \E f \in Functions : \E b \in BlocksOf(f) : block[f][b].visited /\
         \E i \in ToSet(CodeOf(f, b)) :
            i.op = "call" /\ ~IsDeclaration(i.callee) /\ ~CallIsCovered(f, b, i)

-----------------------------------------------------------------------------
(* Properties                                                              *)

\* Every block that an execution comes to has been visited, and the values it
\* has there are in the intervals.  (The checkers trust both: what has not been
\* visited, and what is within its bounds, is not a defect.)
ExecutionsAreCovered ==
    Ended /\ ~aborted /\ ~IsExempt =>
    \A frames \in Executions :
        LET frame == Last(frames)
            found == block[frame.func][frame.block]
        IN  frame.next > Len(CodeOf(frame.func, frame.block)) =>
                /\ found.visited
                /\ \A x \in DOMAIN frame.env :
                      \/ x \in DOMAIN found.out.ints /\ Covers(found.out.ints[x], frame.env[x])
                      \/ x \in DOMAIN found.out.bools /\ Has(found.out.bools[x], frame.env[x])

\* The work list runs empty: a loop is left after its values were widened.
InterpretationEnds == <>Ended

\* "if arguments and globals are not changed, then this function don't need to
\* be reinterpreted": what a call passes is within what was interpreted.
UnchangedCallsAreCovered ==
    Ended /\ ~aborted =>
        \A f \in Functions : \A b \in BlocksOf(f) : block[f][b].visited =>
            \A i \in ToSet(CodeOf(f, b)) :
                i.op = "call" /\ ~IsDeclaration(i.callee) /\ i.callee # f => CallIsCovered(f, b, i)
=============================================================================
