-------------------------- MODULE InterpreterProofs -------------------------
(***************************************************************************)
(* What TLAPS proves of the abstract interpreter, for all programs that    *)
(* LLVM's verifier accepts: how the stack, the queues and the states of    *)
(* the blocks fit together, however calls and loops are nested.            *)
(***************************************************************************)
EXTENDS AbstractInterpreter, FiniteSetTheorems, SequenceTheorems, WellFoundedInduction, TLAPS

Code(f) == program.functions[f]

\* A state that knows nothing but values of the function.
IsState(fn, s) ==
    /\ s = [ints |-> s.ints, bools |-> s.bools]
    /\ \A x \in DOMAIN s.ints : IsOperand(fn, x)

IsBlock(fn, r) ==
    /\ r = [x \in {"in", "out", "changed", "fixpoint", "visited"} |-> r[x]]
    /\ IsState(fn, r.in)
    /\ IsState(fn, r.out)

FuncTypes ==
    /\ DOMAIN func = Functions
    /\ \A f \in Functions :
         /\ func[f] = [x \in {"args", "in", "out"} |-> func[f][x]]
         /\ IsState(Code(f), func[f].in)

\* A function on the blocks of every function.
AreBlocks(blocks) ==
    /\ DOMAIN blocks = Functions
    /\ \A f \in Functions :
         /\ blocks[f] = [b \in BlocksOf(f) |-> blocks[f][b]]
         /\ \A b \in BlocksOf(f) : IsBlock(Code(f), blocks[f][b])

BlockTypes == AreBlocks(block)

AllBlocks == UNION {BlocksOf(f) : f \in Functions}
Frames == [func : Functions, queue : Seq(AllBlocks), next : Nat]

\* The queue of a frame has blocks of its function, each of them once.
IsFrame(r) ==
    /\ r \in Frames
    /\ ToSet(r.queue) \subseteq BlocksOf(r.func)
    /\ IsInjective(r.queue)

\* A frame that waits is at the call it waits for.
IsWaiting(r) ==
    /\ r.queue # <<>>
    /\ r.next \in DOMAIN CodeOf(r.func, Head(r.queue))

StackTypes ==
    /\ stack \in Seq(Frames)
    /\ \A i \in 1 .. Len(stack) :
         /\ IsFrame(stack[i])
         /\ i # Len(stack) => IsWaiting(stack[i])
    /\ \A i, j \in 1 .. Len(stack) : stack[i].func = stack[j].func => i = j

\* The block that is being visited in some frame.
Begun(f, b) ==
    \E i \in 1 .. Len(stack) :
        /\ stack[i].func = f
        /\ stack[i].queue # <<>>
        /\ Head(stack[i].queue) = b
        /\ stack[i].next > 0

\* A block that was not visited has no output unless it is being visited, and
\* only a visited one is at a fixpoint.
VisitTypes ==
    \A f \in Functions : \A b \in BlocksOf(f) :
        /\ block[f][b].fixpoint => block[f][b].visited
        /\ ~block[f][b].visited => block[f][b].out = NoState \/ Begun(f, b)

InterpreterInv ==
    /\ program \in Programs
    /\ todo \in Seq(Functions)
    /\ FuncTypes
    /\ BlockTypes
    /\ StackTypes
    /\ VisitTypes
-----------------------------------------------------------------------------
(* The stack                                                               *)

\* What of a state does not change as long as the program does not.
LEMMA SameProgram ==
    ASSUME UNCHANGED program
    PROVE  /\ Functions' = Functions /\ Frames' = Frames
           /\ \A f : BlocksOf(f)' = BlocksOf(f) /\ Code(f)' = Code(f)
           /\ \A f, b : CodeOf(f, b)' = CodeOf(f, b)
           /\ \A r : (IsFrame(r)' <=> IsFrame(r)) /\ (IsWaiting(r)' <=> IsWaiting(r))
  BY DEF Functions, Frames, AllBlocks, BlocksOf, Code, CodeOf, IsFrame, IsWaiting

\* The frame on top goes on.
LEMMA ReplaceTop ==
    ASSUME StackTypes, stack # <<>>, UNCHANGED program, NEW r, IsFrame(r),
           r.func = stack[Len(stack)].func,
           stack' = [stack EXCEPT ![Len(stack)] = r]
    PROVE  StackTypes'
<1>1. stack \in Seq(Frames) /\ r \in Frames /\ Len(stack) \in Nat /\ Len(stack) \in 1 .. Len(stack)
  BY DEF StackTypes, IsFrame
<1>2. stack' \in Seq(Frames) /\ Len(stack') = Len(stack)
  BY ONLY <1>1, stack' = [stack EXCEPT ![Len(stack)] = r]
<1>3. \A i \in 1 .. Len(stack) : stack'[i] = IF i = Len(stack) THEN r ELSE stack[i]
  BY ONLY <1>1, stack' = [stack EXCEPT ![Len(stack)] = r]
<1>4. \A i \in 1 .. Len(stack) : stack'[i].func = stack[i].func
  BY ONLY <1>3, r.func = stack[Len(stack)].func, Zenon
<1>5. \A i \in 1 .. Len(stack) : IsFrame(stack'[i]) /\ (i # Len(stack) => IsWaiting(stack'[i]))
  BY <1>3, Zenon DEF StackTypes
<1>6. \A i, j \in 1 .. Len(stack) : stack'[i].func = stack'[j].func => i = j
  BY <1>4, Zenon DEF StackTypes
<1> QED
  BY <1>2, <1>5, <1>6, SameProgram, Zenon DEF StackTypes

\* A function is called that is not being interpreted.
LEMMA PushFrame ==
    ASSUME StackTypes, UNCHANGED program, NEW r, IsFrame(r),
           stack # <<>> => IsWaiting(stack[Len(stack)]),
           \A i \in 1 .. Len(stack) : stack[i].func # r.func,
           stack' = Append(stack, r)
    PROVE  StackTypes'
<1>1. stack \in Seq(Frames) /\ r \in Frames /\ Len(stack) \in Nat
  BY DEF StackTypes, IsFrame
<1>2. stack' \in Seq(Frames) /\ Len(stack') = Len(stack) + 1
  BY ONLY <1>1, stack' = Append(stack, r)
<1>3. /\ stack'[Len(stack) + 1] = r
      /\ \A i \in 1 .. Len(stack) : stack'[i] = stack[i]
  BY ONLY <1>1, stack' = Append(stack, r)
<1>4. /\ \A i \in 1 .. Len(stack') : i = Len(stack) + 1 \/ i \in 1 .. Len(stack)
      /\ \A i \in 1 .. Len(stack) : i # Len(stack) + 1
      /\ \A i \in 1 .. Len(stack) : i = Len(stack) => stack # <<>>
  BY ONLY <1>1, <1>2
<1>5. \A i \in 1 .. Len(stack) : IsFrame(stack[i]) /\ IsWaiting(stack[i])
  BY <1>4, Zenon DEF StackTypes
<1>6. \A i \in 1 .. Len(stack') : IsFrame(stack'[i]) /\ (i # Len(stack') => IsWaiting(stack'[i]))
  BY ONLY IsFrame(r), <1>2, <1>3, <1>4, <1>5, Zenon
<1>7. ASSUME NEW i \in 1 .. Len(stack'), NEW j \in 1 .. Len(stack'), stack'[i].func = stack'[j].func
      PROVE  i = j
  <2>1. CASE i \in 1 .. Len(stack) /\ j \in 1 .. Len(stack)
    BY <1>3, <1>7, <2>1, Zenon DEF StackTypes
  <2>2. CASE i = Len(stack) + 1 \/ j = Len(stack) + 1
    BY <1>3, <1>4, <1>7, <2>2, Zenon
  <2> QED
    BY ONLY i \in 1 .. Len(stack'), j \in 1 .. Len(stack'), <1>4, <2>1, <2>2, Zenon
<1> QED
  BY <1>2, <1>6, <1>7, SameProgram, Zenon DEF StackTypes

\* The top frame goes and the one below it is replaced.
LEMMA PoppedStack ==
    ASSUME StackTypes, Len(stack) > 1, NEW r \in Frames,
           stack' = Append(SubSeq(stack, 1, Len(stack) - 2), r)
    PROVE  /\ stack' \in Seq(Frames) /\ Len(stack') = Len(stack) - 1
           /\ Len(stack) - 1 \in 1 .. Len(stack')
           /\ stack'[Len(stack) - 1] = r
           /\ \A i \in 1 .. Len(stack) : i # Len(stack) /\ i # Len(stack) - 1 =>
                  i \in 1 .. Len(stack') /\ stack'[i] = stack[i]
<1> DEFINE l == Len(stack) - 1
<1>1. stack \in Seq(Frames) /\ r \in Frames /\ l \in 1 .. Len(stack) /\ l # Len(stack)
  BY DEF StackTypes
<1> DEFINE rest == SubSeq(stack, 1, Len(stack) - 2)
<1>2. /\ rest \in Seq(Frames) /\ Len(rest) = l - 1
      /\ \A i \in 1 .. l : i # l => rest[i] = stack[i]
  <2>1. \A i \in 1 .. Len(stack) - 2 : stack[i] \in Frames
    BY ONLY <1>1
  <2>2. Len(stack) - 2 \in Int /\ 1 \in Int
    BY ONLY <1>1
  <2>3. /\ rest \in Seq(Frames)
        /\ \A i \in 1 .. (Len(stack) - 2) - 1 + 1 : rest[i] = stack[1 + i - 1]
    BY ONLY <2>1, <2>2, SubSeqProperties
  <2>4. /\ Len(stack) \in Nat /\ Len(stack) > 1
        /\ \A i \in 1 .. l : i # l => i \in 1 .. (Len(stack) - 2) - 1 + 1 /\ 1 + i - 1 = i
    BY ONLY <1>1
  <2>5. Len(rest) = l - 1
    <3> DEFINE n == Len(stack) - 2
    <3>1. Len(rest) = IF 1 <= n THEN n - 1 + 1 ELSE 0
      BY ONLY <2>1, <2>2, SubSeqProperties
    <3>2. n \in Nat /\ l = n + 1
      BY ONLY <2>4
    <3> HIDE DEF rest, n, l
    <3> QED
      BY ONLY <3>1, <3>2
  <2> HIDE DEF rest
  <2>6. \A i \in 1 .. l : i # l => rest[i] = stack[i]
    BY ONLY <2>3, <2>4
  <2> QED
    BY ONLY <2>3, <2>5, <2>6
<1> HIDE DEF rest
<1>3. /\ stack' \in Seq(Frames) /\ Len(stack') = l
      /\ \A i \in 1 .. l : stack'[i] = IF i = l THEN r ELSE stack[i]
  <2>1. stack' = Append(rest, r)
    BY ONLY stack' = Append(SubSeq(stack, 1, Len(stack) - 2), r) DEF rest
  <2> QED
    BY ONLY <1>1, <1>2, <2>1
<1> QED
  BY ONLY <1>1, <1>3

\* A function has returned: its caller goes on.
LEMMA PopFrame ==
    ASSUME StackTypes, Len(stack) > 1, UNCHANGED program, NEW r, IsFrame(r),
           r.func = stack[Len(stack) - 1].func,
           stack' = Append(SubSeq(stack, 1, Len(stack) - 2), r)
    PROVE  StackTypes'
<1> DEFINE l == Len(stack) - 1
<1>1. stack \in Seq(Frames) /\ r \in Frames /\ l \in 1 .. Len(stack) /\ l # Len(stack)
  BY DEF StackTypes, IsFrame
<1>2. /\ stack' \in Seq(Frames) /\ Len(stack') = l
      /\ stack'[l] = r
      /\ \A i \in 1 .. Len(stack) : i # Len(stack) /\ i # l => stack'[i] = stack[i]
  BY <1>1, PoppedStack
<1>3. \A i \in 1 .. l : stack'[i] = IF i = l THEN r ELSE stack[i]
  BY ONLY <1>1, <1>2
<1>4. \A i \in 1 .. l : i \in 1 .. Len(stack) /\ i # Len(stack)
  BY ONLY <1>1
<1> HIDE DEF l
<1>5. \A i \in 1 .. l : stack'[i].func = stack[i].func
  BY <1>3, Zenon DEF l
<1>6. \A i \in 1 .. l : IsFrame(stack'[i]) /\ (i # l => IsWaiting(stack'[i]))
  BY <1>3, <1>4, Zenon DEF StackTypes
<1>7. \A i, j \in 1 .. l : stack'[i].func = stack'[j].func => i = j
  BY <1>4, <1>5, Zenon DEF StackTypes
<1> QED
  BY <1>2, <1>6, <1>7, SameProgram, Zenon DEF StackTypes
-----------------------------------------------------------------------------
(* States and blocks                                                       *)

\* No state knows nothing but values of the function, however it came about:
LEMMA NewState == \A fn : IsState(fn, NoState)
  BY DEF IsState, NoState

\* by an assignment,
LEMMA AssignState ==
    ASSUME NEW fn, NEW s, IsState(fn, s), NEW x, IsOperand(fn, x), NEW d
    PROVE  IsState(fn, Assign(s, x, d))
<1>1. s = [ints |-> s.ints, bools |-> s.bools]
  BY DEF IsState
<1>2. Assign(s, x, d) = [ints |-> With(s.ints, x, d), bools |-> s.bools]
  BY ONLY <1>1 DEF Assign
<1>3. DOMAIN With(s.ints, x, d) = DOMAIN s.ints \cup {x}
  BY ONLY TRUE DEF With
<1> QED
  BY <1>2, <1>3 DEF IsState

\* by an assignment of a condition,
LEMMA AssignBoolState ==
    ASSUME NEW fn, NEW s, IsState(fn, s), NEW x, NEW d
    PROVE  IsState(fn, AssignBool(s, x, d))
<1>1. s = [ints |-> s.ints, bools |-> s.bools]
  BY DEF IsState
<1>2. AssignBool(s, x, d) = [ints |-> s.ints, bools |-> With(s.bools, x, d)]
  BY ONLY <1>1 DEF AssignBool
<1> QED
  BY <1>2 DEF IsState

\* by a join,
LEMMA JoinState ==
    ASSUME NEW fn, NEW s, IsState(fn, s), NEW t, IsState(fn, t)
    PROVE  IsState(fn, JoinWith(s, t))
<1>1. DOMAIN Merged(s.ints, t.ints, JoinInts) = DOMAIN s.ints \cup DOMAIN t.ints
  BY ONLY TRUE DEF Merged
<1>2. \A x \in DOMAIN s.ints \cup DOMAIN t.ints : IsOperand(fn, x)
  BY DEF IsState
<1>3. /\ JoinWith(s, t).ints = Merged(s.ints, t.ints, JoinInts)
      /\ JoinWith(s, t) = [ints |-> JoinWith(s, t).ints, bools |-> JoinWith(s, t).bools]
  BY ONLY TRUE DEF JoinWith
<1> QED
  BY <1>1, <1>2, <1>3, Zenon DEF IsState

\* by a constraint,
LEMMA ConstrainState ==
    ASSUME NEW fn, NEW s, IsState(fn, s), NEW op \in DOMAIN Negation,
           NEW x, IsOperand(fn, x), NEW y, IsOperand(fn, y)
    PROVE  IsState(fn, Constrain(s, op, x, y))
<1>1. \A d, e : IsState(fn, Assign(Assign(s, x, d), y, e))
  BY AssignState
<1>2. op \in {"EQ", "NEQ", "LT", "GE", "GT", "LE"}
  BY DEF Negation
<1>3. CASE op = "EQ"
  BY <1>1, <1>3 DEF Constrain
<1>4. CASE op = "NEQ"
  BY <1>1, <1>4 DEF Constrain
<1>5. CASE op \in {"GT", "GE"}
  BY <1>1, <1>5 DEF Constrain
<1>6. CASE op \in {"LT", "LE"}
  BY <1>1, <1>6 DEF Constrain
<1> QED
  BY <1>2, <1>3, <1>4, <1>5, <1>6
\* by a constraint on the operands of a condition.
LEMMA NarrowState ==
    ASSUME NEW fn, NEW s, IsState(fn, s), NEW op \in DOMAIN Negation,
           NEW cmp, IsOperand(fn, cmp.l), IsOperand(fn, cmp.r)
    PROVE  IsState(fn, Narrow(s, cmp, op))
  BY ConstrainState, Zenon DEF Narrow

LEMMA NewBlocks == \A fn : IsBlock(fn, NewBlock)
  BY NewState DEF IsBlock, NewBlock

\* A block of which some parts are replaced.
LEMMA BlockParts ==
    ASSUME NEW fn, NEW r, IsBlock(fn, r), NEW s, IsState(fn, s), NEW c, NEW p
    PROVE  /\ IsBlock(fn, [r EXCEPT !.in = s, !.changed = c])
           /\ IsBlock(fn, [r EXCEPT !.fixpoint = p, !.changed = c])
           /\ IsBlock(fn, [r EXCEPT !.fixpoint = p])
           /\ IsBlock(fn, [r EXCEPT !.out = s])
           /\ IsBlock(fn, [r EXCEPT !.visited = p])
<1> DEFINE fields == {"in", "out", "changed", "fixpoint", "visited"}
<1>1. r = [x \in fields |-> r[x]] /\ IsState(fn, r.in) /\ IsState(fn, r.out)
  BY DEF IsBlock
<1>2. IsBlock(fn, [r EXCEPT !.in = s, !.changed = c])
  BY <1>1 DEF IsBlock
<1>3. IsBlock(fn, [r EXCEPT !.fixpoint = p, !.changed = c])
  BY <1>1 DEF IsBlock
<1>4. IsBlock(fn, [r EXCEPT !.fixpoint = p])
  BY <1>1 DEF IsBlock
<1>5. IsBlock(fn, [r EXCEPT !.out = s])
  BY <1>1 DEF IsBlock
<1>6. IsBlock(fn, [r EXCEPT !.visited = p])
  BY <1>1 DEF IsBlock
<1> QED
  BY ONLY <1>2, <1>3, <1>4, <1>5, <1>6

\* Blocks stay blocks, and their inputs have no say in what has been visited.
LEMMA MergedBlock ==
    ASSUME NEW fn, NEW r, IsBlock(fn, r), NEW s, IsState(fn, s)
    PROVE  /\ IsBlock(fn, mergeToInput(r, s))
           /\ mergeToInput(r, s).out = r.out
           /\ mergeToInput(r, s).visited = r.visited
           /\ mergeToInput(r, s).fixpoint = r.fixpoint
<1>1. IsState(fn, JoinWith(r.in, s))
  BY JoinState, Zenon DEF IsBlock
<1>2. IsBlock(fn, mergeToInput(r, s))
  BY ONLY IsBlock(fn, r), <1>1, BlockParts, Zenon DEF mergeToInput
<1> QED
  BY <1>2 DEF IsBlock, mergeToInput

LEMMA AddedBlock ==
    ASSUME NEW fn, NEW r, IsBlock(fn, r), NEW x, IsOperand(fn, x), NEW d
    PROVE  /\ IsBlock(fn, addToInput(r, x, d))
           /\ addToInput(r, x, d).out = r.out
           /\ addToInput(r, x, d).visited = r.visited
           /\ addToInput(r, x, d).fixpoint = r.fixpoint
<1>1. IsState(fn, Assign(r.in, x, d))
  BY AssignState, Zenon DEF IsBlock
<1>2. IsBlock(fn, addToInput(r, x, d))
  BY ONLY IsBlock(fn, r), <1>1, BlockParts, Zenon DEF addToInput
<1> QED
  BY <1>2 DEF IsBlock, addToInput

\* atFixpoint: a block that is neither visited nor has an output is not.
LEMMA SettledBlock ==
    ASSUME NEW fn, NEW r, IsBlock(fn, r)
    PROVE  /\ IsBlock(fn, Settled(r))
           /\ Settled(r).out = r.out
           /\ Settled(r).visited = r.visited
           /\ r.out = NoState /\ ~r.visited => ~Settled(r).fixpoint
<1>1. IsBlock(fn, Settled(r))
  <2>1. /\ IsBlock(fn, [r EXCEPT !.fixpoint = FALSE])
        /\ IsBlock(fn, [r EXCEPT !.fixpoint = (r.out = r.in), !.changed = FALSE])
    BY ONLY IsBlock(fn, r), NewState, BlockParts, Zenon
  <2> QED
    BY ONLY IsBlock(fn, r), <2>1, Zenon DEF Settled
<1> QED
  BY <1>1 DEF IsBlock, Settled
LEMMA VisitedBlock ==
    ASSUME NEW fn, NEW r, IsBlock(fn, r)
    PROVE  IsBlock(fn, [r EXCEPT !.visited = TRUE]) /\ [r EXCEPT !.visited = TRUE].visited
<1>1. IsBlock(fn, [r EXCEPT !.visited = TRUE])
  BY ONLY IsBlock(fn, r), BlockParts, NewState, Zenon
<1>2. r = [x \in {"in", "out", "changed", "fixpoint", "visited"} |-> r[x]]
  BY Zenon DEF IsBlock
<1>3. [r EXCEPT !.visited = TRUE].visited
  BY ONLY <1>2, SMTT(30)
<1> QED
  BY ONLY <1>1, <1>3

-----------------------------------------------------------------------------
(* All the blocks                                                          *)

\* What a step may leave as it was: which blocks have been visited and which
\* are at a fixpoint, and the outputs, but for that of one block.
Follows(old, new, f, b) ==
    \A g \in Functions : \A c \in BlocksOf(g) :
        /\ new[g][c].visited = old[g][c].visited
        /\ new[g][c].fixpoint = old[g][c].fixpoint
        /\ new[g][c].out = old[g][c].out \/ (g = f /\ c = b)

SameVisits(old, new) ==
    \A g \in Functions : \A c \in BlocksOf(g) :
        /\ new[g][c].visited = old[g][c].visited
        /\ new[g][c].fixpoint = old[g][c].fixpoint
        /\ new[g][c].out = old[g][c].out

LEMMA ReplaceBlock ==
    ASSUME NEW blocks, AreBlocks(blocks), NEW f \in Functions, NEW b \in BlocksOf(f),
           NEW r, IsBlock(Code(f), r)
    PROVE  /\ AreBlocks([blocks EXCEPT ![f][b] = r])
           /\ \A g \in Functions : \A c \in BlocksOf(g) :
                [blocks EXCEPT ![f][b] = r][g][c] = IF g = f /\ c = b THEN r ELSE blocks[g][c]
<1> DEFINE new == [blocks EXCEPT ![f][b] = r]
<1>1. /\ DOMAIN blocks = Functions
      /\ \A g \in Functions : blocks[g] = [c \in BlocksOf(g) |-> blocks[g][c]]
      /\ \A g \in Functions : \A c \in BlocksOf(g) : IsBlock(Code(g), blocks[g][c])
  BY Zenon DEF AreBlocks
<1>2. DOMAIN new = Functions
  BY <1>1
<1>3. \A g \in Functions : new[g] = IF g = f THEN [blocks[f] EXCEPT ![b] = r] ELSE blocks[g]
  BY <1>1
<1>4. \A g \in Functions : new[g] = [c \in BlocksOf(g) |-> new[g][c]]
  BY <1>1, <1>3
<1>5. \A g \in Functions : \A c \in BlocksOf(g) :
        new[g][c] = IF g = f /\ c = b THEN r ELSE blocks[g][c]
  BY <1>1, <1>3
<1> HIDE DEF new
<1>6. \A g \in Functions : \A c \in BlocksOf(g) : IsBlock(Code(g), new[g][c])
  <2> TAKE g \in Functions
  <2> TAKE c \in BlocksOf(g)
  <2>1. IsBlock(Code(g), blocks[g][c]) /\ new[g][c] = IF g = f /\ c = b THEN r ELSE blocks[g][c]
    BY ONLY <1>1, <1>5, g \in Functions, c \in BlocksOf(g), Zenon
  <2> QED
    BY ONLY <2>1, IsBlock(Code(f), r), Zenon
<1>7. AreBlocks(new)
  BY <1>2, <1>4, <1>6, Zenon DEF AreBlocks
<1> QED
  BY <1>5, <1>7, Zenon DEF new

\* A value is assigned in a block.
LEMMA ReplaceOut ==
    ASSUME NEW blocks, AreBlocks(blocks), NEW f \in Functions, NEW b \in BlocksOf(f),
           NEW s, IsState(Code(f), s)
    PROVE  /\ AreBlocks([blocks EXCEPT ![f][b].out = s])
           /\ Follows(blocks, [blocks EXCEPT ![f][b].out = s], f, b)
<1> DEFINE r == [blocks[f][b] EXCEPT !.out = s]
           new == [blocks EXCEPT ![f][b] = r]
<1>1. IsBlock(Code(f), blocks[f][b])
  BY Zenon DEF AreBlocks
<1>2. IsBlock(Code(f), r) /\ r.visited = blocks[f][b].visited /\ r.fixpoint = blocks[f][b].fixpoint
  BY <1>1, BlockParts DEF IsBlock
<1>3. [blocks EXCEPT ![f][b].out = s] = new
  OBVIOUS
<1> HIDE DEF r
<1>4. /\ AreBlocks(new)
      /\ \A g \in Functions : \A c \in BlocksOf(g) :
           new[g][c] = IF g = f /\ c = b THEN r ELSE blocks[g][c]
  BY ONLY AreBlocks(blocks), f \in Functions, b \in BlocksOf(f), <1>2, ReplaceBlock
<1> HIDE DEF new
<1>5. Follows(blocks, new, f, b)
  BY <1>2, <1>4, Zenon DEF Follows
<1> QED
  BY ONLY <1>3, <1>4, <1>5

\* A function is given its arguments.
LEMMA UpdateBlocks ==
    ASSUME program \in Programs, BlockTypes, NEW f \in Functions, NEW s, IsState(Code(f), s)
    PROVE  AreBlocks(UpdatedBlocks(f, s)) /\ SameVisits(block, UpdatedBlocks(f, s))
<1>1. Entry(f) \in BlocksOf(f)
  BY ProgramsAssumption DEF IsFunction, Entry, BlocksOf, Functions
<1> DEFINE r == mergeToInput(block[f][Entry(f)], s)
           new == [block EXCEPT ![f][Entry(f)] = r]
<1>2. IsBlock(Code(f), block[f][Entry(f)])
  BY <1>1, Zenon DEF BlockTypes, AreBlocks
<1>3. /\ IsBlock(Code(f), r) /\ r.out = block[f][Entry(f)].out
      /\ r.visited = block[f][Entry(f)].visited /\ r.fixpoint = block[f][Entry(f)].fixpoint
  BY <1>2, MergedBlock
<1>4. UpdatedBlocks(f, s) = IF Params(f) = <<>> THEN block ELSE new
  BY DEF UpdatedBlocks
<1> HIDE DEF r
<1>5. /\ AreBlocks(new)
      /\ \A h \in Functions : \A c \in BlocksOf(h) :
           new[h][c] = IF h = f /\ c = Entry(f) THEN r ELSE block[h][c]
  BY <1>1, <1>3, ReplaceBlock DEF BlockTypes
<1> HIDE DEF new
<1>6. SameVisits(block, new) /\ SameVisits(block, block)
  BY <1>3, <1>5, Zenon DEF SameVisits
<1> QED
  BY <1>4, <1>5, <1>6, Zenon DEF BlockTypes

\* A call has its result.
LEMMA ResultBlocks ==
    ASSUME NEW blocks, AreBlocks(blocks), NEW f \in Functions, NEW b \in BlocksOf(f),
           NEW x, IsOperand(Code(f), x), NEW callee
    PROVE  /\ AreBlocks(WithResult(blocks, f, b, x, callee))
           /\ Follows(blocks, WithResult(blocks, f, b, x, callee), f, b)
<1> DEFINE s(d) == Assign(blocks[f][b].out, x, d)
<1>1. IsState(Code(f), blocks[f][b].out)
  BY Zenon DEF AreBlocks, IsBlock
<1>2. \A d : IsState(Code(f), s(d))
  BY <1>1, AssignState
<1>3. \A d : [blocks EXCEPT ![f][b].out = Assign(@, x, d)] = [blocks EXCEPT ![f][b].out = s(d)]
  OBVIOUS
<1> HIDE DEF s
<1>4. \A d : /\ AreBlocks([blocks EXCEPT ![f][b].out = s(d)])
             /\ Follows(blocks, [blocks EXCEPT ![f][b].out = s(d)], f, b)
  BY <1>2, ReplaceOut
<1>5. Follows(blocks, blocks, f, b)
  BY DEF Follows
<1> QED
  BY <1>3, <1>4, <1>5 DEF WithResult
-----------------------------------------------------------------------------
(* Functions, and where the interpreter stands                             *)

LEMMA Verified ==
    ASSUME program \in Programs, NEW f \in Functions
    PROVE  /\ IsFunction(Code(f))
           /\ Entry(f) \in BlocksOf(f)
           /\ IsFiniteSet(BlocksOf(f))
           /\ \A i \in CodeIn(Code(f)) : i.op = "call" => IsCall(program, i)
           /\ \A i \in CodeIn(Code(f)) : IsOperand(Code(f), i.def)
           /\ \A p \in ToSet(Params(f)) : IsOperand(Code(f), Value(p))
<1>1. /\ IsFunction(Code(f))
      /\ \A i \in CodeIn(Code(f)) : i.op = "call" => IsCall(program, i)
  BY ProgramsAssumption, Zenon DEF Functions, Code
<1>2. Entry(f) \in BlocksOf(f) /\ IsFiniteSet(BlocksOf(f))
  BY <1>1, Zenon DEF IsFunction, Entry, BlocksOf, Code
<1>3. Params(f) = Code(f).params
  BY DEF Params, Code
<1>4. /\ \A i \in CodeIn(Code(f)) : i.def \in ValuesIn(Code(f))
      /\ \A p \in ToSet(Params(f)) : Value(p) \in ValuesIn(Code(f))
  BY <1>3, Zenon DEF ValuesIn
<1> QED
  BY <1>1, <1>2, <1>4, Zenon DEF IsOperand

LEMMA InputState ==
    ASSUME program \in Programs, FuncTypes, NEW f \in Functions,
           NEW args, DOMAIN args = DOMAIN Params(f)
    PROVE  IsState(Code(f), UpdatedInput(f, args))
<1> DEFINE params == [i \in DOMAIN args |-> Value(Params(f)[i])]
           given == [x \in ToSet(params) |-> GivenArgs(f, args)[CHOOSE i \in DOMAIN args : params[i] = x]]
           join(d, e) == e
           ints == Merged(func[f].in.ints, given, join)
<1>1. IsState(Code(f), func[f].in)
  BY Zenon DEF FuncTypes
<1>2. func[f].in = [ints |-> func[f].in.ints, bools |-> func[f].in.bools]
  BY <1>1, Zenon DEF IsState
<1>3. UpdatedInput(f, args) = [func[f].in EXCEPT !.ints = ints]
  BY DEF UpdatedInput
<1>4. DOMAIN ints = DOMAIN func[f].in.ints \cup ToSet(params)
  BY DEF Merged
<1>5. ASSUME NEW x \in ToSet(params)
      PROVE  IsOperand(Code(f), x)
  <2>1. PICK i \in DOMAIN args : x = Value(Params(f)[i])
    BY <1>5 DEF ToSet
  <2>2. Params(f)[i] \in ToSet(Params(f))
    BY Zenon DEF ToSet
  <2> QED
    BY <2>1, <2>2, Verified, Zenon
<1> HIDE DEF ints, params
<1>6. /\ UpdatedInput(f, args) = [ints |-> UpdatedInput(f, args).ints, bools |-> UpdatedInput(f, args).bools]
      /\ UpdatedInput(f, args).ints = ints
  BY ONLY <1>2, <1>3
<1>7. \A x \in DOMAIN ints : IsOperand(Code(f), x)
  BY <1>1, <1>4, <1>5, Zenon DEF IsState
<1> QED
  BY <1>6, <1>7, Zenon DEF IsState

LEMMA UpdateFunctions ==
    ASSUME FuncTypes, NEW f \in Functions, NEW args, NEW input, IsState(Code(f), input),
           UNCHANGED program, func' = UpdatedFunctions(f, args, input)
    PROVE  FuncTypes'
<1>1. /\ DOMAIN func = Functions
      /\ \A g \in Functions : func[g] = [x \in {"args", "in", "out"} |-> func[g][x]]
      /\ \A g \in Functions : IsState(Code(g), func[g].in)
  BY Zenon DEF FuncTypes
<1>2. DOMAIN func' = Functions
  BY <1>1 DEF UpdatedFunctions
<1> DEFINE r == [func[f] EXCEPT !.args = NewArgs(f, args), !.in = input]
<1>3. r = [x \in {"args", "in", "out"} |-> r[x]] /\ r.in = input
  BY ONLY <1>1, f \in Functions
<1>4. \A g \in Functions : func'[g] = IF g = f THEN r ELSE func[g]
  BY ONLY <1>1, func' = UpdatedFunctions(f, args, input), f \in Functions DEF UpdatedFunctions
<1> HIDE DEF r
<1>5. ASSUME NEW g \in Functions
      PROVE  /\ func'[g] = [x \in {"args", "in", "out"} |-> func'[g][x]]
             /\ IsState(Code(g), func'[g].in)
  <2>1. CASE g = f
    <3>1. func'[g] = r
      BY ONLY <1>4, <2>1, g \in Functions, Zenon
    <3>2. func'[g] = [x \in {"args", "in", "out"} |-> func'[g][x]]
      BY ONLY <1>3, <3>1
    <3>3. IsState(Code(g), func'[g].in)
      BY ONLY IsState(Code(f), input), <1>3, <2>1, <3>1, Zenon
    <3> QED
      BY ONLY <3>2, <3>3
  <2>2. CASE g # f
    <3>1. func'[g] = func[g]
      BY ONLY <1>4, <2>2, g \in Functions, Zenon
    <3>2. func'[g] = [x \in {"args", "in", "out"} |-> func'[g][x]]
      BY ONLY <1>1, <3>1, g \in Functions
    <3>3. IsState(Code(g), func'[g].in)
      BY ONLY <1>1, <3>1, g \in Functions, Zenon
    <3> QED
      BY ONLY <3>2, <3>3
  <2> QED
    BY ONLY <2>1, <2>2
<1>6. \A g \in Functions : func'[g] = [x \in {"args", "in", "out"} |-> func'[g][x]]
  BY ONLY <1>5
<1>7. \A g \in Functions : IsState(Code(g), func'[g].in)
  BY ONLY <1>5, Zenon
<1> QED
  BY ONLY <1>2, <1>6, <1>7, UNCHANGED program, SameProgram, Zenon DEF FuncTypes

\* The frame that is interpreted.
LEMMA Running ==
    ASSUME InterpreterInv, stack # <<>>
    PROVE  /\ Context = stack[Len(stack)]
           /\ Len(stack) \in 1 .. Len(stack)
           /\ IsFrame(Context)
           /\ CurrentFunction \in Functions
           /\ Context.queue \in Seq(AllBlocks)
           /\ Context.next \in Nat
           /\ Context.queue # <<>> => CurrentBlock \in BlocksOf(CurrentFunction)
<1>1. Len(stack) \in 1 .. Len(stack) /\ Context = stack[Len(stack)]
  BY DEF InterpreterInv, StackTypes, Context, Last
<1>2. IsFrame(Context)
  BY <1>1, Zenon DEF InterpreterInv, StackTypes
<1>3. CurrentFunction \in Functions /\ Context.queue \in Seq(AllBlocks) /\ Context.next \in Nat
  BY <1>2 DEF IsFrame, Frames, CurrentFunction
<1>4. ASSUME Context.queue # <<>>
      PROVE  CurrentBlock \in BlocksOf(CurrentFunction)
  <2>1. CurrentBlock \in ToSet(Context.queue)
    BY <1>3, <1>4 DEF CurrentBlock, ToSet
  <2> QED
    BY <1>2, <2>1 DEF IsFrame, CurrentFunction
<1> QED
  BY ONLY <1>1, <1>2, <1>3, <1>4

\* The instruction that is visited.
LEMMA Visiting ==
    ASSUME InterpreterInv, NEW op, AtInstruction(op)
    PROVE  /\ stack # <<>> /\ Context.queue # <<>>
           /\ Context.next \in DOMAIN CodeOf(CurrentFunction, CurrentBlock)
           /\ Instruction.op = op
           /\ Instruction \in CodeIn(Code(CurrentFunction))
           /\ IsOperand(Code(CurrentFunction), Instruction.def)
<1>1. /\ stack # <<>> /\ Context.queue # <<>> /\ Context.next > 0
      /\ Context.next <= Len(CodeOf(CurrentFunction, CurrentBlock))
      /\ Instruction.op = op
  BY DEF AtInstruction, InBlock, Instruction
<1>2. /\ CurrentFunction \in Functions /\ CurrentBlock \in BlocksOf(CurrentFunction)
      /\ Context.next \in Nat
  BY <1>1, Running
<1>3. IsFunction(Code(CurrentFunction))
  BY <1>2, Verified, Zenon DEF InterpreterInv
<1>4. /\ CodeOf(CurrentFunction, CurrentBlock) = Code(CurrentFunction).blocks[CurrentBlock].code
      /\ BlocksOf(CurrentFunction) = DOMAIN Code(CurrentFunction).blocks
  BY DEF CodeOf, Code, BlocksOf
<1>5. CodeOf(CurrentFunction, CurrentBlock) \in Seq(ToSet(CodeOf(CurrentFunction, CurrentBlock)))
  BY <1>2, <1>3, <1>4, Zenon DEF IsFunction
<1>6. Context.next \in DOMAIN CodeOf(CurrentFunction, CurrentBlock)
  BY ONLY <1>1, <1>2, <1>5
<1>7. Instruction \in ToSet(CodeOf(CurrentFunction, CurrentBlock))
  BY <1>6, Zenon DEF Instruction, ToSet
<1>8. Instruction \in CodeIn(Code(CurrentFunction))
  BY <1>2, <1>4, <1>7, Zenon DEF CodeIn
<1> QED
  BY <1>1, <1>2, <1>6, <1>8, Verified, Zenon DEF InterpreterInv
-----------------------------------------------------------------------------
(* Steps that do not leave a block                                         *)

LEMMA StackFacts ==
    ASSUME InterpreterInv
    PROVE  stack \in Seq(Frames) /\ Len(stack) \in Nat
  BY DEF InterpreterInv, StackTypes

\* The flags stay, and an output is written only where a block is being visited.
LEMMA KeepVisits ==
    ASSUME VisitTypes, UNCHANGED program, NEW f, NEW b,
           SameVisits(block, block') \/ (Follows(block, block', f, b) /\ Begun(f, b)'),
           \A g, c : Begun(g, c) => Begun(g, c)'
    PROVE  VisitTypes'
<1>1. \A g \in Functions : \A c \in BlocksOf(g) :
        /\ block'[g][c].visited = block[g][c].visited
        /\ block'[g][c].fixpoint = block[g][c].fixpoint
        /\ block'[g][c].out = block[g][c].out \/ Begun(g, c)'
  BY Zenon DEF Follows, SameVisits
<1>2. \A g \in Functions : \A c \in BlocksOf(g) :
        /\ block'[g][c].fixpoint => block'[g][c].visited
        /\ ~block'[g][c].visited => block'[g][c].out = NoState \/ Begun(g, c)'
  <2> TAKE g \in Functions
  <2> TAKE c \in BlocksOf(g)
  <2>1. /\ block[g][c].fixpoint => block[g][c].visited
        /\ ~block[g][c].visited => block[g][c].out = NoState \/ Begun(g, c)
    BY ONLY VisitTypes, g \in Functions, c \in BlocksOf(g), Zenon DEF VisitTypes
  <2>2. /\ block'[g][c].visited = block[g][c].visited
        /\ block'[g][c].fixpoint = block[g][c].fixpoint
        /\ block'[g][c].out = block[g][c].out \/ Begun(g, c)'
    BY ONLY <1>1, g \in Functions, c \in BlocksOf(g), Zenon
  <2> QED
    BY <2>1, <2>2, Zenon
<1> QED
  BY ONLY <1>2, UNCHANGED program, SameProgram, Zenon DEF VisitTypes

LEMMA SameBlocks ==
    ASSUME UNCHANGED program, AreBlocks(block')
    PROVE  BlockTypes'
<1>1. /\ Functions' = Functions
      /\ \A f : BlocksOf(f)' = BlocksOf(f) /\ Code(f)' = Code(f)
  BY SameProgram
<1>2. \A f \in Functions : block'[f] = [b \in BlocksOf(f)' |-> block'[f][b]]
  BY <1>1 DEF AreBlocks
<1>3. \A f \in Functions : \A b \in BlocksOf(f)' : IsBlock(Code(f)', block'[f][b])
  BY <1>1, Zenon DEF AreBlocks
<1>4. DOMAIN block' = Functions'
  BY <1>1, Zenon DEF AreBlocks
<1> QED
  BY ONLY <1>1, <1>2, <1>3, <1>4, Zenon DEF BlockTypes, AreBlocks

\* The next instruction.
LEMMA Advance ==
    ASSUME InterpreterInv, stack # <<>>, Context.queue # <<>>, UNCHANGED program,
           stack' = NextInstruction
    PROVE  /\ StackTypes'
           /\ \A f, b : Begun(f, b) => Begun(f, b)'
           /\ \A f, b : f = CurrentFunction /\ b = CurrentBlock => Begun(f, b)'
<1> DEFINE r == [Context EXCEPT !.next = @ + 1]
<1>1. /\ Len(stack) \in 1 .. Len(stack) /\ Context = stack[Len(stack)]
      /\ IsFrame(Context) /\ Context.next \in Nat
  BY Running
<1>2. Context \in Frames
  BY <1>1, Zenon DEF IsFrame
<1>3. r \in Frames /\ r.func = Context.func /\ r.queue = Context.queue /\ r.next = Context.next + 1
  BY ONLY <1>2 DEF Frames
<1>4. IsFrame(r)
  BY <1>1, <1>3, Zenon DEF IsFrame
<1>5. stack' = [stack EXCEPT ![Len(stack)] = r]
  BY <1>1 DEF NextInstruction
<1> HIDE DEF r
<1>6. StackTypes'
  BY <1>1, <1>3, <1>4, <1>5, ReplaceTop DEF InterpreterInv
<1>7. /\ Len(stack') = Len(stack)
      /\ \A i \in 1 .. Len(stack) : stack'[i] = IF i = Len(stack) THEN r ELSE stack[i]
  BY ONLY <1>1, <1>5, StackFacts, InterpreterInv
<1>8. r.next > 0
  BY ONLY <1>1, <1>3
<1>9. \A f, b : Begun(f, b) => Begun(f, b)'
  BY ONLY <1>1, <1>3, <1>7, <1>8, ZenonT(30) DEF Begun
<1>10. \A f, b : f = CurrentFunction /\ b = CurrentBlock => Begun(f, b)'
  BY ONLY Context.queue # <<>>, <1>1, <1>3, <1>7, <1>8, ZenonT(30) DEF Begun, CurrentFunction, CurrentBlock
<1> QED
  BY ONLY <1>6, <1>9, <1>10
\* An instruction writes to the output of its block and may give arguments.
LEMMA Went ==
    ASSUME InterpreterInv, stack # <<>>, Context.queue # <<>>, UNCHANGED <<program, todo>>,
           FuncTypes', stack' = NextInstruction,
           AreBlocks(block'), Follows(block, block', CurrentFunction, CurrentBlock)
    PROVE  InterpreterInv'
<1>1. UNCHANGED program /\ UNCHANGED todo
  OBVIOUS
<1>2. BlockTypes'
  BY <1>1, SameBlocks
<1>3. PICK f, b : f = CurrentFunction /\ b = CurrentBlock
  OBVIOUS
<1>4. StackTypes' /\ Begun(f, b)' /\ \A g, c : Begun(g, c) => Begun(g, c)'
  BY <1>1, <1>3, Advance
<1>5. Follows(block, block', f, b)
  BY <1>3
<1>6. VisitTypes'
  BY <1>1, <1>4, <1>5, KeepVisits DEF InterpreterInv
<1>7. program' \in Programs /\ todo' \in Seq(Functions')
  BY <1>1, SameProgram DEF InterpreterInv
<1> QED
  BY <1>2, <1>4, <1>6, <1>7, Zenon DEF InterpreterInv

LEMMA SameFunctions ==
    ASSUME FuncTypes, UNCHANGED <<program, func>>
    PROVE  FuncTypes'
<1>1. UNCHANGED program /\ UNCHANGED func
  OBVIOUS
<1>2. /\ Functions' = Functions
      /\ \A f : Code(f)' = Code(f)
  BY <1>1, SameProgram
<1>3. /\ DOMAIN func' = Functions'
      /\ \A f \in Functions' : func'[f] = [x \in {"args", "in", "out"} |-> func'[f][x]]
  BY <1>1, <1>2 DEF FuncTypes
<1>4. \A f \in Functions' : IsState(Code(f)', func'[f].in)
  BY <1>1, <1>2, Zenon DEF FuncTypes
<1> QED
  BY <1>3, <1>4, Zenon DEF FuncTypes

\* One state is replaced, that of the block that is being visited.
LEMMA Wrote ==
    ASSUME InterpreterInv, stack # <<>>, Context.queue # <<>>, UNCHANGED <<program, todo, func>>,
           stack' = NextInstruction,
           NEW s, IsState(Code(CurrentFunction), s),
           block' = [block EXCEPT ![CurrentFunction][CurrentBlock].out = s]
    PROVE  InterpreterInv'
<1>1. CurrentFunction \in Functions /\ CurrentBlock \in BlocksOf(CurrentFunction)
  BY Running
<1>2. AreBlocks(block') /\ Follows(block, block', CurrentFunction, CurrentBlock)
  BY <1>1, ReplaceOut DEF InterpreterInv, BlockTypes
<1>3. FuncTypes'
  BY SameFunctions DEF InterpreterInv
<1> QED
  BY <1>2, <1>3, Went

LEMMA CurrentState ==
    ASSUME InterpreterInv, stack # <<>>, Context.queue # <<>>
    PROVE  /\ IsState(Code(CurrentFunction), State)
           /\ IsState(Code(CurrentFunction), block[CurrentFunction][CurrentBlock].in)
<1>1. CurrentFunction \in Functions /\ CurrentBlock \in BlocksOf(CurrentFunction)
  BY Running
<1> QED
  BY <1>1, Zenon DEF InterpreterInv, BlockTypes, AreBlocks, IsBlock, State

LEMMA AssignedKeeps ==
    ASSUME InterpreterInv, NEW op, AtInstruction(op), NEW d, Assigned(d)
    PROVE  InterpreterInv'
<1>1. /\ stack # <<>> /\ Context.queue # <<>>
      /\ IsOperand(Code(CurrentFunction), Instruction.def)
  BY Visiting
<1>2. IsState(Code(CurrentFunction), Assign(State, Instruction.def, d))
  BY <1>1, CurrentState, AssignState
<1>3. /\ block' = [block EXCEPT ![CurrentFunction][CurrentBlock].out = Assign(State, Instruction.def, d)]
      /\ stack' = NextInstruction /\ UNCHANGED <<program, todo, func>>
  BY DEF Assigned, State
<1> QED
  BY <1>1, <1>2, <1>3, Wrote

LEMMA BeginBlockKeeps == ASSUME InterpreterInv, BeginBlock PROVE InterpreterInv'
<1> DEFINE s == JoinWith(State, block[CurrentFunction][CurrentBlock].in)
<1>1. /\ stack # <<>> /\ Context.queue # <<>>
      /\ stack' = NextInstruction /\ UNCHANGED <<program, todo, func>>
      /\ block' = [block EXCEPT ![CurrentFunction][CurrentBlock].out = s]
  BY DEF BeginBlock, State
<1>2. IsState(Code(CurrentFunction), s)
  BY <1>1, CurrentState, JoinState
<1> HIDE DEF s
<1> QED
  BY <1>1, <1>2, Wrote

LEMMA ICmpKeeps == ASSUME InterpreterInv, ICmp PROVE InterpreterInv'
<1> DEFINE s == AssignBool(State, Instruction.def,
                           CompareInts(Instruction.pred, Get(State, Instruction.l), Get(State, Instruction.r)))
<1>1. /\ stack # <<>> /\ Context.queue # <<>>
  BY Visiting DEF ICmp
<1>2. /\ stack' = NextInstruction /\ UNCHANGED <<program, todo, func>>
      /\ block' = [block EXCEPT ![CurrentFunction][CurrentBlock].out = s]
  BY DEF ICmp, State
<1>3. IsState(Code(CurrentFunction), s)
  BY <1>1, CurrentState, AssignBoolState
<1> HIDE DEF s
<1> QED
  BY <1>1, <1>2, <1>3, Wrote

\* The callee is up to date: it is given its arguments all the same.
LEMMA CallUnchangedKeeps == ASSUME InterpreterInv, CallUnchanged PROVE InterpreterInv'
<1> DEFINE input == UpdatedInput(Callee, Arguments)
           updated == UpdatedBlocks(Callee, input)
<1>1. AtInstruction("call") /\ Callee \in Functions
  BY DEF CallUnchanged, IsDeclaration, Functions
<1>2. /\ stack # <<>> /\ Context.queue # <<>>
      /\ Instruction.op = "call" /\ Instruction \in CodeIn(Code(CurrentFunction))
      /\ IsOperand(Code(CurrentFunction), Instruction.def)
  BY <1>1, Visiting
<1>3. CurrentFunction \in Functions /\ CurrentBlock \in BlocksOf(CurrentFunction)
  BY <1>2, Running
<1>4. DOMAIN Arguments = DOMAIN Params(Callee)
  BY <1>1, <1>2, <1>3, Verified DEF InterpreterInv, IsCall, Callee, Functions, Params, Arguments
<1>5. IsState(Code(Callee), input)
  BY <1>1, <1>4, InputState DEF InterpreterInv
<1>6. /\ func' = UpdatedFunctions(Callee, Arguments, input)
      /\ block' = WithResult(updated, CurrentFunction, CurrentBlock, Instruction.def, Callee)
      /\ stack' = NextInstruction /\ UNCHANGED <<program, todo>>
  BY DEF CallUnchanged
<1> HIDE DEF input
<1>7. FuncTypes'
  BY <1>1, <1>5, <1>6, UpdateFunctions DEF InterpreterInv
<1>8. AreBlocks(updated) /\ SameVisits(block, updated)
  BY <1>1, <1>5, UpdateBlocks DEF InterpreterInv
<1> HIDE DEF updated
<1>9. AreBlocks(block') /\ Follows(updated, block', CurrentFunction, CurrentBlock)
  BY <1>2, <1>3, <1>6, <1>8, ResultBlocks
<1>10. Follows(block, block', CurrentFunction, CurrentBlock)
  <2> SUFFICES ASSUME NEW g \in Functions, NEW c \in BlocksOf(g)
               PROVE  /\ block'[g][c].visited = block[g][c].visited
                      /\ block'[g][c].fixpoint = block[g][c].fixpoint
                      /\ block'[g][c].out = block[g][c].out \/ (g = CurrentFunction /\ c = CurrentBlock)
    BY DEF Follows
  <2>1. /\ updated[g][c].visited = block[g][c].visited
        /\ updated[g][c].fixpoint = block[g][c].fixpoint
        /\ updated[g][c].out = block[g][c].out
    BY ONLY <1>8, g \in Functions, c \in BlocksOf(g), Zenon DEF SameVisits
  <2>2. /\ block'[g][c].visited = updated[g][c].visited
        /\ block'[g][c].fixpoint = updated[g][c].fixpoint
        /\ block'[g][c].out = updated[g][c].out \/ (g = CurrentFunction /\ c = CurrentBlock)
    BY ONLY <1>9, g \in Functions, c \in BlocksOf(g), Zenon DEF Follows
  <2> QED
    BY ONLY <2>1, <2>2, Zenon
<1> QED
  BY <1>2, <1>6, <1>7, <1>9, <1>10, Went
-----------------------------------------------------------------------------
(* Calls and returns                                                       *)

LEMMA NewFrame ==
    ASSUME program \in Programs, NEW f \in Functions
    PROVE  /\ IsFrame(Frame(f)) /\ Frame(f).func = f
           /\ Frame(f).next = 0
<1>1. Entry(f) \in BlocksOf(f) /\ Entry(f) \in AllBlocks
  BY Verified DEF AllBlocks
<1>2. Frame(f) = [func |-> f, queue |-> <<Entry(f)>>, next |-> 0]
  BY DEF Frame
<1>3. Frame(f) \in Frames
  BY <1>1, <1>2 DEF Frames
<1>4. Frame(f).func = f /\ Frame(f).queue = <<Entry(f)>> /\ Frame(f).next = 0
  BY <1>2
<1>5. ToSet(<<Entry(f)>>) = {Entry(f)} /\ IsInjective(<<Entry(f)>>)
  BY DEF ToSet, IsInjective
<1> QED
  BY <1>1, <1>3, <1>4, <1>5 DEF IsFrame

LEMMA CallFunctionKeeps == ASSUME InterpreterInv, CallFunction PROVE InterpreterInv'
<1> DEFINE input == UpdatedInput(Callee, Arguments)
<1>1. AtInstruction("call") /\ Callee \in Functions
  BY DEF CallFunction, IsDeclaration, Functions
<1>2. /\ stack # <<>> /\ Context.queue # <<>>
      /\ Context.next \in DOMAIN CodeOf(CurrentFunction, CurrentBlock)
      /\ Instruction.op = "call" /\ Instruction \in CodeIn(Code(CurrentFunction))
  BY <1>1, Visiting
<1>3. /\ CurrentFunction \in Functions /\ Context = stack[Len(stack)]
  BY <1>2, Running
<1>4. DOMAIN Arguments = DOMAIN Params(Callee)
  BY <1>1, <1>2, <1>3, Verified DEF InterpreterInv, IsCall, Callee, Functions, Params, Arguments
<1>5. IsState(Code(Callee), input)
  BY <1>1, <1>4, InputState DEF InterpreterInv
<1>6. /\ func' = UpdatedFunctions(Callee, Arguments, input)
      /\ block' = UpdatedBlocks(Callee, input)
      /\ stack' = Append(stack, Frame(Callee)) /\ UNCHANGED program /\ UNCHANGED todo
  BY DEF CallFunction
<1> HIDE DEF input
<1>7. FuncTypes'
  BY <1>1, <1>5, <1>6, UpdateFunctions DEF InterpreterInv
<1>8. BlockTypes' /\ SameVisits(block, block')
  BY <1>1, <1>5, <1>6, UpdateBlocks, SameBlocks DEF InterpreterInv
<1>9. IsWaiting(stack[Len(stack)])
  BY <1>2, <1>3, Zenon DEF IsWaiting, CurrentFunction, CurrentBlock
<1>10. stack \in Seq(Frames) /\ \A i \in 1 .. Len(stack) : stack[i].func # Callee
  BY StackFacts DEF CallFunction, OnCallStack
<1>11. IsFrame(Frame(Callee)) /\ Frame(Callee).func = Callee
  BY <1>1, NewFrame DEF InterpreterInv
<1>12. StackTypes'
  BY <1>6, <1>9, <1>10, <1>11, PushFrame DEF InterpreterInv
<1>13. /\ \A i \in 1 .. Len(stack) : i \in 1 .. Len(stack') /\ stack'[i] = stack[i]
  <2>1. Frame(Callee) \in Frames
    BY <1>11, Zenon DEF IsFrame
  <2> QED
    BY ONLY <1>6, <1>10, <2>1
<1>14. \A g, c : Begun(g, c) => Begun(g, c)'
  BY <1>13, Zenon DEF Begun
<1>15. VisitTypes'
  BY <1>6, <1>8, <1>14, KeepVisits DEF InterpreterInv
<1>16. program' \in Programs /\ todo' \in Seq(Functions')
  BY <1>6, SameProgram DEF InterpreterInv
<1> QED
  BY <1>7, <1>8, <1>12, <1>15, <1>16, Zenon DEF InterpreterInv

LEMMA InterpretRootKeeps == ASSUME InterpreterInv, InterpretRoot PROVE InterpreterInv'
<1> DEFINE f == Head(todo)
           args == [i \in DOMAIN Params(f) |-> TopInt]
           input == UpdatedInput(f, args)
<1>1. /\ stack = <<>> /\ todo # <<>>
      /\ func' = UpdatedFunctions(f, args, input)
      /\ block' = UpdatedBlocks(f, input)
      /\ stack' \in {<<Frame(f)>>, <<>>}
      /\ todo' = Tail(todo) /\ UNCHANGED program
  BY DEF InterpretRoot
<1>2. f \in Functions /\ todo' \in Seq(Functions)
  BY <1>1 DEF InterpreterInv
<1>3. IsState(Code(f), input)
  BY <1>2, InputState DEF InterpreterInv
<1> HIDE DEF f, args, input
<1>4. FuncTypes'
  BY <1>1, <1>2, <1>3, UpdateFunctions DEF InterpreterInv
<1>5. BlockTypes' /\ SameVisits(block, block')
  BY <1>1, <1>2, <1>3, UpdateBlocks, SameBlocks DEF InterpreterInv
<1>6. StackTypes'
  <2>1. CASE stack' = <<>>
    BY <2>1 DEF StackTypes
  <2>2. CASE stack' = <<Frame(f)>>
    <3>1. IsFrame(Frame(f)) /\ Frame(f) \in Frames
      BY <1>2, NewFrame DEF InterpreterInv, IsFrame
    <3>2. stack' = Append(stack, Frame(f)) /\ Len(stack) = 0
      BY <1>1, <2>2
    <3> QED
      BY <1>1, <3>1, <3>2, PushFrame DEF InterpreterInv
  <2> QED
    BY ONLY <1>1, <2>1, <2>2
<1>7. \A g, c : ~Begun(g, c)
  BY <1>1 DEF Begun
<1>8. VisitTypes'
  BY <1>1, <1>5, <1>7, KeepVisits DEF InterpreterInv
<1>9. program' \in Programs /\ todo' \in Seq(Functions')
  BY ONLY InterpreterInv, <1>1, <1>2, SameProgram DEF InterpreterInv
<1> QED
  BY <1>4, <1>5, <1>6, <1>8, <1>9, Zenon DEF InterpreterInv
\* The caller of the function that ends is at its call.
LEMMA Caller ==
    ASSUME InterpreterInv, Len(stack) > 1,
           NEW r, r = stack[Len(stack) - 1]
    PROVE  /\ Len(stack) - 1 \in 1 .. Len(stack)
           /\ IsFrame(r) /\ r \in Frames
           /\ r.func \in Functions /\ Head(r.queue) \in BlocksOf(r.func)
           /\ r.queue # <<>>
           /\ IsOperand(Code(r.func), CodeOf(r.func, Head(r.queue))[r.next].def)
<1>1. Len(stack) - 1 \in 1 .. Len(stack) /\ Len(stack) - 1 # Len(stack)
  BY StackFacts
<1>2. IsFrame(r) /\ IsWaiting(r)
  BY <1>1, Zenon DEF InterpreterInv, StackTypes
<1>3. r \in Frames /\ r.func \in Functions /\ r.queue \in Seq(AllBlocks) /\ r.queue # <<>>
  BY <1>2 DEF IsFrame, IsWaiting, Frames
<1>4. Head(r.queue) \in BlocksOf(r.func)
  <2>1. Head(r.queue) \in ToSet(r.queue)
    BY <1>3 DEF ToSet
  <2> QED
    BY <1>2, <2>1 DEF IsFrame
<1> DEFINE i == CodeOf(r.func, Head(r.queue))[r.next]
<1>5. i \in ToSet(Code(r.func).blocks[Head(r.queue)].code)
  BY <1>2, Zenon DEF IsWaiting, ToSet, CodeOf, Code
<1>6. i \in CodeIn(Code(r.func))
  BY <1>4, <1>5, Zenon DEF CodeIn, BlocksOf, Code
<1>7. IsOperand(Code(r.func), i.def)
  BY <1>3, <1>6, Verified, Zenon DEF InterpreterInv
<1> QED
  BY <1>1, <1>2, <1>3, <1>4, <1>7

LEMMA EndFunctionKeeps == ASSUME InterpreterInv, EndFunction PROVE InterpreterInv'
<1>1. /\ stack # <<>> /\ Context.queue = <<>> /\ UNCHANGED program /\ UNCHANGED todo /\ UNCHANGED func
  BY DEF EndFunction
<1>2. /\ Len(stack) \in 1 .. Len(stack) /\ Context = stack[Len(stack)]
      /\ stack \in Seq(Frames) /\ Len(stack) \in Nat
  BY <1>1, Running, StackFacts
<1>3. FuncTypes' /\ program' \in Programs /\ todo' \in Seq(Functions')
  BY <1>1, SameFunctions, SameProgram DEF InterpreterInv
<1>4. CASE Len(stack) = 1
  <2>1. stack' = <<>> /\ block' = block
    BY <1>4 DEF EndFunction
  <2>2. StackTypes'
    BY <2>1 DEF StackTypes
  <2>3. BlockTypes'
    BY <1>1, <2>1, SameBlocks DEF InterpreterInv, BlockTypes
  <2>4. \A g, c : ~Begun(g, c)
    <3>1. \A i \in 1 .. Len(stack) : i = Len(stack)
      BY ONLY <1>2, <1>4
    <3> QED
      BY <1>1, <1>2, <3>1, Zenon DEF Begun
  <2>5. SameVisits(block, block')
    BY <2>1 DEF SameVisits
  <2>6. VisitTypes'
    BY <1>1, <2>4, <2>5, KeepVisits DEF InterpreterInv
  <2> QED
    BY <1>3, <2>2, <2>3, <2>6, Zenon DEF InterpreterInv
<1>5. CASE Len(stack) # 1
  <2>1. Len(stack) > 1
    <3>1. Len(stack) \in Nat /\ Len(stack) \in 1 .. Len(stack)
      BY ONLY <1>2
    <3>2. \A n \in Nat : n \in 1 .. n /\ n # 1 => n > 1
      OBVIOUS
    <3> QED
      BY ONLY <1>5, <3>1, <3>2, Zenon
  <2>2. PICK caller : caller = stack[Len(stack) - 1]
    OBVIOUS
  <2>3. PICK f, b : f = caller.func /\ b = Head(caller.queue)
    OBVIOUS
  <2> DEFINE r == [caller EXCEPT !.next = @ + 1]
             x == CodeOf(f, b)[caller.next].def
  <2>4. /\ block' = WithResult(block, f, b, x, CurrentFunction)
        /\ stack' = Append(SubSeq(stack, 1, Len(stack) - 2), r)
    BY <1>5, <2>2, <2>3 DEF EndFunction
  <2>5. /\ Len(stack) - 1 \in 1 .. Len(stack)
        /\ IsFrame(caller) /\ caller \in Frames
        /\ f \in Functions /\ b \in BlocksOf(f)
        /\ caller.queue # <<>>
        /\ IsOperand(Code(f), x)
    BY <2>1, <2>2, <2>3, Caller
  <2>6. r \in Frames /\ r.func = caller.func /\ r.queue = caller.queue /\ r.next > 0
    BY <2>5 DEF Frames
  <2>7. IsFrame(r)
    BY <2>5, <2>6, Zenon DEF IsFrame
  <2> HIDE DEF r, x
  <2>8. StackTypes'
    BY <1>1, <2>1, <2>2, <2>4, <2>6, <2>7, PopFrame DEF InterpreterInv
  <2>9. AreBlocks(block') /\ Follows(block, block', f, b)
    BY <2>4, <2>5, ResultBlocks DEF InterpreterInv, BlockTypes
  <2>10. BlockTypes'
    BY <1>1, <2>9, SameBlocks
  <2>11. /\ Len(stack) - 1 \in 1 .. Len(stack')
         /\ stack'[Len(stack) - 1] = r
         /\ \A i \in 1 .. Len(stack) : i # Len(stack) /\ i # Len(stack) - 1 =>
                i \in 1 .. Len(stack') /\ stack'[i] = stack[i]
    BY <1>1, <2>1, <2>4, <2>6, PoppedStack DEF InterpreterInv
  <2>12. Begun(f, b)'
    BY <2>3, <2>5, <2>6, <2>11, Zenon DEF Begun
  <2>13. ASSUME NEW g, NEW c, Begun(g, c)
         PROVE  Begun(g, c)'
    <3>1. PICK i \in 1 .. Len(stack) :
            stack[i].func = g /\ stack[i].queue # <<>> /\ Head(stack[i].queue) = c /\ stack[i].next > 0
      BY <2>13, Zenon DEF Begun
    <3>2. CASE i = Len(stack) - 1
      BY <2>2, <2>3, <2>12, <3>1, <3>2
    <3>3. CASE i # Len(stack) - 1
      <4>1. i # Len(stack)
        BY <1>1, <1>2, <3>1
      <4> QED
        BY <2>11, <3>1, <3>3, <4>1, Zenon DEF Begun
    <3> QED
      BY ONLY <3>2, <3>3
  <2>14. VisitTypes'
    BY <1>1, <2>9, <2>12, <2>13, KeepVisits DEF InterpreterInv
  <2> QED
    BY <1>3, <2>8, <2>10, <2>14, Zenon DEF InterpreterInv
<1> QED
  BY ONLY <1>4, <1>5
-----------------------------------------------------------------------------
(* The work list                                                           *)

\* Every successor has a first way to it: the ways are numbered.
LEMMA FirstWayIsNumber ==
    ASSUME NEW succs, DOMAIN succs \subseteq Nat, NEW b \in ToSet(succs)
    PROVE  FirstWay(succs, b) \in Nat
<1> DEFINE ways == {i \in DOMAIN succs : succs[i] = b}
<1>1. ways # {} /\ ways \subseteq Nat
  BY DEF ToSet
<1>2. PICK i \in ways : \A j \in ways : ~(<<j, i>> \in OpToRel(<, Nat))
  BY <1>1, NatLessThanWellFounded, WFMin
<1>3. \A j \in ways : i <= j
  <2>1. ASSUME NEW k \in Nat, NEW j \in Nat, j < k
        PROVE  <<j, k>> \in OpToRel(<, Nat)
    BY <2>1 DEF OpToRel
  <2>2. \A j \in ways : ~(j < i)
    BY <1>1, <1>2, <2>1
  <2> QED
    BY <1>1, <2>2
<1>4. \E k \in DOMAIN succs : succs[k] = b /\ \A j \in DOMAIN succs : succs[j] = b => k <= j
  BY <1>3
<1>5. FirstWay(succs, b) \in DOMAIN succs
  BY <1>4 DEF FirstWay
<1> QED
  BY <1>5

\* An order of a set has its members, each of them once.
LEMMA OrderIsInjective ==
    ASSUME NEW succs, DOMAIN succs \subseteq Nat, NEW new, new \subseteq ToSet(succs), IsFiniteSet(new),
           NEW q \in InOrder(succs, new)
    PROVE  /\ q \in Seq(new)
           /\ IsInjective(q)
<1>1. Cardinality(new) \in Nat
  BY FS_CardinalityType
<1>2. q \in [1 .. Cardinality(new) -> new]
  BY Zenon DEF InOrder
<1>3. q \in Seq(new) /\ DOMAIN q = 1 .. Cardinality(new)
  BY <1>1, <1>2
<1>4. \A i, j \in DOMAIN q : i < j => FirstWay(succs, q[i]) < FirstWay(succs, q[j])
  BY Zenon DEF InOrder
<1>5. \A i \in DOMAIN q : FirstWay(succs, q[i]) \in Nat
  BY <1>2, <1>3, FirstWayIsNumber
<1>6. ASSUME NEW i \in DOMAIN q, NEW j \in DOMAIN q, q[i] = q[j]
      PROVE  i = j
  <2>1. ~(FirstWay(succs, q[i]) < FirstWay(succs, q[j]))
    BY <1>5, <1>6
  <2>2. ~(FirstWay(succs, q[j]) < FirstWay(succs, q[i]))
    BY <1>5, <1>6
  <2>3. ~(i < j) /\ ~(j < i)
    BY <1>4, <2>1, <2>2
  <2> QED
    BY ONLY <1>1, <1>3, <2>3, i \in DOMAIN q, j \in DOMAIN q
<1> QED
  BY <1>3, <1>6 DEF IsInjective

\* The successors that are not in the queue come after what is in it, and what is
\* first goes.
LEMMA LongerQueue ==
    ASSUME NEW S, NEW queue \in Seq(S), queue # <<>>, IsInjective(queue),
           NEW q \in Seq(S), IsInjective(q), ToSet(q) \cap ToSet(queue) = {}
    PROVE  /\ Tail(queue \o q) \in Seq(S)
           /\ IsInjective(Tail(queue \o q))
           /\ ToSet(Tail(queue \o q)) \subseteq ToSet(queue) \cup ToSet(q)
<1> DEFINE all == queue \o q
           m == Len(queue)
           n == Len(q)
<1>1. m \in Nat /\ n \in Nat /\ m > 0 /\ DOMAIN queue = 1 .. m /\ DOMAIN q = 1 .. n
  OBVIOUS
<1>2. /\ all \in Seq(S) /\ Len(all) = m + n
      /\ \A i \in 1 .. m + n : all[i] = IF i <= m THEN queue[i] ELSE q[i - m]
  BY ONLY queue \in Seq(S), q \in Seq(S)
<1>3. \A i, j \in 1 .. m : queue[i] = queue[j] => i = j
  BY <1>1, Zenon DEF IsInjective
<1>4. \A i, j \in 1 .. n : q[i] = q[j] => i = j
  BY <1>1, Zenon DEF IsInjective
<1>5. \A i \in 1 .. m : \A j \in 1 .. n : queue[i] # q[j]
  BY <1>1 DEF ToSet
<1>6. /\ \A i \in 1 .. m : queue[i] \in ToSet(queue)
      /\ \A i \in 1 .. n : q[i] \in ToSet(q)
  BY <1>1, Zenon DEF ToSet
<1> HIDE DEF all, m, n
<1>7. \A i, j \in 1 .. m + n : all[i] = all[j] => i = j
  <2>1. SUFFICES ASSUME NEW i \in 1 .. m + n, NEW j \in 1 .. m + n, all[i] = all[j]
                 PROVE  i = j
    OBVIOUS
  <2>2. CASE i <= m /\ j <= m
    <3>1. i \in 1 .. m /\ j \in 1 .. m
      BY ONLY <1>1, <2>2, i \in 1 .. m + n, j \in 1 .. m + n
    <3> QED
      BY ONLY <1>2, <1>3, <2>1, <2>2, <3>1
  <2>3. CASE ~(i <= m) /\ ~(j <= m)
    <3>1. i - m \in 1 .. n /\ j - m \in 1 .. n
      BY ONLY <1>1, <2>3, i \in 1 .. m + n, j \in 1 .. m + n
    <3>2. i - m = j - m
      BY ONLY <1>2, <1>4, <2>1, <2>3, <3>1
    <3> QED
      BY ONLY <1>1, <3>2, i \in 1 .. m + n, j \in 1 .. m + n
  <2>4. CASE i <= m /\ ~(j <= m)
    <3>1. i \in 1 .. m /\ j - m \in 1 .. n
      BY ONLY <1>1, <2>4, i \in 1 .. m + n, j \in 1 .. m + n
    <3> QED
      BY ONLY <1>2, <1>5, <2>1, <2>4, <3>1
  <2>5. CASE ~(i <= m) /\ j <= m
    <3>1. j \in 1 .. m /\ i - m \in 1 .. n
      BY ONLY <1>1, <2>5, i \in 1 .. m + n, j \in 1 .. m + n
    <3> QED
      BY ONLY <1>2, <1>5, <2>1, <2>5, <3>1
  <2> QED
    BY ONLY <2>2, <2>3, <2>4, <2>5
<1>8. all \in Seq(S) /\ all # <<>>
  <2>1. m + n > 0
    BY ONLY <1>1
  <2> QED
    BY ONLY <1>2, <2>1
<1>9. /\ Tail(all) \in Seq(S) /\ Len(Tail(all)) = m + n - 1
      /\ \A i \in 1 .. m + n - 1 : Tail(all)[i] = all[i + 1]
  BY ONLY <1>1, <1>2, <1>8, HeadTailProperties
<1>10. DOMAIN Tail(all) = 1 .. m + n - 1
  BY ONLY <1>9
<1>11. \A i \in 1 .. m + n - 1 : i + 1 \in 1 .. m + n
  BY ONLY <1>1
<1>12. IsInjective(Tail(all))
  <2>1. \A i, j \in 1 .. m + n - 1 : Tail(all)[i] = Tail(all)[j] => i + 1 = j + 1
    BY ONLY <1>7, <1>9, <1>11, ZenonT(30)
  <2>2. \A i, j \in 1 .. m + n - 1 : i + 1 = j + 1 => i = j
    BY ONLY <1>1
  <2> QED
    BY ONLY <1>10, <2>1, <2>2, Zenon DEF IsInjective
<1>13. \A i \in 1 .. m + n : all[i] \in ToSet(queue) \cup ToSet(q)
  <2>1. SUFFICES ASSUME NEW i \in 1 .. m + n PROVE all[i] \in ToSet(queue) \cup ToSet(q)
    OBVIOUS
  <2>2. i <= m => i \in 1 .. m
    BY ONLY <1>1, i \in 1 .. m + n
  <2>3. ~(i <= m) => i - m \in 1 .. n
    BY ONLY <1>1, i \in 1 .. m + n
  <2> QED
    BY ONLY <1>2, <1>6, <2>2, <2>3, i \in 1 .. m + n, Zenon
<1>14. ToSet(Tail(all)) \subseteq ToSet(queue) \cup ToSet(q)
  BY ONLY <1>9, <1>10, <1>11, <1>13, Zenon DEF ToSet
<1> QED
  BY <1>9, <1>12, <1>14 DEF all
-----------------------------------------------------------------------------
(* Leaving a block                                                         *)

\* What the end of block b of function f makes of the blocks of f: their inputs
\* have changed, and at most the output of b.
IsMerged(f, b, merged) ==
    /\ DOMAIN merged = BlocksOf(f)
    /\ \A c \in BlocksOf(f) :
         /\ IsBlock(Code(f), merged[c])
         /\ merged[c].visited = block[f][c].visited
         /\ merged[c].fixpoint = block[f][c].fixpoint
         /\ merged[c].out = block[f][c].out \/ c = b

\* In a function one block is being visited.
LEMMA OneIsBegun ==
    ASSUME InterpreterInv, stack # <<>>,
           NEW c, Begun(CurrentFunction, c)
    PROVE  c = CurrentBlock
<1>1. Len(stack) \in 1 .. Len(stack) /\ Context = stack[Len(stack)]
  BY Running
<1>2. PICK i \in 1 .. Len(stack) : stack[i].func = CurrentFunction /\ Head(stack[i].queue) = c
  BY Zenon DEF Begun
<1>3. i = Len(stack)
  BY <1>1, <1>2, Zenon DEF InterpreterInv, StackTypes, CurrentFunction
<1> QED
  BY <1>1, <1>2, <1>3, Zenon DEF CurrentBlock

\* No successor that was not visited is taken for one at a fixpoint.
LEMMA SettledBlocks ==
    ASSUME InterpreterInv, stack # <<>>, Context.queue # <<>>, NEW f, f = CurrentFunction,
           NEW b, b = CurrentBlock, NEW merged, IsMerged(f, b, merged), NEW succs,
           NEW blocks,
           blocks = [c \in DOMAIN merged |-> IF c \in ToSet(succs) THEN Settled(merged[c]) ELSE merged[c]]
    PROVE  /\ DOMAIN blocks = BlocksOf(f)
           /\ \A c \in BlocksOf(f) :
                /\ IsBlock(Code(f), blocks[c])
                /\ blocks[c].fixpoint => blocks[c].visited \/ c = b
                /\ ~blocks[c].visited => blocks[c].out = NoState \/ c = b
<1>1. DOMAIN blocks = BlocksOf(f) /\ f \in Functions
  BY Running DEF IsMerged
<1>2. ASSUME NEW c \in BlocksOf(f)
      PROVE  /\ IsBlock(Code(f), blocks[c])
             /\ blocks[c].fixpoint => blocks[c].visited \/ c = b
             /\ ~blocks[c].visited => blocks[c].out = NoState \/ c = b
  <2>1. /\ IsBlock(Code(f), merged[c])
        /\ merged[c].visited = block[f][c].visited
        /\ merged[c].fixpoint = block[f][c].fixpoint
        /\ merged[c].out = block[f][c].out \/ c = b
    BY Zenon DEF IsMerged
  <2>2. /\ block[f][c].fixpoint => block[f][c].visited
        /\ ~block[f][c].visited => block[f][c].out = NoState \/ c = b
    BY <1>1, OneIsBegun, Zenon DEF InterpreterInv, VisitTypes
  <2>3. CASE c \in ToSet(succs)
    <3>1. blocks[c] = Settled(merged[c])
      BY <1>1, <2>3, Zenon
    <3>2. /\ IsBlock(Code(f), Settled(merged[c]))
          /\ Settled(merged[c]).out = merged[c].out
          /\ Settled(merged[c]).visited = merged[c].visited
          /\ merged[c].out = NoState /\ ~merged[c].visited => ~Settled(merged[c]).fixpoint
      BY <2>1, SettledBlock
    <3> QED
      BY ONLY <2>1, <2>2, <3>1, <3>2, Zenon
  <2>4. CASE c \notin ToSet(succs)
    <3>1. blocks[c] = merged[c]
      BY <1>1, <2>4, Zenon
    <3> QED
      BY ONLY <2>1, <2>2, <3>1, Zenon
  <2> QED
    BY ONLY <2>3, <2>4
<1> QED
  BY ONLY <1>1, <1>2

LEMMA LeaveFunction ==
    ASSUME FuncTypes, NEW f \in Functions, NEW s, UNCHANGED program,
           func' = [func EXCEPT ![f].out = JoinWith(@, s)]
    PROVE  FuncTypes'
<1>1. /\ DOMAIN func = Functions
      /\ \A g \in Functions : func[g] = [x \in {"args", "in", "out"} |-> func[g][x]]
      /\ \A g \in Functions : IsState(Code(g), func[g].in)
  BY Zenon DEF FuncTypes
<1>2. DOMAIN func' = Functions
  BY ONLY <1>1, func' = [func EXCEPT ![f].out = JoinWith(@, s)]
<1>3. \A g \in Functions :
        func'[g] = IF g = f THEN [func[f] EXCEPT !.out = JoinWith(@, s)] ELSE func[g]
  BY ONLY <1>1, f \in Functions, func' = [func EXCEPT ![f].out = JoinWith(@, s)]
<1>4. \A g \in Functions : func'[g] = [x \in {"args", "in", "out"} |-> func'[g][x]]
  BY ONLY <1>1, <1>3
<1>5. \A g \in Functions : func'[g].in = func[g].in
  BY ONLY <1>1, <1>3
<1>6. \A g \in Functions : IsState(Code(g), func'[g].in)
  BY <1>1, <1>5, Zenon
<1> QED
  BY ONLY <1>2, <1>4, <1>6, UNCHANGED program, SameProgram, Zenon DEF FuncTypes

LEMMA LeaveBlockKeeps ==
    ASSUME InterpreterInv, InBlock,
           NEW merged, IsMerged(CurrentFunction, CurrentBlock, merged),
           NEW succs, ToSet(succs) \subseteq BlocksOf(CurrentFunction),
           DOMAIN succs \subseteq Nat, LeaveBlock(merged, succs)
    PROVE  InterpreterInv'
<1>1. stack # <<>> /\ Context.queue # <<>>
  BY DEF InBlock
<1>2. PICK f, b : f = CurrentFunction /\ b = CurrentBlock
  OBVIOUS
<1>3. PICK blocks, queue :
        /\ blocks = [c \in DOMAIN merged |-> IF c \in ToSet(succs) THEN Settled(merged[c]) ELSE merged[c]]
        /\ queue \in AddSuccessors(blocks, Context.queue, succs)
        /\ block' = [block EXCEPT ![f] = [blocks EXCEPT ![b].visited = TRUE]]
        /\ func' = [func EXCEPT ![f].out = JoinWith(@, blocks[b].out)]
        /\ stack' = [stack EXCEPT ![Len(stack)] = [@ EXCEPT !.queue = Tail(queue), !.next = 0]]
        /\ UNCHANGED program /\ UNCHANGED todo
  BY <1>2 DEF LeaveBlock
<1>4. /\ Len(stack) \in 1 .. Len(stack) /\ Context = stack[Len(stack)]
      /\ IsFrame(Context) /\ f = Context.func
      /\ f \in Functions /\ b \in BlocksOf(f)
      /\ Context.queue \in Seq(AllBlocks)
  BY <1>1, <1>2, Running DEF CurrentFunction
<1>5. /\ DOMAIN blocks = BlocksOf(f)
      /\ \A c \in BlocksOf(f) :
           /\ IsBlock(Code(f), blocks[c])
           /\ blocks[c].fixpoint => blocks[c].visited \/ c = b
           /\ ~blocks[c].visited => blocks[c].out = NoState \/ c = b
  BY <1>1, <1>2, <1>3, SettledBlocks
<1>6. /\ DOMAIN block = Functions
      /\ \A g \in Functions : block[g] = [c \in BlocksOf(g) |-> block[g][c]]
      /\ \A g \in Functions : \A c \in BlocksOf(g) : IsBlock(Code(g), block[g][c])
  BY Zenon DEF InterpreterInv, BlockTypes, AreBlocks
<1>7. blocks = [c \in BlocksOf(f) |-> blocks[c]]
  BY <1>3, <1>5
<1> DEFINE here == [blocks EXCEPT ![b].visited = TRUE]
<1>8. /\ here = [c \in BlocksOf(f) |-> here[c]]
      /\ \A c \in BlocksOf(f) : here[c] = IF c = b THEN [blocks[b] EXCEPT !.visited = TRUE] ELSE blocks[c]
  BY ONLY <1>4, <1>7
<1>9. IsBlock(Code(f), [blocks[b] EXCEPT !.visited = TRUE]) /\ [blocks[b] EXCEPT !.visited = TRUE].visited
  BY <1>4, <1>5, VisitedBlock
<1>10. \A c \in BlocksOf(f) : /\ IsBlock(Code(f), here[c])
                              /\ here[c].fixpoint => here[c].visited
                              /\ ~here[c].visited => here[c].out = NoState
  BY ONLY <1>5, <1>8, <1>9, Zenon
<1>11. block' = [block EXCEPT ![f] = here]
  BY ONLY <1>3
<1> HIDE DEF here
<1>12. /\ DOMAIN block' = Functions
       /\ \A g \in Functions : block'[g] = IF g = f THEN here ELSE block[g]
  BY ONLY <1>4, <1>6, <1>11
<1>13. BlockTypes'
  <2>1. \A g \in Functions : block'[g] = [c \in BlocksOf(g) |-> block'[g][c]]
    BY ONLY <1>6, <1>8, <1>12
  <2>2. \A g \in Functions : \A c \in BlocksOf(g) : IsBlock(Code(g), block'[g][c])
    <3> TAKE g \in Functions
    <3> TAKE c \in BlocksOf(g)
    <3>1. CASE g = f
      BY ONLY <1>4, <1>10, <1>12, <3>1, c \in BlocksOf(g), Zenon
    <3>2. CASE g # f
      BY ONLY <1>6, <1>12, <3>2, g \in Functions, c \in BlocksOf(g), Zenon
    <3> QED
      BY ONLY <3>1, <3>2
  <2> QED
    BY <1>3, <1>12, <2>1, <2>2, SameBlocks, Zenon DEF AreBlocks
<1>14. FuncTypes'
  BY <1>3, <1>4, LeaveFunction DEF InterpreterInv
<1> DEFINE r == [Context EXCEPT !.queue = Tail(queue), !.next = 0]
<1>15. /\ Tail(queue) \in Seq(AllBlocks)
       /\ IsInjective(Tail(queue))
       /\ ToSet(Tail(queue)) \subseteq BlocksOf(f)
  <2> DEFINE new == {c \in ToSet(succs) : ~blocks[c].fixpoint} \ ToSet(Context.queue)
  <2>1. PICK q \in InOrder(succs, new) : queue = Context.queue \o q
    BY <1>3 DEF AddSuccessors
  <2>2. new \subseteq ToSet(succs)
    OBVIOUS
  <2>3. new \subseteq BlocksOf(f) /\ new \subseteq AllBlocks /\ new \cap ToSet(Context.queue) = {}
    BY <1>2, <1>4 DEF AllBlocks
  <2> HIDE DEF new
  <2>4. q \in Seq(new) /\ IsInjective(q)
    <3>1. IsFiniteSet(BlocksOf(f))
      BY <1>4, Verified, Zenon DEF InterpreterInv
    <3>2. IsFiniteSet(new)
      BY ONLY <2>3, <3>1, FS_Subset
    <3> QED
      BY <2>2, <3>2, OrderIsInjective
  <2>5. ToSet(q) \subseteq new /\ q \in Seq(AllBlocks)
    BY <2>3, <2>4 DEF ToSet
  <2>6. IsInjective(Context.queue) /\ ToSet(Context.queue) \subseteq BlocksOf(f)
    BY <1>4, Zenon DEF IsFrame
  <2>7. ToSet(q) \cap ToSet(Context.queue) = {}
    BY ONLY <2>3, <2>5
  <2>8. /\ Tail(queue) \in Seq(AllBlocks)
        /\ IsInjective(Tail(queue))
        /\ ToSet(Tail(queue)) \subseteq ToSet(Context.queue) \cup ToSet(q)
    BY ONLY <1>1, <1>4, <2>1, <2>4, <2>5, <2>6, <2>7, LongerQueue
  <2> QED
    BY ONLY <2>3, <2>5, <2>6, <2>8
<1>16. r \in Frames /\ r.func = f /\ r.queue = Tail(queue)
  <2>1. Context \in Frames
    BY <1>4, Zenon DEF IsFrame
  <2> QED
    BY ONLY <1>4, <1>15, <2>1 DEF Frames
<1>17. IsFrame(r)
  BY <1>15, <1>16, Zenon DEF IsFrame
<1>18. stack' = [stack EXCEPT ![Len(stack)] = r]
  BY <1>3, <1>4
<1> HIDE DEF r
<1>19. StackTypes'
  BY <1>1, <1>3, <1>4, <1>16, <1>17, <1>18, ReplaceTop DEF InterpreterInv
<1>20. \A g, c : Begun(g, c) /\ g # f => Begun(g, c)'
  <2>1. /\ Len(stack') = Len(stack)
        /\ \A i \in 1 .. Len(stack) : i # Len(stack) => stack'[i] = stack[i]
    BY ONLY <1>4, <1>18, StackFacts, InterpreterInv
  <2> QED
    BY <1>4, <2>1, Zenon DEF Begun
<1>21. VisitTypes'
  <2>1. \A g \in Functions : \A c \in BlocksOf(g) :
          /\ block'[g][c].fixpoint => block'[g][c].visited
          /\ ~block'[g][c].visited => block'[g][c].out = NoState \/ Begun(g, c)'
    <3>1. VisitTypes
      BY Zenon DEF InterpreterInv
    <3>2. ASSUME NEW g \in Functions, NEW c \in BlocksOf(g), g # f
          PROVE  /\ block'[g][c].fixpoint => block'[g][c].visited
                 /\ ~block'[g][c].visited => block'[g][c].out = NoState \/ Begun(g, c)'
      <4>1. block'[g] = block[g]
        BY ONLY <1>12, <3>2, Zenon
      <4> QED
        BY ONLY <1>20, <3>1, <3>2, <4>1, Zenon DEF VisitTypes
    <3>3. \A c \in BlocksOf(f) : /\ block'[f][c].fixpoint => block'[f][c].visited
                                 /\ ~block'[f][c].visited => block'[f][c].out = NoState
      BY ONLY <1>4, <1>10, <1>12, Zenon
    <3> QED
      BY ONLY <3>2, <3>3, Zenon
  <2> QED
    BY ONLY <1>3, <2>1, SameProgram, Zenon DEF VisitTypes
<1>22. program' \in Programs /\ todo' \in Seq(Functions')
  BY <1>3, SameProgram DEF InterpreterInv
<1> QED
  BY <1>13, <1>14, <1>19, <1>21, <1>22, Zenon DEF InterpreterInv
\* The end of the block that is visited.
LEMMA Ending ==
    ASSUME InterpreterInv, NEW op, AtEnd(op)
    PROVE  /\ stack # <<>> /\ Context.queue # <<>> /\ InBlock
           /\ CurrentFunction \in Functions /\ CurrentBlock \in BlocksOf(CurrentFunction)
           /\ Terminator.op = op
           /\ IsEnd(Code(CurrentFunction), Terminator)
           /\ ToSet(SuccessorsOf(Terminator)) \subseteq BlocksOf(CurrentFunction)
           /\ IsMerged(CurrentFunction, CurrentBlock, block[CurrentFunction])
           /\ IsState(Code(CurrentFunction), State)
<1>1. /\ stack # <<>> /\ Context.queue # <<>> /\ InBlock
      /\ Terminator.op = op
  BY DEF AtEnd, InBlock, Terminator
<1>2. CurrentFunction \in Functions /\ CurrentBlock \in BlocksOf(CurrentFunction)
  BY <1>1, Running
<1>3. IsFunction(Code(CurrentFunction))
  BY <1>2, Verified, Zenon DEF InterpreterInv
<1>4. IsEnd(Code(CurrentFunction), Terminator)
  BY <1>2, <1>3, Zenon DEF IsFunction, Terminator, EndOf, Code, BlocksOf
<1>5. ToSet(SuccessorsOf(Terminator)) \subseteq BlocksOf(CurrentFunction)
  BY <1>4, Zenon DEF IsEnd, BlocksOf, Code
<1>6. IsMerged(CurrentFunction, CurrentBlock, block[CurrentFunction])
  <2>1. \A f \in Functions : DOMAIN block[f] = BlocksOf(f)
    BY DEF InterpreterInv, BlockTypes, AreBlocks
  <2> QED
    BY <1>2, <2>1, Zenon DEF InterpreterInv, BlockTypes, AreBlocks, IsMerged
<1>7. IsState(Code(CurrentFunction), State)
  BY <1>1, CurrentState
<1> QED
  BY ONLY <1>1, <1>2, <1>4, <1>5, <1>6, <1>7

LEMMA MergedInto ==
    ASSUME NEW f, NEW b, NEW blocks, IsMerged(f, b, blocks), NEW s, IsState(Code(f), s), NEW succs
    PROVE  IsMerged(f, b, MergeInto(blocks, succs, s))
<1> DEFINE merged == MergeInto(blocks, succs, s)
<1>1. /\ DOMAIN merged = BlocksOf(f)
      /\ \A c \in BlocksOf(f) :
           merged[c] = IF c \in ToSet(succs) THEN mergeToInput(blocks[c], s) ELSE blocks[c]
  BY Zenon DEF IsMerged, MergeInto
<1>2. \A c \in BlocksOf(f) : /\ IsBlock(Code(f), mergeToInput(blocks[c], s))
                             /\ mergeToInput(blocks[c], s).out = blocks[c].out
                             /\ mergeToInput(blocks[c], s).visited = blocks[c].visited
                             /\ mergeToInput(blocks[c], s).fixpoint = blocks[c].fixpoint
  <2> TAKE c \in BlocksOf(f)
  <2>1. IsBlock(Code(f), blocks[c])
    BY Zenon DEF IsMerged
  <2> QED
    BY <2>1, MergedBlock
<1> HIDE DEF merged
<1>3. ASSUME NEW c \in BlocksOf(f)
      PROVE  /\ IsBlock(Code(f), merged[c])
             /\ merged[c].visited = block[f][c].visited
             /\ merged[c].fixpoint = block[f][c].fixpoint
             /\ merged[c].out = block[f][c].out \/ c = b
  <2>1. /\ IsBlock(Code(f), blocks[c])
        /\ blocks[c].visited = block[f][c].visited
        /\ blocks[c].fixpoint = block[f][c].fixpoint
        /\ blocks[c].out = block[f][c].out \/ c = b
    BY Zenon DEF IsMerged
  <2> QED
    BY ONLY <1>1, <1>2, <1>3, <2>1, Zenon
<1> QED
  BY <1>1, <1>3, Zenon DEF IsMerged, merged

LEMMA ReturnKeeps == ASSUME InterpreterInv, Return PROVE InterpreterInv'
<1>1. AtEnd("ret") /\ LeaveBlock(block[CurrentFunction], <<>>)
  BY DEF Return
<1>2. InBlock /\ IsMerged(CurrentFunction, CurrentBlock, block[CurrentFunction])
  BY <1>1, Ending
<1>3. ToSet(<<>>) = {} /\ DOMAIN <<>> = {}
  BY DEF ToSet
<1> QED
  BY <1>1, <1>2, <1>3, LeaveBlockKeeps

LEMMA JumpKeeps == ASSUME InterpreterInv, Jump PROVE InterpreterInv'
<1> DEFINE succs == <<Terminator.to>>
           merged == MergeInto(block[CurrentFunction], succs, State)
<1>1. AtEnd("jump") /\ LeaveBlock(merged, succs)
  BY DEF Jump
<1>2. /\ InBlock /\ Terminator.op = "jump"
      /\ ToSet(SuccessorsOf(Terminator)) \subseteq BlocksOf(CurrentFunction)
      /\ IsMerged(CurrentFunction, CurrentBlock, block[CurrentFunction])
      /\ IsState(Code(CurrentFunction), State)
  BY <1>1, Ending
<1>3. SuccessorsOf(Terminator) = succs
  BY <1>2 DEF SuccessorsOf
<1>4. DOMAIN succs \subseteq Nat
  OBVIOUS
<1> HIDE DEF succs
<1>5. IsMerged(CurrentFunction, CurrentBlock, merged)
  BY <1>2, MergedInto
<1> HIDE DEF merged
<1> QED
  BY <1>1, <1>2, <1>3, <1>4, <1>5, LeaveBlockKeeps
\* A condition is a comparison of values of the function.
LEMMA Condition ==
    ASSUME InterpreterInv, AtEnd("br"), NEW cmp,
           cmp = DefinitionOf(CurrentFunction, Terminator.cond)
    PROVE  /\ cmp.pred \in DOMAIN Negation
           /\ Negation[cmp.pred] \in DOMAIN Negation
           /\ IsOperand(Code(CurrentFunction), cmp.l)
           /\ IsOperand(Code(CurrentFunction), cmp.r)
<1>1. IsEnd(Code(CurrentFunction), Terminator) /\ Terminator.op = "br"
  BY Ending
<1>2. CodeIn(Code(CurrentFunction)) =
        UNION {ToSet(CodeOf(CurrentFunction, c)) : c \in DOMAIN program.functions[CurrentFunction].blocks}
  BY DEF CodeIn, Code, CodeOf
<1>3. \E i \in CodeIn(Code(CurrentFunction)) : i.def = Terminator.cond
  BY <1>1, Zenon DEF IsEnd
<1>4. cmp \in CodeIn(Code(CurrentFunction)) /\ cmp.def = Terminator.cond
  BY <1>2, <1>3 DEF DefinitionOf
<1>5. /\ cmp.pred \in DOMAIN Negation
      /\ IsOperand(Code(CurrentFunction), cmp.l) /\ IsOperand(Code(CurrentFunction), cmp.r)
  BY <1>1, <1>4, Zenon DEF IsEnd
<1>6. \A p \in DOMAIN Negation : Negation[p] \in DOMAIN Negation
  BY DEF Negation
<1> QED
  BY ONLY <1>5, <1>6, Zenon

LEMMA ReplacedOut ==
    ASSUME NEW f, NEW b \in BlocksOf(f), NEW blocks, blocks = [c \in BlocksOf(f) |-> blocks[c]],
           IsMerged(f, b, blocks), NEW s, IsState(Code(f), s)
    PROVE  IsMerged(f, b, [blocks EXCEPT ![b].out = s])
<1> DEFINE r == [blocks[b] EXCEPT !.out = s]
           new == [blocks EXCEPT ![b].out = s]
<1>1. IsBlock(Code(f), blocks[b])
  BY Zenon DEF IsMerged
<1>2. IsBlock(Code(f), r) /\ r.visited = blocks[b].visited /\ r.fixpoint = blocks[b].fixpoint
  BY <1>1, BlockParts DEF IsBlock
<1>3. /\ DOMAIN new = BlocksOf(f)
      /\ \A c \in BlocksOf(f) : new[c] = IF c = b THEN r ELSE blocks[c]
  BY ONLY blocks = [c \in BlocksOf(f) |-> blocks[c]], b \in BlocksOf(f)
<1> HIDE DEF r, new
<1>4. ASSUME NEW c \in BlocksOf(f)
      PROVE  /\ IsBlock(Code(f), new[c])
             /\ new[c].visited = block[f][c].visited
             /\ new[c].fixpoint = block[f][c].fixpoint
             /\ new[c].out = block[f][c].out \/ c = b
  <2>1. /\ IsBlock(Code(f), blocks[c])
        /\ blocks[c].visited = block[f][c].visited
        /\ blocks[c].fixpoint = block[f][c].fixpoint
        /\ blocks[c].out = block[f][c].out \/ c = b
    BY Zenon DEF IsMerged
  <2> QED
    BY ONLY <1>2, <1>3, <1>4, <2>1, Zenon
<1> QED
  BY <1>3, <1>4, Zenon DEF IsMerged, new

LEMMA BranchKeeps == ASSUME InterpreterInv, Branch PROVE InterpreterInv'
<1>1. AtEnd("br")
  BY DEF Branch
<1>2. /\ InBlock /\ Terminator.op = "br"
      /\ CurrentFunction \in Functions /\ CurrentBlock \in BlocksOf(CurrentFunction)
      /\ ToSet(SuccessorsOf(Terminator)) \subseteq BlocksOf(CurrentFunction)
      /\ IsMerged(CurrentFunction, CurrentBlock, block[CurrentFunction])
      /\ IsState(Code(CurrentFunction), State)
  BY <1>1, Ending
<1>3. PICK f, b, cmp, out, s, split :
        /\ f = CurrentFunction /\ b = CurrentBlock
        /\ cmp = DefinitionOf(CurrentFunction, Terminator.cond) /\ out = State
        /\ s = Narrow(out, cmp, cmp.pred)
        /\ split = Narrow(s, cmp, Negation[cmp.pred])
  OBVIOUS
<1>4. PICK succs :
        /\ succs \in {<<Terminator.yes>>, <<Terminator.no>>, <<Terminator.yes, Terminator.no>>}
        /\ LeaveBlock(MergeInto([block[f] EXCEPT ![b].out = split], succs, split), succs)
  <2> DEFINE cond == out.bools[Terminator.cond]
             way == IF cond = BoolOf(TRUE) THEN <<Terminator.yes>>
                    ELSE IF cond = BoolOf(FALSE) THEN <<Terminator.no>>
                    ELSE <<Terminator.yes, Terminator.no>>
  <2>1. way \in {<<Terminator.yes>>, <<Terminator.no>>, <<Terminator.yes, Terminator.no>>}
    OBVIOUS
  <2>2. LeaveBlock(MergeInto([block[f] EXCEPT ![b].out = split], way, split), way)
    BY <1>3, Zenon DEF Branch
  <2> HIDE DEF way
  <2> QED
    BY ONLY <2>1, <2>2, Zenon
<1>5. IsState(Code(f), split)
  <2>1. /\ cmp.pred \in DOMAIN Negation /\ Negation[cmp.pred] \in DOMAIN Negation
        /\ IsOperand(Code(f), cmp.l) /\ IsOperand(Code(f), cmp.r)
    BY <1>1, <1>3, Condition
  <2>2. IsState(Code(f), s)
    BY <1>2, <1>3, <2>1, NarrowState
  <2> QED
    BY <1>3, <2>1, <2>2, NarrowState
<1>6. ToSet(succs) \subseteq BlocksOf(f) /\ DOMAIN succs \subseteq Nat
  <2>1. SuccessorsOf(Terminator) = <<Terminator.yes, Terminator.no>>
    BY <1>2 DEF SuccessorsOf
  <2>2. Terminator.yes \in BlocksOf(f) /\ Terminator.no \in BlocksOf(f)
    BY <1>2, <1>3, <2>1 DEF ToSet
  <2> QED
    BY <1>4, <2>2 DEF ToSet
<1> DEFINE blocks == [block[f] EXCEPT ![b].out = split]
<1>7. IsMerged(f, b, blocks)
  <2>1. block[f] = [c \in BlocksOf(f) |-> block[f][c]]
    BY <1>2, <1>3, Zenon DEF InterpreterInv, BlockTypes, AreBlocks
  <2> QED
    BY <1>2, <1>3, <1>5, <2>1, ReplacedOut
<1> HIDE DEF blocks
<1>8. IsMerged(f, b, MergeInto(blocks, succs, split))
  BY <1>5, <1>7, MergedInto
<1> QED
  BY <1>2, <1>3, <1>4, <1>6, <1>8, LeaveBlockKeeps DEF blocks

\* Whatever is decided, a switch leads to its cases or to its default.
LEMMA CasesLead ==
    ASSUME NEW cases, cases \in Seq(ToSet(cases)), NEW default, NEW cond
    PROVE  /\ DOMAIN Cases(cases, default, cond) \subseteq 1 .. Len(cases) + 1
           /\ \A i \in DOMAIN Cases(cases, default, cond) :
                Cases(cases, default, cond)[i].to \in
                    ToSet(Append([j \in DOMAIN cases |-> cases[j].to], default))
<1> DEFINE ways == Cases(cases, default, cond)
           tos == [j \in DOMAIN cases |-> cases[j].to]
           all == Append(tos, default)
<1>1. Len(cases) \in Nat /\ DOMAIN cases = 1 .. Len(cases)
  OBVIOUS
<1>2. /\ DOMAIN ways \subseteq DOMAIN cases \cup {Len(cases) + 1}
      /\ \A i \in DOMAIN ways : ways[i].to = default \/ (i \in DOMAIN cases /\ ways[i].to = cases[i].to)
  BY DEF Cases
<1>3. /\ tos \in Seq({cases[j].to : j \in DOMAIN cases} \cup {default}) /\ Len(tos) = Len(cases)
      /\ \A j \in DOMAIN cases : tos[j] = cases[j].to
  BY <1>1
<1> HIDE DEF ways, tos
<1>4. /\ DOMAIN all = 1 .. Len(cases) + 1 /\ all[Len(cases) + 1] = default
      /\ \A j \in 1 .. Len(cases) : all[j] = tos[j]
  BY ONLY <1>1, <1>3
<1>5. default \in ToSet(all) /\ \A j \in DOMAIN cases : cases[j].to \in ToSet(all)
  BY ONLY <1>1, <1>3, <1>4 DEF ToSet
<1>6. DOMAIN ways \subseteq 1 .. Len(cases) + 1
  BY ONLY <1>1, <1>2
<1> QED
  BY <1>2, <1>5, <1>6 DEF ways, tos

LEMMA SwitchKeeps == ASSUME InterpreterInv, Switch PROVE InterpreterInv'
<1>1. AtEnd("switch")
  BY Zenon DEF Switch
<1>2. /\ InBlock /\ Terminator.op = "switch"
      /\ ToSet(SuccessorsOf(Terminator)) \subseteq BlocksOf(CurrentFunction)
      /\ IsEnd(Code(CurrentFunction), Terminator)
      /\ IsMerged(CurrentFunction, CurrentBlock, block[CurrentFunction])
      /\ IsState(Code(CurrentFunction), State)
  BY <1>1, Ending
<1>3. PICK f, b : f = CurrentFunction /\ b = CurrentBlock
  OBVIOUS
<1>4. PICK out, x : out = State /\ x = Terminator.on
  <2> DEFINE s == State
             y == Terminator.on
  <2>1. s = State /\ y = Terminator.on
    BY ONLY TRUE
  <2> HIDE DEF s, y
  <2> QED
    BY ONLY <2>1, Zenon
<1>5. PICK ways : /\ ways = Cases(Terminator.cases, Terminator.default, Get(out, x))
                  /\ LET succs == [i \in DOMAIN ways |-> ways[i].to]
                         merged == MergeInto(block[f], succs, out)
                     IN  LeaveBlock([c \in DOMAIN merged |->
                                       IF c \in ToSet(succs)
                                         THEN addToInput(merged[c], x, ways[LastWay(succs, c)].is)
                                         ELSE merged[c]], succs)
  BY <1>3, <1>4, Zenon DEF Switch
<1>6. /\ Terminator.cases \in Seq(ToSet(Terminator.cases))
      /\ IsOperand(Code(f), x)
  BY <1>2, <1>3, <1>4, Zenon DEF IsEnd
<1> DEFINE succs == [i \in DOMAIN ways |-> ways[i].to]
           merged == MergeInto(block[f], succs, out)
           added(c) == addToInput(merged[c], x, ways[LastWay(succs, c)].is)
           blocks == [c \in DOMAIN merged |-> IF c \in ToSet(succs) THEN added(c) ELSE merged[c]]
<1>7. ToSet(succs) \subseteq BlocksOf(f) /\ DOMAIN succs \subseteq Nat
  <2>1. SuccessorsOf(Terminator) =
          Append([j \in DOMAIN Terminator.cases |-> Terminator.cases[j].to], Terminator.default)
    BY ONLY <1>2 DEF SuccessorsOf
  <2>2. /\ DOMAIN ways \subseteq 1 .. Len(Terminator.cases) + 1
        /\ \A i \in DOMAIN ways : ways[i].to \in ToSet(SuccessorsOf(Terminator))
    BY <1>5, <1>6, <2>1, CasesLead, Zenon
  <2>3. DOMAIN succs \subseteq Nat
    BY ONLY <1>6, <2>2
  <2>4. \A c \in ToSet(succs) : \E i \in DOMAIN ways : c = ways[i].to
    BY ONLY TRUE DEF ToSet
  <2>5. \A c \in ToSet(succs) : c \in ToSet(SuccessorsOf(Terminator))
    BY ONLY <2>2, <2>4, Zenon
  <2> QED
    BY <1>2, <1>3, <1>4, <2>3, <2>5
<1>8. LeaveBlock(blocks, succs)
  BY <1>5, Zenon
<1> HIDE DEF succs
<1>9. IsMerged(f, b, merged)
  BY <1>2, <1>3, <1>4, MergedInto
<1> HIDE DEF merged
<1>10. \A c \in BlocksOf(f) : /\ IsBlock(Code(f), added(c))
                             /\ added(c).out = merged[c].out
                             /\ added(c).visited = merged[c].visited
                             /\ added(c).fixpoint = merged[c].fixpoint
  <2> TAKE c \in BlocksOf(f)
  <2>1. IsBlock(Code(f), merged[c])
    BY <1>9, Zenon DEF IsMerged
  <2> QED
    BY <1>6, <2>1, AddedBlock
<1>11. /\ DOMAIN blocks = BlocksOf(f)
       /\ \A c \in BlocksOf(f) : blocks[c] = IF c \in ToSet(succs) THEN added(c) ELSE merged[c]
  BY <1>9, Zenon DEF IsMerged
<1> HIDE DEF added, blocks
<1>12. ASSUME NEW c \in BlocksOf(f)
       PROVE  /\ IsBlock(Code(f), blocks[c])
              /\ blocks[c].visited = block[f][c].visited
              /\ blocks[c].fixpoint = block[f][c].fixpoint
              /\ blocks[c].out = block[f][c].out \/ c = b
  <2>1. /\ IsBlock(Code(f), merged[c])
        /\ merged[c].visited = block[f][c].visited
        /\ merged[c].fixpoint = block[f][c].fixpoint
        /\ merged[c].out = block[f][c].out \/ c = b
    BY ONLY <1>9, <1>12, Zenon DEF IsMerged
  <2>2. /\ IsBlock(Code(f), added(c))
        /\ added(c).out = merged[c].out
        /\ added(c).visited = merged[c].visited
        /\ added(c).fixpoint = merged[c].fixpoint
    BY ONLY <1>10, <1>12, Zenon
  <2>3. blocks[c] = added(c) \/ blocks[c] = merged[c]
    BY ONLY <1>11, <1>12, Zenon
  <2> QED
    BY ONLY <2>1, <2>2, <2>3, Zenon
<1>13. IsMerged(f, b, blocks)
  BY <1>11, <1>12, Zenon DEF IsMerged
<1> QED
  BY <1>2, <1>3, <1>4, <1>7, <1>8, <1>13, LeaveBlockKeeps
-----------------------------------------------------------------------------
(* The theorem                                                             *)

LEMMA ValueKeeps ==
    ASSUME InterpreterInv, Phi \/ BinaryOperator \/ Select \/ CallDeclaration \/ CallRecursively
    PROVE  InterpreterInv'
<1>1. ASSUME Phi PROVE InterpreterInv'
  BY <1>1, AssignedKeeps DEF Phi
<1>2. ASSUME BinaryOperator PROVE InterpreterInv'
  BY <1>2, AssignedKeeps DEF BinaryOperator
<1>3. ASSUME Select PROVE InterpreterInv'
  BY <1>3, AssignedKeeps DEF Select
<1>4. ASSUME CallDeclaration PROVE InterpreterInv'
  BY <1>4, AssignedKeeps DEF CallDeclaration
<1>5. ASSUME CallRecursively PROVE InterpreterInv'
  BY <1>5, AssignedKeeps DEF CallRecursively
<1> QED
  BY <1>1, <1>2, <1>3, <1>4, <1>5

LEMMA StutterKeeps ==
    ASSUME InterpreterInv, UNCHANGED <<program, todo, func, block, stack>>
    PROVE  InterpreterInv'
<1>1. /\ UNCHANGED program /\ UNCHANGED todo /\ UNCHANGED func /\ UNCHANGED block /\ UNCHANGED stack
  OBVIOUS
<1>2. FuncTypes' /\ program' \in Programs /\ todo' \in Seq(Functions')
  BY <1>1, SameFunctions, SameProgram DEF InterpreterInv
<1>3. BlockTypes'
  BY <1>1, SameBlocks DEF InterpreterInv, BlockTypes
<1>4. StackTypes'
  BY <1>1, SameProgram, Zenon DEF InterpreterInv, StackTypes
<1>5. VisitTypes'
  <2>1. SameVisits(block, block') /\ \A f, b : Begun(f, b) => Begun(f, b)'
    BY <1>1 DEF SameVisits, Begun
  <2> QED
    BY <1>1, <2>1, KeepVisits DEF InterpreterInv
<1> QED
  BY <1>2, <1>3, <1>4, <1>5, Zenon DEF InterpreterInv

LEMMA InitHolds == Init => InterpreterInv
<1> SUFFICES ASSUME Init PROVE InterpreterInv
  OBVIOUS
<1>1. /\ program \in Programs /\ todo = program.roots /\ stack = <<>>
      /\ func = [f \in Functions |-> NewFunction]
      /\ block = [f \in Functions |-> [b \in BlocksOf(f) |-> NewBlock]]
  BY DEF Init, Functions, BlocksOf
<1>2. todo \in Seq(Functions)
  BY <1>1, ProgramsAssumption DEF Functions
<1>3. FuncTypes
  <2>1. /\ NewFunction = [x \in {"args", "in", "out"} |-> NewFunction[x]]
        /\ NewFunction.in = NoState
    BY DEF NewFunction
  <2>2. DOMAIN func = Functions /\ \A f \in Functions : func[f] = NewFunction
    BY <1>1
  <2>3. \A f \in Functions : IsState(Code(f), func[f].in)
    BY <2>1, <2>2, NewState
  <2> QED
    BY <2>1, <2>2, <2>3 DEF FuncTypes
<1>4. \A f \in Functions : \A b \in BlocksOf(f) : block[f][b] = NewBlock
  BY <1>1
<1>5. BlockTypes
  <2>1. DOMAIN block = Functions /\ \A f \in Functions : block[f] = [b \in BlocksOf(f) |-> block[f][b]]
    BY <1>1
  <2>2. \A f \in Functions : \A b \in BlocksOf(f) : IsBlock(Code(f), block[f][b])
    BY <1>4, NewBlocks, Zenon
  <2> QED
    BY <2>1, <2>2, Zenon DEF BlockTypes, AreBlocks
<1>6. StackTypes
  BY <1>1 DEF StackTypes
<1>7. VisitTypes
  <2>1. NewBlock.fixpoint = FALSE /\ NewBlock.out = NoState
    BY DEF NewBlock
  <2> QED
    BY <1>4, <2>1, Zenon DEF VisitTypes
<1> QED
  BY <1>1, <1>2, <1>3, <1>5, <1>6, <1>7, Zenon DEF InterpreterInv

LEMMA NextKeeps == InterpreterInv /\ [Next]_vars => InterpreterInv'
<1> SUFFICES ASSUME InterpreterInv, [Next]_vars PROVE InterpreterInv'
  OBVIOUS
<1>1. ASSUME InterpretRoot PROVE InterpreterInv'
  BY <1>1, InterpretRootKeeps
<1>2. ASSUME BeginBlock PROVE InterpreterInv'
  BY <1>2, BeginBlockKeeps
<1>3. ASSUME EndFunction PROVE InterpreterInv'
  BY <1>3, EndFunctionKeeps
<1>4. ASSUME Phi \/ BinaryOperator \/ Select \/ CallDeclaration \/ CallRecursively
      PROVE  InterpreterInv'
  BY <1>4, ValueKeeps
<1>5. ASSUME ICmp PROVE InterpreterInv'
  BY <1>5, ICmpKeeps
<1>6. ASSUME CallFunction PROVE InterpreterInv'
  BY <1>6, CallFunctionKeeps
<1>7. ASSUME CallUnchanged PROVE InterpreterInv'
  BY <1>7, CallUnchangedKeeps
<1>8. ASSUME Return PROVE InterpreterInv'
  BY <1>8, ReturnKeeps
<1>9. ASSUME Jump PROVE InterpreterInv'
  BY <1>9, JumpKeeps
<1>10. ASSUME Branch PROVE InterpreterInv'
  BY <1>10, BranchKeeps
<1>11. ASSUME Switch PROVE InterpreterInv'
  BY <1>11, SwitchKeeps
<1>12. ASSUME Abort PROVE InterpreterInv'
  BY <1>12, StutterKeeps DEF Abort
<1>13. ASSUME UNCHANGED vars PROVE InterpreterInv'
  BY <1>13, StutterKeeps DEF vars
<1> QED
  BY <1>1, <1>2, <1>3, <1>4, <1>5, <1>6, <1>7, <1>8, <1>9, <1>10, <1>11, <1>12, <1>13, Zenon DEF Next

LEMMA InvImpliesTypeOK == InterpreterInv => TypeOK
<1> SUFFICES ASSUME InterpreterInv PROVE TypeOK
  OBVIOUS
<1>1. DOMAIN stack = 1 .. Len(stack)
  BY StackFacts
<1>2. \A i, j \in DOMAIN stack : stack[i].func = stack[j].func => i = j
  BY <1>1, Zenon DEF InterpreterInv, StackTypes
<1>3. \A i \in DOMAIN stack :
        IsInjective(stack[i].queue) /\ ToSet(stack[i].queue) \subseteq BlocksOf(stack[i].func)
  BY <1>1, Zenon DEF InterpreterInv, StackTypes, IsFrame
<1>4. \A f \in Functions : \A b \in BlocksOf(f) :
        /\ block[f][b].fixpoint => block[f][b].visited
        /\ \A x \in DOMAIN block[f][b].in.ints \cup DOMAIN block[f][b].out.ints :
             IsOperand(program.functions[f], x)
  <2> TAKE f \in Functions
  <2> TAKE b \in BlocksOf(f)
  <2>1. IsBlock(program.functions[f], block[f][b])
    BY Zenon DEF InterpreterInv, BlockTypes, AreBlocks, Code
  <2>2. \A x \in DOMAIN block[f][b].in.ints \cup DOMAIN block[f][b].out.ints :
          IsOperand(program.functions[f], x)
    BY <2>1 DEF IsBlock, IsState
  <2> QED
    BY <2>2, Zenon DEF InterpreterInv, VisitTypes
<1> QED
  BY ONLY <1>2, <1>3, <1>4 DEF TypeOK

\* However calls and loops are nested: a function is interpreted once at a time,
\* a block is in its queue once and belongs to the function, only a visited block
\* is taken for one at a fixpoint, and no state of a block knows a value that the
\* function does not compute (Interpreter::interpretFunction and the visitors).
THEOREM TypesHold == Spec => []TypeOK
<1>1. Spec => []InterpreterInv
  BY InitHolds, NextKeeps, PTL DEF Spec
<1> QED
  BY <1>1, InvImpliesTypeOK, PTL
=============================================================================
