# A verification project for Borealis

Borealis is a bounded model checker for C. `wrapper`, put in the place of the
compiler, runs the native clang and beside it a pipeline of LLVM passes that
derive a *predicate state* for every instruction, turn possible defects into
queries, give the queries to SMT solvers, and keep the verdicts in a file that
later and concurrent runs read. This directory holds TLA+ models of the parts of
it whose correctness depends on orders, failures or shapes that tests seldom
meet, the TLC runs that check them, and proofs for TLAPS. Paths below are
relative to `src/`.

    tlc -workers 2 -config MCDefectManager.cfg MCDefectManager   # one run
    tlapm DefectManagerProofs.tla                                # the proofs

## 1. The system

    wrapper.cpp ── Driver/gestalt ──┬── native clang (a thread, a child process)
                                    └── clang_pipeline (module cache, claim, link)
                                          └── llvm_pipeline: passes in the order of the configuration
      annotations, loop deroll, simplifycfg, mergereturn
        └─ PredicateAnalysis ─ PredicateStateAnalysis ─┬─ FunctionManager (inline summaries)
                                                       └─ checkers ─ CheckHelper ─┬─ StateSlicer ─ SMT, portfolio
      IR interpreter (abstract domains) ────────────────────────────────── DefectManager ── persistentDefectData.json
                                                                                  └── Tassadar: executor, MemorySimulator

| component | state it keeps | operations | what makes it correct |
|---|---|---|---|
| defect manager `Passes/Defect` | a json file, a lock file, per run six sets of verdicts | load, sync, forceDump (twice), add and ask | concurrent runs lose nothing, make nothing up, wait for nobody dead |
| portfolio solver `SMT/Portfolio` | pipes, child processes | isViolated, isPathImpossible | a verdict is that of a solver for this query; no process is left; every query returns |
| memory simulator `Executor/MemorySimulator*` | a lazily built segment tree, two offsets | alloca, malloc, calloc, free, store, load, memset, memcpy, memchr | it behaves like memory: reads back, reports exactly the strays |
| predicate state analysis `Passes/PredicateStateAnalysis` | states of blocks and instructions, computed when asked for | one-for-one, one-for-all, one-for-all-reverse; inline summary | a state means exactly the executions that reach its instruction |
| predicate states `State` | none (values) | build, slice, merge, simplify, reverse, crop | operations keep the meaning |
| state slicer `State/Transformer/StateSlicer.cpp` | variables, pointers and conditions collected so far | one pass backwards over a state | no defect is lost, and none made up |
| alias analysis `State/Transformer/LocalStensgaardAA.*`, `Util/disjoint_sets.hpp` | a union-find, what each class points to | find, unite; one visitor per term and predicate | pointers that an execution uses as one are one |
| gestalt `Driver/gestalt.cpp` | a named semaphore, a future | run clang and the passes, combine their status | the status of the native compiler survives; the semaphore is released |
| module cache `Driver/clang_pipeline.cpp` | fileCache, four files per module | readFor, writeFor, get, claim, link | a link sees what the compile of each input wrote |
| abstract interpreter `Interpreter` | states of blocks, a work list, memoised calls | interpret, call, branch, switch, PHI | it ends, and over-approximates |
| abstract domains `Interpreter/Domain` | none (values) | join, widen, arithmetic, comparison, split | they cover what they stand for |
| executor, Tassadar `Executor`, `Passes/Misc` | stack frames | one LLVM instruction at a time | a replayed defect is real |
| SMT back ends, terms, predicates, annotations, trackers, transformations, configuration, protobuf | tables and values | translations | outside of this project, see section 8 |

The pieces meet in a few places. A checker asks the predicate state analysis for
a state, hands a query to the portfolio, and gives the answer to the defect
manager: in `DefectManager` the solver's answer is a free choice between
"defect" and "no defect", which is what `Portfolio` and the analysis may produce.
Tassadar replays what the defect manager holds, on the memory simulator. The
compiler that gestalt starts is a sibling of the solvers of the portfolio; it is
part of `Portfolio` for that reason, and `Gestalt` in turn has the portfolio taking
the compiler's status away (`NativeReaped`). Runs of gestalt meet each other in the
four files of a module, in the semaphore, and in the file of the defect manager.
`StateSlicer` works on the states of `PredicateStates` and asks the alias analysis,
which stands on the union-find; the interpreter stands on the intervals.

**Hard behaviours.** Interleaved runs on one file with a lock that may be stale
or missing; processes that die between two writes; a race of solvers with a
timeout, in a process that has other children and another thread; lazily built
structures (the segment tree, the states of blocks) whose shape depends on the
order of earlier calls; terms that must not merely be equal in meaning but begin
with the very term another function built; a backward pass that must have
collected what it needs before it meets it; a fixpoint whose end depends on where
it widens. `PROJECT.json` lists 40 hazards with their lines. The order of work in
section 9 follows that list.

## 2. Modules

| module | lines modelled | role |
|---|---|---|
| `DefectRecord` | none: the promise | a record that grows, and that only a lost run may empty |
| `DefectManager` | `Passes/Defect/DefectManager.h/.cpp`, `Passes/Checker/CheckHelper.hpp`, the undef checker and the abstract interpreter's checkers as users | runs, the file, the lock |
| `DefectManagerProofs` | none | theorems of section 5 |
| `Portfolio` | `SMT/Portfolio/Solver.cpp`, `SMT/ProtobufConverterImpl.cpp`, compiler thread | one process, its solvers, its compilers |
| `PortfolioProofs` | none | theorems of section 5 |
| `SegmentTree` | `Executor/MemorySimulator/SegmentTreeImpl.*` | trees as values, traversals as operators |
| `MemorySimulator` | `Executor/MemorySimulator.cpp`, memcpy of `Executor/FunctionCalls.cpp` | a program that calls the memory |
| `MemorySimulatorProofs` | none | theorems of section 5 |
| `PredicateStates` | `State/*.cpp`, `State/Transformer/StateOptimizer.cpp` | states as values, their meaning `Paths` |
| `PredicateStateAnalysis` | `Passes/PredicateStateAnalysis/*.cpp`, tables of `Passes/PredicateAnalysis`, `Cropper`, `MarkEraser` | a function, an analysis, questions in any order |
| `ModuleCache` | `Driver/clang_pipeline.cpp`, `Driver/PortableModule.h` | modules of a run, four files per module |
| `Gestalt` | `Driver/gestalt.cpp`, `Driver/clang_pipeline.cpp`, `Driver/interviewer.*` | runs that a build tool starts, which may die |
| `GestaltProofs`, `GestaltLinkProofs` | none | theorems of section 5 |
| `Partition` | what `Util/disjoint_sets.hpp` promises | classes that only merge |
| `UnionFind` | `Util/disjoint_sets.hpp` | links, ranks and compressed paths |
| `UnionFindProofs` | none | theorems of section 5 |
| `Terms` | `Term/*`, `Predicate/*` | the terms and predicates that the next two tell apart |
| `LocalStensgaardAA` | `State/Transformer/LocalStensgaardAA.h`, `MemorySpacer.cpp` | the alias analysis, as operators on what it knows |
| `StateSlicer` | `State/Transformer/StateSlicer.*`, `ControlFlowDepsTracker.*`, simplify, reverse and filter of `State/*.cpp` | one query on one state |
| `SlicedExecutions` | none: the meaning | what states and slices mean, and the properties |
| `Intervals`, `IntervalArithmetic` | `Interpreter/Domain/Numerical/*.hpp` | integers of a width |
| `IntervalProofs` | none | theorems of section 5 |
| `AbstractInterpreter` | `Interpreter/Interpreter.cpp`, `Interpreter/IR/*.cpp`, `Interpreter/Domain/SeparateDomain.hpp` | one interpreter of one program |
| `InterpreterProofs` | none | theorems of section 5 |
| `InterpretedExecutions` | none: the meaning | the program run on concrete numbers, and the properties |
| `MC...` | none | sets for TLC |

A definition carries the name of the function it models where TLA+ allows it.
Operators whose comment begins with "Mutant" are deliberate faults: one form of a
definition as a plausible slip would have it. No specification uses them; each
property was seen to fail when its mutant takes the place of the definition.

### DefectManager

`pc[r]` is where a run (process) is, `op[r]` which use of `locked()` it is in.
One action is one step that another process can see: taking, sharing, failing to
get and waiting for the lock file; reading the file; emptying it (the
constructor of `std::ofstream`); writing it and leaving the lock's scope. The
assignments before the lock is taken (moving the past sets in `sync`, erasing in
`forceDump`) are one action each, since only their run sees them. Checkers add
verdicts between. `Crash` stops a run anywhere; its lock file stays, and
`Available` is LLVM's rule that a lock file of a dead owner is removed.
`LockError` is the `LFS_Error` branch that logs and goes on without a lock;
`Overwrite` then covers two writers at once.

Runs of one gestalt normally exclude each other by a named semaphore
(`Driver/gestalt.cpp:97-109`), but the static that loads the file and the
destructor that dumps it for the last time lie outside of it, and so does every
other user of the file. The model lets runs interleave at every step, which
includes all real interleavings.

### Portfolio

`pc` walks through `isViolated`: for every solver `pipe`, `fork`, `close`; then
`select`, kill, parse, take the first result; then, on leaving the scope,
`wait(nullptr)` until no child is left. `piped` is the write end that the parent
has open between `pipe` and `close`; a compiler started by the other thread at
that time inherits it (`Spawn`), and since nothing is marked close-on-exec keeps
it. `AtEof` is what a reader sees then. A solver that answers "unknown" sleeps
before it writes, when a timeout is configured. The order in which parts of the
hash map are visited is any order.

### SegmentTree and MemorySimulator

A tree is a function from the nodes that exist to their contents; a node is the
range it covers. Where the code descends recursively and changes nodes on its
way, an operator describes the tree afterwards: which nodes exist (`Touched`),
what state a node has been handed from above, where a store ends with a signal.
Recursion over the tree is thus replaced by quantification over nodes.
`ending` tells a signal (`write violation`, `read violation`), an assertion, a
crash and an endless loop apart. `blocks` and `image` are history: what the
program was promised. `image` deliberately becomes "anything" where the
simulator is known to be vague (memset, bytes read by a failed load), so that
the other properties can be checked exactly.

The simulator knows where the half of the stack ends but never compares an offset
with it (`MemorySimulator.cpp`, line 787), and never releases a stack block. A
program that fills the half gets stack blocks in the half of malloc, on top of what
is there. The properties of the memory are false from then on, and say so: they hold
while `StackInItsHalf`. By default (`memory-power`) this takes a stack of 2^32 chunks.

### PredicateStates and PredicateStateAnalysis

A predicate is a value: a tag, a block, a number. A state is a term of
basic/chain/choice records, as in the code, so that slicing compares what the
code compares. `Paths` gives a state its meaning, the set of predicate lists a
solver may follow. The analysis keeps the code's three maps. A question
(`Ask`) to one-for-all computes the blocks back to those already computed, in
topological order, as `getInstructionState` does, and ends the program when a
slice is null or a null state is transformed. A block has one instruction and a
terminator; a function is its successor lists in order, with repetitions, as a
switch has them.

### ModuleCache and Gestalt

`ModuleCache` has `fileCache` of every run and, for every module, the bitcode, the
annotations, the types and the variables on disk. A file is absent, open and not
flushed (`Torn`), or has the contents one run gave it. `writeFor` is one step for
the lock, one for opening and one for flushing each file, one for unlocking;
`readFor` is one step per file and takes no lock, so any other run's steps come
between. What a module is made of is a set of origins, a source and the run that
compiled it, so that lost, stale and mixed inputs of a link can be told apart.
`Gestalt` follows `main`: the jobs of the command in turn, the link (`claim` for
own modules, `readFor` for others), the early return without a module, the
semaphore, the passes, the post, the status of the native clang, then the
destructors in their order: `~impl` writes the cached modules, the future waits for
its thread. The native clang ends beside all this with zero, a positive or a
negative status. A run may be killed anywhere; a lock file of a dead run is removed
by the next who wants it, the count of the semaphore is not restored. A build is a
constant: jobs per run and which runs wait for which.

### UnionFind and Partition

`find` compresses the path it walked, `unite` links by rank; `Root` is `getRoot`
without its side effect, stated without recursion (the root that lies in every
closed set around an element). `Partition` knows only which element is found.

### Terms, LocalStensgaardAA, StateSlicer, SlicedExecutions

Terms are records of an operator and parts. The alias analysis is a record (roots,
what each class points to, which token a term has) that visitors take and return,
since the code keeps an analysis per use. `StateSlicer` has one action for each
stage of `CheckHelper` and `StateSlicer::transform`: give pointers their memory
space (`SpaceMemory`), read query and state (`Prepare`), find the conditions that
dominate (`Track`), slice the reversed state (`SliceReversed`), filter and reverse
again, simplify. `SlicedExecutions` gives states a meaning by assigning addresses
and values to names and letting stores change a memory, and states what a slice
must keep in terms of that.

### Intervals, IntervalArithmetic, AbstractInterpreter, InterpretedExecutions

An integer is a signed and an unsigned interval, as `DoubleInterval` is; bounds wrap
at `Modulus` and the two infinities are integers beyond it. The interpreter has the
code's stack of functions, each with its work list, its states before and after
every block and its flags, and one action per visitor: phi with widening,
arithmetic, select, comparison, the four ways a call may go, return, jump, branch,
switch; `Abort` is every way to a null pointer or a failed assertion. What the code
does with loops over ways out of a block is said in one definition each: `Cases` is
the set of ways a switch takes, `MergeInto` and `LastWay` what is merged and what is
overwritten at their ends, and `AddSuccessors` appends, `InOrder` of the first way to
each, the blocks that are neither at a fixpoint nor in the queue. `ProgramsAssumption`
is what LLVM's verifier has made sure of before the interpreter runs: ends of blocks
lead to blocks of the function, conditions are comparisons of it, operands are
values of it, and a call has an argument for every parameter.
`InterpretedExecutions` runs the same program on all arguments, and compares.

## 3. Runs

| run | instance | what it shows |
|---|---|---|
| `defect_record` | 2 runs, a locus and an undef locus, 1 crash, 1 sync, fair | types; the lock makes read-merge-truncate-write an atomic record (`ImplementsRecord`); every live run ends (`EveryRunEnds`) |
| `defect_faults` | 2 runs, 2 loci, 1 crash, 1 lock error, 1 sync, symmetric | `Provenance`, `ContradictionNeedsTwoRuns`, `FinishedIsRecorded`, `SkipsForGood` with and without a working lock |
| `portfolio` | 3 solvers, 1 compiler, 2 queries, 1 death, timed, fair | `VerdictHasWitness`, `UnknownNeedsACause`, `NoSolverLeft`, `EveryQueryAnswered` |
| `memory` | 16 addresses, chunks of 2 bytes, 2 blocks of 2, 3 or 5 bytes, 2 operations, all loads | `StoredBytesReadBack`, `NoNestedSegments`, `StoresIntoBlocksPass`, `StrayStoresAreCaught` |
| `memory_calloc` | the same tree, 1 operation | violation: section 4 |
| `psa` | simplified loop-free functions of 4 blocks and some of 6, all three modes, 2 questions | `NoInventedPaths`, `NoPathLost`, `SummaryIsTheBody` |
| `gestalt` | 3 runs in five builds, 3 names, 1 death, 1 lock error, fair | `OneRunInThePasses`, `FilesAgree`, `LinksAreExact`, `LinkedFilesHavePassed`, `EveryRunEnds` |
| `disjoint_sets` | 5 elements, any sequence of calls | `RanksGrow`, `TreesAreShallow`, `ImplementsPartition` |
| `slicer` | states of up to 3 statements, and diamonds and switches; 2 addresses, 2 values | `AliasesAreSeen`, `SliceKeepsDefects`, `SliceKeepsReasons`, `SliceInventsNothing`, `SimplifyKeepsDefects` |
| `slicer_optional` | the same states | violation: section 4 |
| `interpreter` | six families of programs on numbers of 4 bits, fair | `ExecutionsAreCovered`, `InterpretationEnds` |
| `interpreter_calls` | functions called three times | violation: section 4 |

**Bounds, and why they are enough.**
*Defect manager*: the file is a pair of sets and the code never relates two loci
except in `alias`, so two loci show everything a third would; two runs give
every race of two bodies, which is all the lock protects against, and the
theorems of section 5 remove the bounds for what matters most. One crash and one
lock error meet every step of the other run. Stopped runs are why deadlock is
not checked.
*Portfolio*: three solvers give a winner, a loser and a sleeper (or a dead one)
at once; the second query shows that nothing of the first is left. One compiler
suffices for an inherited pipe and for a reaped sibling.
*Memory*: depth 3 gives each half an inner node with two chunks on each side,
so blocks smaller than, equal to and larger than a chunk, stores inside a chunk,
over the border of two chunks and over the border of two inner nodes occur; two
allocations are the least that can nest and two operations the least in which
one disturbs the other. Two stack blocks of five bytes fill more than the half of
the stack, so the run also goes where nothing is claimed (`StackInItsHalf`). `Pointers` has the starts, insides and ends of the
blocks of this size and addresses of neither.
*Analysis*: four blocks give every diamond, triangle, switch with repeated
targets, early return and fall-through; the graphs of six add nested and crossed
joins, where the immediate dominator is not the predecessor's. Two questions are
what "what was asked before" needs, since the second one sees either none, some
or all of its predecessors computed. Blocks that simplifycfg would merge are left
out: all shipped configurations run it (and mergereturn) after the loops are
unrolled. Without it `NoPathLost` fails: a block that its only predecessor jumps
to, with no predicate on the edge, slices a chain on itself, which
`PredicateStateChain::sliceOn` answers with null. That assumption is part of what
the run says.
*Gestalt*: a compile, a second writer of the same module and a link are the three
runs that can meet at one module. The builds are: two sources compiled side by side
and linked after both (`Separate`); one source compiled twice at once, and a link
after both (`Twice`) or after one of them (`Racing`, where readers meet a writer);
one command that does everything and whose result is linked again, beside a command
without jobs, with the native clang (`OneCommand`); two links at once that both
want the semaphore (`TwoPrograms`). One death suffices to leave a lock file or torn
files behind, or the semaphore at zero.
*Union-find*: with five elements two trees of rank one can meet a third, and a path
of length two be compressed. The proofs have no bound.
*Slicer*: three statements let a pointer be computed, a cell be written through it
and be read through another; two addresses and two values are what aliases and
comparisons tell apart. Straight lines over loads, geps and stores; casts, ternary
terms, malloc and bounds of objects; diamonds and switches with one statement on
each side between one before and one after. Names are defined once before their
use, as the translation of SSA form defines them.
*Interpreter*: numbers of four bits overflow, wrap and differ as signed and
unsigned numbers within a few iterations, and all executions can be listed. The
families are `Diamonds` (joins and splits by each comparison), `Loops` (headers with
one latch, blocks that are their own successor, loops that the environment ends),
`Arithmetic` (each operation on pairs of ranges, on what a loop has widened, on
anything; selects), `Switches`, `Calls` (one callee, three calls, recursion and
roots in both orders) and `Endless` (a callee that never returns).

**Fairness.** `DefectManager`: every live run takes its next step (the operating
system schedules processes, and a pass over finitely many instructions ends);
crashes are never forced. `Portfolio`: the parent runs, an answered solver exits,
a compiler ends and is collected. A solver's search is *not* fair, it may go on
for ever, and neither is its death; only the timeout makes `EveryQueryAnswered`
true. `Gestalt`: every run takes its next step and every native clang ends (processes
that the operating system schedules); no death is forced. `AbstractInterpreter`: it
is one thread that runs until it is done, so some step is taken as long as one
changes what is left to do; that the steps come to an end is what has to be checked.
The other modules state no liveness: each of their operations is one call.

**Conditions stated in the properties.** `FinishedIsRecorded` holds when no run
crashed and no lock failed. `UnknownNeedsACause` is about the timed portfolio.
`NoPathLost` asks that the successors of a block differ (two cases of a switch
with one target share an entry of the edge map, the later overwrites the
earlier), and for one-for-all-reverse both path properties ask that instructions
have different predicates, since it looks for an instruction by the value of its
predicate. These are weaknesses of the code, listed as hazards, that would hide
everything else if the properties were stated without the condition.
`LinksAreExact` is about links whose inputs the build has ordered before them and
that were written under their locks: `Racing` shows that a link which is not
ordered may read a mixture. `EveryRunEnds` of `Gestalt` leaves out runs behind one
that was killed inside the critical section.
`SliceKeepsReasons` asks that no condition is asked twice on a path (both its values
are then among the conditions at the end, and the slicer takes neither), and, where
a part of the slice has become optional, that no statement reads what a condition
asks. `SimplifyKeepsDefects` asks that no part is optional; `slicer_optional` shows
why. All of them take the analysis's hope as given that two arguments of a function
do not alias (`Apart`).
`ExecutionsAreCovered` holds outside of `IsExempt`, where the interpreter is known to
miss executions, each case named and for each a program of the run that fails
without it:
* `HasSelfLoop`: a block that is its own successor is still first in the queue when
  it would be added, and is not visited again (`Interpreter/Interpreter.cpp:377`).
* `HasConstantFromLatch`: a latch that computes nothing does not change the state of
  its header, and the constant the phi takes from there is not seen.
* `HasSharedCase`: of two cases with one successor the second overwrites the value
  of the condition (`Interpreter/Interpreter.cpp:168`).
* `HasDecidedEquality`: the two states of a branch share their domains, and both
  constraints of an equality end up in either.
* `HasOverflow`: a bound that wraps, and others that do not: `lb > ub` is how the
  empty interval is recognised.
* `HasInfiniteBound`: an infinite bound keeps its sign in every product
  (`Interpreter/Domain/Numerical/Bound.hpp:137`); the unsigned remainder of an unbounded number is empty
  (`Interval.hpp:529`); an arithmetic shift by an unbounded number makes a finite bound
  infinite (`Bound.hpp:341`).
* calls that are not covered: the subject of `interpreter_calls`.

Executions end where an operation overflows, or where its results as signed and
unsigned numbers differ: the code has one division for `sdiv` and `udiv`.

## 4. What the code does otherwise than it says

Three runs end in a counterexample. Each contradicts a line of the repository
that `PROJECT.json` quotes.

* `memory_calloc`: a store of one byte into a calloc'ed chunk forgets that the
  rest of the chunk is zero.
* `slicer_optional`: "everything relevant must be in slice", but `simplify` drops an
  alternative that slicing has emptied, and the one that is left, with its
  condition, becomes mandatory.
* `interpreter_calls`: "if arguments and globals are not changed, then this function
  don't need to be reinterpreted". The arguments are compared with the old ones
  widened by the new, the body is interpreted with the new widened by the old: after
  calls with 0 and 1, a call with 3 counts as unchanged.

Other disagreements have their definition in a module and no run of their own:

* `Portfolio!UnknownsNeverWin`, with `Timed = FALSE`: "we are not interested in
  unknowns", but without `portfolio/force-timeout`, which defaults to 0, an unknown
  answer is written at once and ends the race. The shipped configurations set it.
* `MemorySimulator!StoredStringsLoad`: the offset of a string in its chunk is
  subtracted twice, so a short string that does not begin a chunk cannot be loaded.
* `PredicateStateAnalysis!SummariesSucceed`: with one-for-all, optimised states and
  inline summaries, the state at the return does not begin with the initial state
  as built when the function requires something; the assertion of
  updateInlineSummary fails. The shipped configuration has inline summaries
  commented out.
* `PredicateStateAnalysis!UnreachableIsSkipped`: with the default of
  `psa-check-unreachable`, a block found unreachable is skipped by
  processBasicBlock and finalised all the same, on null states. The shipped
  configuration sets it to false.
* the cases of `IsExempt` in section 3.

## 5. What is proved

For any sets and any bounds, from the ASSUMEs of the modules alone:

| theorem | statement |
|---|---|
| `DefectManagerProofs!TypeCorrect` | `Spec => []TypeOK` |
| `DefectManagerProofs!NothingMadeUp` | `Spec => []Provenance` |
| `DefectManagerProofs!RunsKeepARecord` | with `MaxLockErrors = 0`, `Spec => ImplementsRecord` |
| `DefectManagerProofs!FinishedForGood` | `Spec => []FinishedIsRecorded` |
| `DefectManagerProofs!SkippingIsForGood` | `Spec => SkipsForGood` |
| `DefectManagerProofs!ContradictionsNeedTwoRuns` | `Spec => []ContradictionNeedsTwoRuns` |
| `PortfolioProofs!TypeCorrect` | `Spec => []TypeOK` |
| `PortfolioProofs!VerdictsHaveWitnesses` | `Spec => []VerdictHasWitness` |
| `PortfolioProofs!NothingLeftBehind` | `Spec => []NoSolverLeft` |
| `PortfolioProofs!UnknownsHaveCauses` | `Spec => []UnknownNeedsACause` |
| `GestaltProofs!TypeCorrect` | `Spec => []TypeOK` |
| `GestaltProofs!PassesAreExclusive` | `Spec => []OneRunInThePasses` |
| `GestaltProofs!FilesOfOneWriter` | `Spec => []FilesAgree` |
| `GestaltLinkProofs!ProgramsHavePassed` | `Spec => []LinkedFilesHavePassed` |
| `GestaltLinkProofs!LinksTakeWhatIsThere` | `Spec => []LinksAreExact` |
| `MemorySimulatorProofs!TypeCorrect` | `Spec => []TypeOK` |
| `MemorySimulatorProofs!StoredBytesStay` | `Spec => []StoredBytesReadBack` |
| `MemorySimulatorProofs!SegmentsAreFlat` | `Spec => []NoNestedSegments` |
| `MemorySimulatorProofs!NoFalseAlarms` | `Spec => []StoresIntoBlocksPass` |
| `MemorySimulatorProofs!NoMissedStores` | `Spec => []StrayStoresAreCaught` |
| `UnionFindProofs!TypeCorrect` | `Spec => []TypeOK` |
| `UnionFindProofs!RanksAreOrdered` | `Spec => []RanksGrow` |
| `UnionFindProofs!PathsAreShort` | `Spec => []TreesAreShallow` |
| `UnionFindProofs!UnionFindIsAPartition` | `Spec => ImplementsPartition` |
| `InterpreterProofs!TypesHold` | `Spec => []TypeOK` |
| `IntervalProofs!JoinCovers`, `WidenCovers` | what is in either interval is in the result |
| `IntervalProofs!PlusCovers`, `MinusCovers` | where no finite bound wraps, sums and differences of members are in the result |
| `IntervalProofs!DecidedComparisons` | a comparison that is decided is so for all members |
| `IntervalProofs!SplitKeeps` | neither side of a branch loses a number that takes it |

**DefectManager.** `Provenance` speaks of the disk only; a verdict gets there from
`buf`, and there from the past sets, so `Traceable` adds that both are traceable;
it is inductive because no step takes back what a run found (`VerdictsGrow`).
`LockInv` holds what `locked()` is for: without lock errors, a run inside a body
owns the lock; a run about to truncate has read everything the disk holds; a run
about to write finds the disk empty. With it each step either leaves the abstract
record alone, or joins something to it (only `Truncate` does: the record counts a
rewrite in progress as done, since nobody can read in between), or is the crash
of a run about to write, the only step that may empty it (`RecordStep`). `DumpInv` says
that from forceDump on the local sets cover the run's own verdicts; with the
record's growth this gives `FinishedForGood`.

`SkipsForGood` needs to know where a run can hold something that an assignment
would overwrite: `Carried` says that a run has no past before it has loaded, no
locals while it works and no past while it syncs, so that `Load`, `Sync` and
`Write` overwrite nothing. `ContradictionNeedsTwoRuns` speaks of verdicts that a
run holds *now*, and `forceDump` takes some back. `RefutationInv` finds for every
locus on its way to the list of refuted ones a run that has *settled* it: refuted
it, not found it defective, and in possession of it whenever it works, so that
`hasInfo` keeps it from ever finding it defective (`SettledStays`). The run that
found the locus defective, which `Provenance` gives, is then another one. That
undefined values are never refuted is part of the invariant, because their
checker asks `hasDefect` only.

**Portfolio.** Types need that there is a first result when it is taken
(`SomethingToParse`: select reports a pipe, every pipe reported is read).
`Witnesses` follows a definite result from its pipe through `results` to the
verdict; nothing overwrites an answer that is in its pipe while the query lasts.
`Forked` says that all solvers have been forked when the parent starts to wait,
so that "no child that is not reaped" means all of them. `Causes` says that no
unknown is in a pipe in time, and that a solver that has ended without an answer,
before the parent kills any, has died of itself; it needs the disjointness of
solvers and compilers (`ChildrenAssumption`), two uses of `fork` by one process.

**Gestalt.** `SectionInv`: the semaphore is one or zero, and whoever is in the passes
has taken it from one to zero; a death inside leaves it at zero, which keeps all
others out rather than letting two in. `FilesAgree` is not inductive: between two
files of a module they do differ. `WritersLock` says that a run that is writing a
module which was never written unlocked owns its lock file, and how many of its
files are from this run at each step; a lock is taken over only from a dead run, and
whoever takes it over writes all four files before it unlocks. Types need in
addition what a run holds while it reads and writes (`TypeInv`).

**Links.** `LinksAreExact` compares what a run has linked with what is on disk now,
and so rests on what the runs before it have left. Its invariant was model-checked
part by part before it was proved:

- `PassInv` follows the mark of `llvm.run()` from the linked module through the
  cache to the file, which is `LinkedFilesHavePassed` at its end: `~impl` writes
  nothing of a linked module that has not come through the passes.
- `CacheInv` says what is in `fileCache` of a run: what it has compiled so far and
  its link has not claimed. An input in the cache is therefore an own one.
- `OrderInv`: who has started has the runs before it behind it, ended and not
  killed. `HeldInv`: a lock file belongs to a maker of the module, who is writing
  it or is dead. `LeftInv`: a run that ended well has written every module it made
  and did not link, whole, and nobody has taken it away since. `NobodysInv`: what no
  run makes is never there.
- Together (`PipelineInv`) they make every input of a link that is ordered
  (`Settled`) immutable while the link lasts: its makers are done, nobody else
  writes it. This is why four reads without a lock see one version. `ExactInv` then
  goes through the link: what has been read so far of an input (`ReadSoFar`), what
  of the inputs has been linked and what is still to come (`LinkedSoFar`), which
  stays true in the semaphore, the passes and the wait for the native clang.

What the proof taught about the model: it needs two facts that no run of TLC had
needed since the builds it was given had them. `DriverAssumption` says how the
clang driver (external) lays out the jobs of one command, which
`Driver/interviewer.cpp` takes as they come: the link is the last job, does not
take the file it makes, and what a command compiles for its own link are temporary
files, which no later command links. The last matters: `claim` takes a module out
of the cache, so that `~impl` never writes it, and a link of it by another run
would end in "file or module not found" (with `-save-temps` the names of temporaries
are predictable, and a build could do that). `NothingAssumption` only says that
`None` is a value of its own.

**Memory.** The theorems hold for trees of any depth but zero, chunks of any size, and any
number of blocks and calls. `MemoryInv` has four parts: types (`VarTypes`); what a
tree is (`TreeOK`: what lies above a node is there, only leaves have chunks);
`Extents`, that every allocated node lies below the offset of its half and that its
block is no longer than the node; and, while `StackInItsHalf`, `Agree`:

- `AllApart`: two allocated nodes have no address in common. This is stronger than
  `NoNestedSegments`, which follows; it comes from `Extents`, since a new block
  starts at or after the offset, which `Align` only moves up.
- `blocks = TakenBlocks(tree)`: what the program holds are the allocated nodes,
  neither more nor fewer. Stores into blocks pass and stray stores are caught
  because of this: `checkAllocation` looks at the nodes on the way down, and there
  is exactly one allocated one, or none.
- `ImageHeld`: a byte that was stored is in a block, and the tree `Holds` it, that is, it is in
  the chunk of its leaf and no node on the way down has a state that a descent
  would meet first. Every operation is shown to keep `Holds` for all addresses it
  does not touch: descending opens the children of nodes that have no state
  (`DescendKeepsAll`), a store writes the leaves it touches (`StoreOK`), memset
  gives a state to nodes inside its range (`MemsetOK`), free drops nodes inside the
  block (`WithoutOK`), an allocation gives a state to a node that holds no block,
  and so no stored byte (`AllocateOK`, `BlockPlace`).

Below these lies the shape of the tree, which the code has from its recursion and
the model from the definition of `Nodes`: nodes are nested or apart
(`NestedOrApart`), every address has one leaf below all nodes that cover it
(`OneLeaf`, `AboveLeaf`), a node that is no leaf has two children, halves of it
(`ChildrenAreNodes`), and an aligned offset is the start of a node of the block's
size (`AlignedIsNode`). Least elements and powers of two would need induction; a
least number is found by counting instead (`Least`), and `2^k` is the number of
subsets of `1..k` (`PowerSum`). That a memcpy copies what a load
gives needs the slices of a load to be the leaves it crosses (`LoadBytesOK`).
The assumptions say that the constants are what their names say: sizes are numbers,
pointers addresses, data strings of bytes. `HalvesAssumption` says that the tree
has two halves at all. The parts of `MemoryInv` were checked by TLC on the instance of `memory`
before they were proved. `StackInItsHalf` came with the proof: without bounds the four
properties are false, which smaller stack blocks had kept the run from reaching.

**Union-find.** The invariant is that there is a map from every element to a root on
its path that is the same for an element and its parent (`Forest`); that map is what
getRoot returns. Compression and linking give a new such map. Closed sets take the
place of induction along paths. That ranks grow towards the root (`RanksGrow`) is
what excludes cycles in the code, whose ranks are not updated by compression; in the
proof the highest rank is at the root (`RootHasHighestRank`), so compression keeps
the order. `TreesAreShallow` counts: a link below a root of the same rank adds one
class to a disjoint one (`JoinedIsHeavy`), and `2^(k+1) = 2^k + 2^k`, of which the
provers know nothing, comes from the subsets of `1..k+1` (`PowerStep`). The
elements are finitely many because emplace adds one at a time (`AlwaysFinite`).
The refinement follows: emplace and unite map to those of `Partition`,
and a find to a stutter.

**Interpreter.** `TypeOK` says more than types: one function has one frame at a time,
a block is in its queue once, only a visited block is at a fixpoint, and no state
knows a value that its function does not compute. It holds for every set of programs
that satisfies `ProgramsAssumption`, of any size and nesting. `InterpreterInv` adds
what the actions rely on:

- `StackTypes`: a frame that is not the top one waits at its call (`IsWaiting`), so
  `EndFunction` gives the result to an instruction of the caller; a function is pushed
  only when `callStack_` does not have it, so no two frames visit the same block.
- `BlockTypes`: both states of every block know operands of the function only
  (`IsState`), which each transfer keeps, the split of a branch among them
  (`NarrowState` needs that operands of the condition are the function's own).
- `VisitTypes`: a block that was not visited has no output, unless a frame is in it
  (`Begun`). This is what `atFixpoint` rests on. It calls a block settled when its
  output equals its input, and takes a block without output that was not visited for
  unsettled; if an unvisited block could have output, one that nobody visits could be
  taken for done and left out of the queue for good. While it is being visited it
  does have output and is not marked: `LeaveBlock` asks for its own fixpoint before it
  sets the mark, which a block that is its own successor meets (`SettledBlocks`).
- The queue holds no block twice because those that are added are ordered by the
  first way to them (`OrderIsInjective`); that there is a first way takes a least
  number, for which the proof uses that `<` is well founded on the naturals
  (`FirstWayIsNumber`).

**Intervals.** `Modulus` is any even number. The assumptions of `PlusCovers` and
`MinusCovers` are the ones without which the interpreter is exempt (`HasOverflow`).

## 6. What is only model-checked

Liveness (`EveryRunEnds` twice, `EveryQueryAnswered`, `InterpretationEnds`), for
which the proof system has no rule of fairness; `PredicateStates`,
`PredicateStateAnalysis`, the alias analysis and the slicer, whose states and terms
have unbounded depth and whose operators are recursive; of the interpreter,
`ExecutionsAreCovered`, since the set of executions it is compared with is a
recursive closure, and since it would need the coverage of every operation of
`IntervalArithmetic`, whose products, quotients and bits the provers' arithmetic does
not reach; what calloc and strings do otherwise than documented (section 4), which
is shown by counterexamples.

## 7. Reading the mapping

`PROJECT.json` maps every definition that models code to its lines. What is
marked external (a dying process, signals, end of file, compilers, LLVM's lock
files) is modelled from how the code uses it.

## 8. What is not modelled, and why

* Data without protocol: annotations, configuration, logging, trackers, protobuf.
  Terms and predicates are modelled as far as the slicer tells them apart.
* Translation to solvers and the solvers themselves: an answer is a choice.
* LLVM passes that rewrite code in place (loop unrolling, decomposition, malloc
  mutation): their results are the functions the analysis is given.
* The executor's instructions and the checkers' queries: long lists of cases without
  state of their own; the model would repeat the code.
* Vendored code (google-test, the range analysis, Apron, the SMT libraries) and
  generated tables, more than a third of the lines of code.
* In the modelled parts: the additional info of defects kept for Tassadar; failing
  system calls of the portfolio; globals and symbolic pointers of the simulator;
  interpolation summaries, assume-defects-trigger-once and visited loci of the
  analysis; slicing with LLVM's own alias analysis; unary and axiom terms in the
  alias analysis; memory, floats, structures, casts and calls through pointers in the
  interpreter; preprocessing, the parsing of command lines and the choice of passes
  in the driver.
* The daemon of `Database/`: as a child of the process that never ends it would
  make `wait(nullptr)` of the portfolio wait for ever; that is a hazard, not a
  model.

## 9. Plan

1. `DefectManager` with `DefectRecord`, and proofs of all its safety properties — done.
2. `Portfolio`, with proofs of all its safety properties — done. `SegmentTree`,
   `MemorySimulator`, with proofs of all their safety properties — done.
3. `PredicateStates`, `PredicateStateAnalysis` — done.
4. `UnionFind` implementing `Partition`, proved; `Terms`, `LocalStensgaardAA`,
   `StateSlicer` on top of `PredicateStates` — done.
5. `ModuleCache` and `Gestalt`, with proofs about the semaphore and the files — done.
6. `Intervals`, `IntervalArithmetic`, `AbstractInterpreter` — done for integers and
   Booleans. Left: casts between widths, then the domain of pointers and aggregates.
7. The interpreter of predicate states (`State/Transformer/Interpreter.cpp`) on the
   same domains, compared with `Paths` as the slicer is.
8. Proofs: `LinksAreExact` from an invariant on what is read while nobody writes —
   done; `TreesAreShallow` — done; the memory simulator — done; the frames, queues and
   states of the interpreter — done. Left: the coverage of
   products for non-negative bounds, and of the operators of `PredicateStates` that
   do not recurse.
