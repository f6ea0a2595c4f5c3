------------------------------ MODULE Portfolio -----------------------------
(***************************************************************************)
(* The portfolio solver: one query is given to several SMT solvers, each   *)
(* in a forked child that writes its result into a pipe.  The parent takes *)
(* the first result, or gives up after a timeout, kills the rest and waits *)
(* until it has no child left.                                             *)
(*                                                                         *)
(* The children are not the only ones of the process: the native clang is  *)
(* run by a thread of its own while the passes query solvers.              *)
(***************************************************************************)
EXTENDS Naturals, Sequences, FiniteSets

CONSTANTS Solvers,      \* the configured solvers, portfolio/use-solver
          Compilers,    \* clang commands run by the other thread
          Timed,        \* is portfolio/force-timeout different from 0?
          MaxQueries,   \* bound on the queries asked
          MaxDeaths     \* bound on the solvers that die without an answer

ASSUME SolversAssumption == Solvers # {}
ASSUME ChildrenAssumption == Solvers \cap Compilers = {}
ASSUME TimedAssumption == Timed \in BOOLEAN
ASSUME BoundsAssumption == MaxQueries \in Nat /\ MaxDeaths \in Nat

VARIABLES
    pc,         \* where isViolated is
    piped,      \* solver whose pipe the parent has open for writing, if any
    process,    \* the process table entry of every child
    answer,     \* what a solver found out
    written,    \* solvers whose result is in their pipe
    inherited,  \* pipes whose write end a compiler has inherited
    files,      \* pipes that select reported
    results,    \* the results read from them
    verdict,    \* what isViolated returns
    timedOut,   \* did select time out?
    queries, deaths,
    clangRes    \* what the other thread learned of each compiler

solving == <<answer, written>>
clang == <<inherited, clangRes>>
vars == <<pc, piped, process, solving, clang, files, results, verdict, timedOut,
          queries, deaths>>

Definite == {"sat", "unsat"}
Answers == Definite \cup {"unknown"}
Children == Solvers \cup Compilers

ProcessStates == {"none", "running", "sleeping", "zombie", "reaped"}
Phases == {"idle", "fork", "forked", "select", "kill", "parse", "cleanup",
           "returned"}

Alive(c) == process[c] \in {"running", "sleeping"}
Ended(c) == process[c] \in {"zombie", "reaped"}

-----------------------------------------------------------------------------
Init ==
    /\ pc = "idle"
    /\ piped = {}
    /\ process = [c \in Children |-> "none"]
    /\ answer = [s \in Solvers |-> "unknown"]
    /\ written = {}
    /\ inherited = [c \in Compilers |-> {}]
    /\ files = {}
    /\ results = <<>>
    /\ verdict = "unknown"
    /\ timedOut = FALSE
    /\ queries = 0 /\ deaths = 0
    /\ clangRes = [c \in Compilers |-> "pending"]

-----------------------------------------------------------------------------
(* The solver children                                                     *)

\* Mutant: a solver that found nothing out reports it at once.
SolveWithoutSleep(s, result) ==
    /\ process[s] = "running"
    /\ s \notin written
    /\ answer' = [answer EXCEPT ![s] = result]
    /\ written' = written \cup {s}
    /\ UNCHANGED <<process, pc, piped, clang, files, results, verdict, timedOut,
                   queries, deaths>>

\* The solver ends with a result and writes it; an unknown one sleeps first,
\* for as many seconds as the parent's timeout has milliseconds.
Solve(s, result) ==
    /\ process[s] = "running"
    /\ s \notin written
    /\ answer' = [answer EXCEPT ![s] = result]
    /\ IF result = "unknown" /\ Timed
         THEN /\ process' = [process EXCEPT ![s] = "sleeping"]
              /\ UNCHANGED written
         ELSE /\ written' = written \cup {s}
              /\ UNCHANGED process
    /\ UNCHANGED <<pc, piped, clang, files, results, verdict, timedOut, queries,
                   deaths>>

\* close(opipe); exit(0)
Exit(s) ==
    /\ process[s] = "running"
    /\ s \in written
    /\ process' = [process EXCEPT ![s] = "zombie"]
    /\ UNCHANGED <<pc, piped, solving, clang, files, results, verdict, timedOut,
                   queries, deaths>>

\* The solver library crashes, or an ASSERT of the translation fails.
Die(s) ==
    /\ process[s] = "running"
    /\ s \notin written
    /\ deaths < MaxDeaths
    /\ deaths' = deaths + 1
    /\ process' = [process EXCEPT ![s] = "zombie"]
    /\ UNCHANGED <<pc, piped, solving, clang, files, results, verdict, timedOut,
                   queries>>

-----------------------------------------------------------------------------
(* The native clang's thread                                               *)

\* A fork of this thread copies every descriptor the process has open, and exec
\* closes none of them.
Spawn(c) ==
    /\ process[c] = "none"
    /\ process' = [process EXCEPT ![c] = "running"]
    /\ inherited' = [inherited EXCEPT ![c] = piped]
    /\ UNCHANGED <<pc, piped, solving, files, results, verdict, timedOut,
                   queries, deaths, clangRes>>

Compile(c) ==
    /\ process[c] = "running"
    /\ process' = [process EXCEPT ![c] = "zombie"]
    /\ UNCHANGED <<pc, piped, solving, clang, files, results, verdict, timedOut,
                   queries, deaths>>

\* waitpid on the compiler fails when somebody else has reaped it.
Collect(c) ==
    /\ clangRes[c] = "pending"
    /\ Ended(c)
    /\ clangRes' = [clangRes EXCEPT ![c] =
                      IF process[c] = "zombie" THEN "status" ELSE "failure"]
    /\ process' = [process EXCEPT ![c] = "reaped"]
    /\ UNCHANGED <<pc, piped, solving, inherited, files, results, verdict,
                   timedOut, queries, deaths>>

-----------------------------------------------------------------------------
(* isViolated                                                              *)

Ask ==
    /\ pc \in {"idle", "returned"}
    /\ queries < MaxQueries
    /\ queries' = queries + 1
    /\ pc' = "fork"
    /\ process' = [c \in Children |->
                     IF c \in Solvers THEN "none" ELSE process[c]]
    /\ answer' = [s \in Solvers |-> "unknown"]
    /\ written' = {}
    /\ files' = {}
    /\ results' = <<>>
    /\ timedOut' = FALSE
    /\ UNCHANGED <<piped, clang, verdict, deaths>>

\* pipe()
MakePipe(s) ==
    /\ pc = "fork"
    /\ piped = {}
    /\ process[s] = "none"
    /\ piped' = {s}
    /\ pc' = "forked"
    /\ UNCHANGED <<process, solving, clang, files, results, verdict, timedOut,
                   queries, deaths>>

Fork(s) ==
    /\ pc = "forked"
    /\ s \in piped
    /\ process[s] = "none"
    /\ process' = [process EXCEPT ![s] = "running"]
    /\ UNCHANGED <<pc, piped, solving, clang, files, results, verdict, timedOut,
                   queries, deaths>>

\* close(opipe) in the parent, and on to the next solver.
CloseWriteEnd(s) ==
    /\ pc = "forked"
    /\ s \in piped
    /\ process[s] # "none"
    /\ piped' = {}
    /\ pc' = IF \E t \in Solvers : process[t] = "none" THEN "fork" ELSE "select"
    /\ UNCHANGED <<process, solving, clang, files, results, verdict, timedOut,
                   queries, deaths>>

\* No process holds the write end of this pipe any more.
AtEof(s) ==
    /\ Ended(s)
    /\ \A c \in Compilers : Alive(c) => s \notin inherited[c]

Readable(s) == s \in written \/ AtEof(s)

SelectReady ==
    /\ pc = "select"
    /\ files' = {s \in Solvers : Readable(s)}
    /\ files' # {}
    /\ pc' = "kill"
    /\ UNCHANGED <<piped, process, solving, clang, results, verdict, timedOut,
                   queries, deaths>>

\* SIGTERM has its default effect on a solver; one that has ended does not mind.
Killed(victims) ==
    [c \in Children |->
        IF c \in victims /\ Alive(c) THEN "zombie" ELSE process[c]]

SelectTimeout ==
    /\ pc = "select"
    /\ Timed
    /\ \A s \in Solvers : ~Readable(s)
    /\ timedOut' = TRUE
    /\ verdict' = "unknown"
    /\ process' = Killed(Solvers)
    /\ pc' = "cleanup"
    /\ UNCHANGED <<piped, solving, clang, files, results, queries, deaths>>

\* Mutant: the solvers that lost the race are left to themselves.
KillNone ==
    /\ pc = "kill"
    /\ pc' = "parse"
    /\ UNCHANGED <<piped, process, solving, clang, files, results, verdict,
                   timedOut, queries, deaths>>

\* Mutant: the losers are taken for a kind of process of their own.
KillMarks ==
    /\ pc = "kill"
    /\ process' = [c \in Children |->
                      IF c \in Solvers \ files THEN "killed" ELSE process[c]]
    /\ pc' = "parse"
    /\ UNCHANGED <<piped, solving, clang, files, results, verdict, timedOut,
                   queries, deaths>>

KillRest ==
    /\ pc = "kill"
    /\ process' = Killed(Solvers \ files)
    /\ pc' = "parse"
    /\ UNCHANGED <<piped, solving, clang, files, results, verdict, timedOut,
                   queries, deaths>>

\* Mutant: restype() without has_restype(); the first enumerator is SAT.
FromProtobufDefault(s) == IF s \in written THEN answer[s] ELSE "sat"

\* An empty pipe parses: it has no restype, and fromProtobuf reads unknown.
FromProtobuf(s) == IF s \in written THEN answer[s] ELSE "unknown"

\* ParseFromFileDescriptor reads up to the end of the file.
Parse(s) ==
    /\ pc = "parse"
    /\ s \in files
    /\ AtEof(s)
    /\ results' = Append(results, FromProtobuf(s))
    /\ files' = files \ {s}
    /\ UNCHANGED <<pc, piped, process, solving, clang, verdict, timedOut,
                   queries, deaths>>

Acquire ==
    /\ pc = "parse"
    /\ files = {}
    /\ verdict' = Head(results)
    /\ pc' = "cleanup"
    /\ UNCHANGED <<piped, process, solving, clang, files, results, timedOut,
                   queries, deaths>>

\* while(wait(nullptr) != -1): any child of the process will do.
WaitAny(c) ==
    /\ pc = "cleanup"
    /\ process[c] = "zombie"
    /\ process' = [process EXCEPT ![c] = "reaped"]
    /\ UNCHANGED <<pc, piped, solving, clang, files, results, verdict, timedOut,
                   queries, deaths>>

\* Mutant: one wait() for the one solver that won.
ReturnAfterOneWait ==
    /\ pc = "cleanup"
    /\ \E c \in Children : process[c] = "reaped"
    /\ pc' = "returned"
    /\ UNCHANGED <<piped, process, solving, clang, files, results, verdict,
                   timedOut, queries, deaths>>

Return ==
    /\ pc = "cleanup"
    /\ \A c \in Children : process[c] \in {"none", "reaped"}
    /\ pc' = "returned"
    /\ UNCHANGED <<piped, process, solving, clang, files, results, verdict,
                   timedOut, queries, deaths>>

-----------------------------------------------------------------------------
isViolated ==
    \/ \E s \in Solvers :
         MakePipe(s) \/ Fork(s) \/ CloseWriteEnd(s) \/ Parse(s)
    \/ SelectReady \/ SelectTimeout \/ KillRest \/ Acquire
    \/ \E c \in Children : WaitAny(c)
    \/ Return

Solver(s) == Exit(s) \/ Die(s) \/ \E result \in Answers : Solve(s, result)

Compiler(c) == Spawn(c) \/ Compile(c) \/ Collect(c)

Next ==
    \/ Ask
    \/ isViolated
    \/ \E s \in Solvers : Solver(s)
    \/ \E c \in Compilers : Compiler(c)

Spec == Init /\ [][Next]_vars

\* The parent runs, select's timer expires, a child that has its answer exits
\* and a compiler ends; but a solver may search for ever.
FairSpec ==
    /\ Spec
    /\ WF_vars(isViolated)
    /\ \A s \in Solvers : WF_vars(Exit(s))
    /\ \A c \in Compilers : WF_vars(Compile(c)) /\ WF_vars(Collect(c))

-----------------------------------------------------------------------------
(* Properties                                                              *)

\* Every variable has its type: the process table entries, the results read,
\* the verdict.
TypeOK ==
    /\ pc \in Phases
    /\ piped \in SUBSET Solvers
    /\ process \in [Children -> ProcessStates]
    /\ answer \in [Solvers -> Answers]
    /\ written \in SUBSET Solvers
    /\ inherited \in [Compilers -> SUBSET Solvers]
    /\ files \in SUBSET Solvers
    /\ results \in Seq(Answers)
    /\ verdict \in Answers
    /\ timedOut \in BOOLEAN
    /\ queries \in 0..MaxQueries
    /\ deaths \in 0..MaxDeaths
    /\ clangRes \in [Compilers -> {"pending", "status", "failure"}]

\* A definite verdict is one that a solver gave for this very query: neither a
\* dead child nor a pipe of an earlier query is ever read as sat or unsat,
\* although SAT is what protobuf answers for a missing restype.
VerdictHasWitness ==
    pc = "returned" /\ verdict \in Definite =>
        \E s \in written : answer[s] = verdict

\* With the timeout configured, isViolated returns unknown only when time ran
\* out or a solver died: the sleep before an unknown is written holds it back
\* until the solvers that still search have lost their chance.
UnknownNeedsACause ==
    pc = "returned" /\ Timed /\ verdict = "unknown" => timedOut \/ deaths > 0

\* "We are not interested in unknowns": an unknown never wins against a solver
\* that has not answered.
UnknownsNeverWin ==
    pc = "returned" /\ verdict = "unknown" /\ ~timedOut =>
        \A s \in Solvers : s \in written

\* isViolated leaves no solver of its own behind, running or dead, whichever of
\* them was killed, late, asleep or crashed.
NoSolverLeft ==
    pc = "returned" => \A s \in Solvers : process[s] = "reaped"

\* With a timeout every query is answered, although solvers may search for ever
\* and a compiler may hold a pipe open that isViolated reads to its end.
EveryQueryAnswered == pc = "fork" ~> pc = "returned"
=============================================================================
