--------------------------- MODULE PortfolioProofs --------------------------
(***************************************************************************)
(* Proofs about the portfolio solver, for any number of solvers, compilers *)
(* of the other thread, queries and deaths.                                *)
(***************************************************************************)
EXTENDS Portfolio, TLAPS

-----------------------------------------------------------------------------
(* Types                                                                   *)

\* isViolated takes the first result, so there must be one: select reported a
\* pipe, and every pipe it reported is read.
SomethingToParse ==
    /\ pc = "kill" => files # {}
    /\ pc = "parse" => files # {} \/ results # <<>>

TypeInv == TypeOK /\ SomethingToParse

\* Before the first query there is nothing to parse, and all types are right.
LEMMA InitType == Init => TypeInv
<1> SUFFICES ASSUME Init PROVE TypeInv
  OBVIOUS
<1>1. /\ pc \in Phases /\ verdict \in Answers
      /\ process \in [Children -> ProcessStates]
      /\ answer \in [Solvers -> Answers]
  BY DEF Init, Phases, ProcessStates, Answers
<1>2. /\ inherited \in [Compilers -> SUBSET Solvers]
      /\ clangRes \in [Compilers -> {"pending", "status", "failure"}]
      /\ piped = {} /\ written = {} /\ files = {} /\ timedOut = FALSE
  BY DEF Init
<1>3. results \in Seq(Answers)
  BY DEF Init
<1>4. queries \in 0..MaxQueries /\ deaths \in 0..MaxDeaths
  BY BoundsAssumption DEF Init
<1>5. SomethingToParse
  BY DEF Init, SomethingToParse
<1> QED BY <1>1, <1>2, <1>3, <1>4, <1>5 DEF TypeInv, TypeOK

LEMMA ParsedType ==
    ASSUME answer \in [Solvers -> Answers], NEW s \in Solvers
    PROVE  FromProtobuf(s) \in Answers
BY DEF FromProtobuf, Answers

\* Killing changes the process table to zombies only.
LEMMA KilledType ==
    ASSUME TypeOK, NEW victims
    PROVE  Killed(victims) \in [Children -> ProcessStates]
BY DEF TypeOK, Killed, ProcessStates

\* A solver's steps change its process entry, its answer and its pipe only.
LEMMA SolverType ==
    ASSUME TypeInv, NEW s \in Solvers, Solver(s)
    PROVE  TypeInv'
<1> USE DEF TypeInv, TypeOK, SomethingToParse, solving, clang
<1>1. CASE Exit(s)
  BY <1>1 DEF Exit, ProcessStates
<1>2. CASE Die(s)
  <2>1. deaths' \in 0..MaxDeaths
    BY <1>2, BoundsAssumption DEF Die
  <2>2. process' \in [Children -> ProcessStates]
    BY <1>2 DEF Die, ProcessStates
  <2> QED BY <1>2, <2>1, <2>2 DEF Die
<1>3. ASSUME NEW result \in Answers, Solve(s, result) PROVE TypeInv'
  BY <1>3 DEF Solve, ProcessStates
<1> QED BY <1>1, <1>2, <1>3 DEF Solver

\* The other thread's steps change a compiler's process entry and what it learned.
LEMMA CompilerType ==
    ASSUME TypeInv, NEW c \in Compilers, Compiler(c)
    PROVE  TypeInv'
<1> USE DEF TypeInv, TypeOK, SomethingToParse, solving
<1>1. CASE Spawn(c)
  BY <1>1 DEF Spawn, ProcessStates
<1>2. CASE Compile(c)
  BY <1>2 DEF Compile, ProcessStates, clang
<1>3. CASE Collect(c)
  BY <1>3 DEF Collect, ProcessStates
<1> QED BY <1>1, <1>2, <1>3 DEF Compiler

\* isViolated parses only what select has reported, and takes a first result.
LEMMA QueryType == TypeInv /\ (Ask \/ isViolated) => TypeInv'
<1> SUFFICES ASSUME TypeInv, Ask \/ isViolated PROVE TypeInv'
  OBVIOUS
<1> USE DEF TypeInv, TypeOK, SomethingToParse, solving, clang
<1>1. CASE Ask
  <2>1. process' \in [Children -> ProcessStates]
    BY <1>1 DEF Ask, ProcessStates
  <2>2. answer' \in [Solvers -> Answers]
    BY <1>1 DEF Ask, Answers
  <2>3. queries' \in 0..MaxQueries
    BY <1>1, BoundsAssumption DEF Ask
  <2>4. /\ written' = {} /\ files' = {} /\ results' = <<>>
        /\ timedOut' = FALSE /\ pc' = "fork"
        /\ UNCHANGED <<piped, inherited, clangRes, verdict, deaths>>
    BY <1>1 DEF Ask
  <2>5. results' \in Seq(Answers)
    BY <2>4
  <2> QED BY <2>1, <2>2, <2>3, <2>4, <2>5 DEF Phases
<1>2. ASSUME NEW s \in Solvers, MakePipe(s) PROVE TypeInv'
  BY <1>2 DEF MakePipe, Phases
<1>3. ASSUME NEW s \in Solvers, Fork(s) PROVE TypeInv'
  BY <1>3 DEF Fork, ProcessStates
<1>4. ASSUME NEW s \in Solvers, CloseWriteEnd(s) PROVE TypeInv'
  BY <1>4 DEF CloseWriteEnd, Phases
<1>5. ASSUME NEW s \in Solvers, Parse(s) PROVE TypeInv'
  <2>1. FromProtobuf(s) \in Answers
    BY ParsedType
  <2>2. results' \in Seq(Answers) /\ results' # <<>>
    BY <1>5, <2>1 DEF Parse
  <2> QED BY <1>5, <2>2 DEF Parse
<1>6. CASE SelectReady
  BY <1>6 DEF SelectReady, Phases
<1>7. CASE SelectTimeout
  BY <1>7, KilledType DEF SelectTimeout, Phases, Answers
<1>8. CASE KillRest
  BY <1>8, KilledType DEF KillRest, Phases
<1>9. CASE Acquire
  <2>1. verdict' \in Answers
    BY <1>9 DEF Acquire
  <2> QED BY <1>9, <2>1 DEF Acquire, Phases
<1>10. ASSUME NEW c \in Children, WaitAny(c) PROVE TypeInv'
  BY <1>10 DEF WaitAny, ProcessStates
<1>11. CASE Return
  BY <1>11 DEF Return, Phases
<1> QED
  BY <1>1, <1>2, <1>3, <1>4, <1>5, <1>6, <1>7, <1>8, <1>9, <1>10, <1>11
     DEF isViolated

\* Types, and that there is a first result, hold throughout.
LEMMA TypeInvariant == Spec => []TypeInv
<1>1. TypeInv /\ [Next]_vars => TypeInv'
  <2>1. TypeInv /\ UNCHANGED vars => TypeInv'
    BY DEF TypeInv, TypeOK, SomethingToParse, vars, solving, clang
  <2> QED BY <2>1, SolverType, CompilerType, QueryType DEF Next
<1> QED BY <1>1, InitType, PTL DEF Spec

\* The process table, the results and the verdict keep their types; that there
\* is a first result when isViolated takes it is part of the argument.
THEOREM TypeCorrect == Spec => []TypeOK
<1>1. TypeInv => TypeOK
  BY DEF TypeInv
<1> QED BY <1>1, TypeInvariant, PTL

-----------------------------------------------------------------------------
(* Verdicts have witnesses                                                 *)

Witnessed(result) ==
    result \in Definite => \E s \in written : answer[s] = result

\* The verdict comes from the results, and those from the pipes: all of them
\* must be witnessed from the moment they are read.
Witnesses ==
    /\ \A i \in DOMAIN results : Witnessed(results[i])
    /\ pc \in {"cleanup", "returned"} => Witnessed(verdict)

\* An answer that is in its pipe stays there while the query lasts.
LEMMA WitnessesStay ==
    ASSUME TypeOK, Witnesses,
           written \subseteq written',
           \A s \in written : answer'[s] = answer[s],
           results' = results, verdict' = verdict,
           pc' \in {"cleanup", "returned"} => pc \in {"cleanup", "returned"}
    PROVE  Witnesses'
<1>1. ASSUME NEW result, Witnessed(result)
      PROVE  result \in Definite => \E s \in written' : answer'[s] = result
  BY <1>1 DEF Witnessed
<1> QED BY <1>1 DEF Witnesses, Witnessed

\* Every step of the parent, a solver or a compiler keeps results witnessed.
LEMMA WitnessesStep == TypeInv /\ Witnesses /\ [Next]_vars => Witnesses'
<1> SUFFICES ASSUME TypeInv, Witnesses, [Next]_vars PROVE Witnesses'
  OBVIOUS
<1> USE DEF solving, clang
<1>1. TypeOK
  BY DEF TypeInv
<1>2. CASE Ask
  BY <1>2 DEF Ask, Witnesses
<1>3. ASSUME NEW s \in Solvers, Solver(s) PROVE Witnesses'
  <2>1. ASSUME NEW result \in Answers, Solve(s, result) PROVE Witnesses'
    <3>1. written \subseteq written' /\ \A t \in written : answer'[t] = answer[t]
      BY <1>1, <2>1 DEF Solve, TypeOK
    <3> QED BY <1>1, <2>1, <3>1, WitnessesStay DEF Solve
  <2> QED BY <1>1, <1>3, <2>1, WitnessesStay DEF Solver, Exit, Die
<1>4. ASSUME NEW c \in Compilers, Compiler(c) PROVE Witnesses'
  BY <1>1, <1>4, WitnessesStay DEF Compiler, Spawn, Compile, Collect
<1>5. ASSUME NEW s \in Solvers, MakePipe(s) \/ Fork(s) \/ CloseWriteEnd(s)
      PROVE  Witnesses'
  BY <1>1, <1>5, WitnessesStay DEF MakePipe, Fork, CloseWriteEnd
<1>6. ASSUME NEW s \in Solvers, Parse(s) PROVE Witnesses'
  <2>1. Witnessed(FromProtobuf(s))
    BY DEF Witnessed, FromProtobuf, Definite
  <2>2. results' = Append(results, FromProtobuf(s)) /\ results \in Seq(Answers)
    BY <1>1, <1>6 DEF Parse, TypeOK
  <2>3. ASSUME NEW i \in DOMAIN results' PROVE Witnessed(results'[i])
    <3>1. CASE i \in DOMAIN results
      BY <2>2, <3>1 DEF Witnesses
    <3>2. CASE i = Len(results) + 1
      BY <2>1, <2>2, <3>2
    <3> QED BY <2>2, <3>1, <3>2
  <2> QED BY <1>6, <2>3 DEF Parse, Witnesses, Witnessed
<1>7. CASE SelectReady \/ KillRest \/ Return
  BY <1>1, <1>7, WitnessesStay DEF SelectReady, KillRest, Return
<1>8. CASE SelectTimeout
  BY <1>8 DEF SelectTimeout, Witnesses, Witnessed, Definite
<1>9. CASE Acquire
  <2>1. results # <<>> /\ results \in Seq(Answers)
    BY <1>1, <1>9 DEF TypeInv, SomethingToParse, Acquire, TypeOK
  <2>2. Witnessed(Head(results))
    BY <2>1 DEF Witnesses
  <2> QED BY <1>9, <2>2 DEF Acquire, Witnesses, Witnessed
<1>10. ASSUME NEW c \in Children, WaitAny(c) PROVE Witnesses'
  BY <1>1, <1>10, WitnessesStay DEF WaitAny
<1>11. CASE UNCHANGED vars
  BY <1>1, <1>11, WitnessesStay DEF vars
<1> QED
  BY <1>2, <1>3, <1>4, <1>5, <1>6, <1>7, <1>8, <1>9, <1>10, <1>11
     DEF Next, isViolated

\* Whatever was killed, late or dead, a verdict of sat or unsat was given by a
\* solver for the query that isViolated returns from.
THEOREM VerdictsHaveWitnesses == Spec => []VerdictHasWitness
<1>1. Init => Witnesses
  BY DEF Init, Witnesses
<1>2. Witnesses => VerdictHasWitness
  BY DEF Witnesses, Witnessed, VerdictHasWitness
<1> QED BY <1>1, <1>2, WitnessesStep, TypeInvariant, PTL DEF Spec

-----------------------------------------------------------------------------
(* No solver is left                                                       *)

\* Every solver has been forked once the parent waits for answers, and is
\* reaped when it returns.
Forked ==
    /\ pc \in {"select", "kill", "parse", "cleanup", "returned"} =>
         \A s \in Solvers : process[s] # "none"
    /\ NoSolverLeft

\* No step un-forks a solver that is waited for, or revives a reaped one.
LEMMA ForkedStep == TypeInv /\ Forked /\ [Next]_vars => Forked'
<1> SUFFICES ASSUME TypeInv, Forked, [Next]_vars PROVE Forked'
  OBVIOUS
<1> USE DEF Forked, NoSolverLeft
<1>1. process \in [Children -> ProcessStates] /\ Solvers \subseteq Children
      /\ Compilers \subseteq Children
  BY DEF TypeInv, TypeOK, Children
<1>2. ASSUME NEW c \in Children, NEW state \in ProcessStates \ {"none"},
             process[c] # "reaped" \/ state = "reaped",
             process' = [process EXCEPT ![c] = state], pc' = pc
      PROVE  Forked'
  BY <1>1, <1>2
<1>3. ASSUME process' = process,
             pc' \in {"idle", "fork", "forked"} \/ pc' = pc
      PROVE  Forked'
  BY <1>3
<1>4. CASE Ask
  BY <1>4 DEF Ask
<1>5. ASSUME NEW s \in Solvers, Solver(s) PROVE Forked'
  <2>1. CASE Exit(s) \/ Die(s)
    BY <1>1, <1>2, <2>1 DEF Exit, Die, ProcessStates
  <2>2. ASSUME NEW result \in Answers, Solve(s, result) PROVE Forked'
    BY <1>1, <2>2 DEF Solve
  <2> QED BY <1>5, <2>1, <2>2 DEF Solver
<1>6. ASSUME NEW c \in Compilers, Compiler(c) PROVE Forked'
  BY <1>1, <1>2, <1>6 DEF Compiler, Spawn, Compile, Collect, ProcessStates
<1>7. ASSUME NEW s \in Solvers, MakePipe(s) PROVE Forked'
  BY <1>3, <1>7 DEF MakePipe
<1>8. ASSUME NEW s \in Solvers, Fork(s) PROVE Forked'
  BY <1>8 DEF Fork
<1>9. ASSUME NEW s \in Solvers, CloseWriteEnd(s) PROVE Forked'
  BY <1>9 DEF CloseWriteEnd
<1>10. ASSUME NEW s \in Solvers, Parse(s) PROVE Forked'
  BY <1>3, <1>10 DEF Parse
<1>11. CASE SelectReady \/ Acquire
  BY <1>11 DEF SelectReady, Acquire
<1>12. CASE SelectTimeout \/ KillRest
  BY <1>1, <1>12 DEF SelectTimeout, KillRest, Killed
<1>13. ASSUME NEW c \in Children, WaitAny(c) PROVE Forked'
  BY <1>1, <1>2, <1>13 DEF WaitAny, ProcessStates
<1>14. CASE Return
  BY <1>1, <1>14 DEF Return
<1>15. CASE UNCHANGED vars
  BY <1>3, <1>15 DEF vars
<1> QED
  BY <1>4, <1>5, <1>6, <1>7, <1>8, <1>9, <1>10, <1>11, <1>12, <1>13, <1>14, <1>15
     DEF Next, isViolated

\* isViolated returns only when every solver it forked has been waited for.
THEOREM NothingLeftBehind == Spec => []NoSolverLeft
<1>1. Init => Forked
  BY DEF Init, Forked, NoSolverLeft
<1>2. Forked => NoSolverLeft
  BY DEF Forked
<1> QED BY <1>1, <1>2, ForkedStep, TypeInvariant, PTL DEF Spec

-----------------------------------------------------------------------------
(* What an unknown verdict needs                                           *)

\* No unknown is written in time, and until the parent kills anybody a solver
\* that has ended without writing has died of itself.  So has one whose pipe
\* select reported without a result in it.
Causes ==
    /\ Timed => \A s \in written : answer[s] # "unknown"
    /\ pc \in {"fork", "forked", "select", "kill"} =>
         \A s \in Solvers : Ended(s) => s \in written \/ deaths > 0
    /\ pc \in {"kill", "parse"} => \A s \in files : s \in written \/ deaths > 0
    /\ pc \in {"fork", "forked", "select", "kill", "parse"} /\ Timed =>
         \A i \in DOMAIN results : results[i] = "unknown" => deaths > 0
    /\ pc \in {"cleanup", "returned"} /\ Timed /\ verdict = "unknown" =>
         timedOut \/ deaths > 0

\* A step that ends no solver and starts none, and leaves the results alone.
LEMMA CausesStay ==
    ASSUME Causes,
           \A s \in Solvers : Ended(s)' => Ended(s),
           UNCHANGED <<written, answer, files, results, verdict, timedOut, deaths>>,
           \/ pc' = pc
           \/ {pc, pc'} \subseteq {"fork", "forked", "select"}
    PROVE  Causes'
BY DEF Causes

\* No step makes an unknown without a timeout or a death.
LEMMA CausesStep == TypeInv /\ Causes /\ [Next]_vars => Causes'
<1> SUFFICES ASSUME TypeInv, Causes, [Next]_vars PROVE Causes'
  OBVIOUS
<1> USE DEF solving, clang
<1>1. /\ process \in [Children -> ProcessStates]
      /\ Children = Solvers \cup Compilers
      /\ Solvers \cap Compilers = {}
      /\ answer \in [Solvers -> Answers]
      /\ written \subseteq Solvers
      /\ files \subseteq Solvers
      /\ deaths \in Nat
      /\ results \in Seq(Answers)
  BY ChildrenAssumption, BoundsAssumption DEF TypeInv, TypeOK, Children
<1>2. CASE Ask
  BY <1>1, <1>2 DEF Ask, Causes, Ended
<1>3. ASSUME NEW s \in Solvers, Solver(s) PROVE Causes'
  <2>1. CASE Exit(s)
    BY <1>1, <2>1 DEF Exit, Causes, Ended
  <2>2. CASE Die(s)
    <3>1. deaths' > 0
      BY <1>1, <2>2 DEF Die
    <3> QED BY <2>2, <3>1 DEF Die, Causes
  <2>3. ASSUME NEW result \in Answers, Solve(s, result) PROVE Causes'
    <3>1. \A t \in Solvers : Ended(t)' => Ended(t)
      BY <1>1, <2>3 DEF Solve, Ended
    <3>2. /\ written \subseteq written'
          /\ Timed => \A t \in written' : answer'[t] # "unknown"
      BY <1>1, <2>3 DEF Solve, Causes
    <3>3. UNCHANGED <<pc, files, results, verdict, timedOut, deaths>>
      BY <2>3 DEF Solve
    <3> QED BY <3>1, <3>2, <3>3 DEF Causes
  <2> QED BY <1>3, <2>1, <2>2, <2>3 DEF Solver
<1>4. ASSUME NEW c \in Compilers, Compiler(c) PROVE Causes'
  <2>1. \A s \in Solvers : Ended(s)' => Ended(s)
    BY <1>1, <1>4 DEF Compiler, Spawn, Compile, Collect, Ended
  <2>2. UNCHANGED <<pc, written, answer, files, results, verdict, timedOut, deaths>>
    BY <1>4 DEF Compiler, Spawn, Compile, Collect
  <2> QED BY <2>1, <2>2, CausesStay
<1>5. ASSUME NEW s \in Solvers, MakePipe(s) PROVE Causes'
  BY <1>5, CausesStay DEF MakePipe, Ended
<1>6. ASSUME NEW s \in Solvers, Fork(s) PROVE Causes'
  BY <1>1, <1>6, CausesStay DEF Fork, Ended
<1>7. ASSUME NEW s \in Solvers, CloseWriteEnd(s) PROVE Causes'
  BY <1>7, CausesStay DEF CloseWriteEnd, Ended
<1>8. ASSUME NEW s \in Solvers, Parse(s) PROVE Causes'
  <2>1. Timed /\ FromProtobuf(s) = "unknown" => deaths > 0
    BY <1>8 DEF Parse, Causes, FromProtobuf
  <2>2. ASSUME Timed, NEW i \in DOMAIN results', results'[i] = "unknown"
        PROVE  deaths > 0
    <3>1. CASE i \in DOMAIN results
      BY <1>1, <1>8, <2>2, <3>1 DEF Parse, Causes
    <3>2. CASE i = Len(results) + 1
      BY <1>1, <1>8, <2>1, <2>2, <3>2 DEF Parse
    <3> QED BY <1>1, <1>8, <2>2, <3>1, <3>2 DEF Parse
  <2> QED BY <1>8, <2>2 DEF Parse, Causes
<1>9. CASE SelectReady
  BY <1>9 DEF SelectReady, Readable, AtEof, Causes, Ended
<1>10. CASE SelectTimeout
  BY <1>10 DEF SelectTimeout, Causes
<1>11. CASE KillRest
  <2>1. /\ pc = "kill" /\ pc' = "parse"
        /\ UNCHANGED <<written, answer, files, results, deaths>>
    BY <1>11 DEF KillRest
  <2> QED BY <2>1 DEF Causes
<1>12. CASE Acquire
  <2>1. results # <<>>
    BY <1>12 DEF TypeInv, SomethingToParse, Acquire
  <2>2. 1 \in DOMAIN results /\ Head(results) = results[1]
    BY <1>1, <2>1
  <2> QED BY <1>12, <2>2 DEF Acquire, Causes
<1>13. ASSUME NEW c \in Children, WaitAny(c) PROVE Causes'
  BY <1>13 DEF WaitAny, Causes
<1>14. CASE Return
  BY <1>14 DEF Return, Causes
<1>15. CASE UNCHANGED vars
  <2>1. \A s \in Solvers : Ended(s)' => Ended(s)
    BY <1>15 DEF vars, Ended
  <2>2. UNCHANGED <<pc, written, answer, files, results, verdict, timedOut, deaths>>
    BY <1>15 DEF vars
  <2> QED BY <2>1, <2>2, CausesStay
<1> QED
  BY <1>2, <1>3, <1>4, <1>5, <1>6, <1>7, <1>8, <1>9, <1>10, <1>11, <1>12, <1>13,
     <1>14, <1>15
     DEF Next, isViolated

\* An unknown verdict of the timed portfolio has a cause: the timeout, or a
\* solver that died; it never beat a solver that was still searching.
THEOREM UnknownsHaveCauses == Spec => []UnknownNeedsACause
<1>1. Init => Causes
  BY DEF Init, Causes
<1>2. Causes => UnknownNeedsACause
  BY DEF Causes, UnknownNeedsACause
<1> QED BY <1>1, <1>2, CausesStep, TypeInvariant, PTL DEF Spec
=============================================================================
