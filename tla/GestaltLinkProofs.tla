-------------------------- MODULE GestaltLinkProofs -------------------------
(***************************************************************************)
(* What links take and what they leave: for any builds as the clang driver *)
(* makes them (DriverAssumption), any number of runs, deaths and lock      *)
(* errors.                                                                 *)
(***************************************************************************)
EXTENDS GestaltProofs, SequenceTheorems

Alive(r) == pc[r] \notin {"killed", "killedInside"}
After == {"semaphore", "passes", "native", "destroy", "future", "exited"}

LinkIns(r) == UNION {make.jobs[r][i].ins : i \in Links(r)}
Programs(r) == {make.jobs[r][i].out : i \in Links(r)}

\* What the driver assumption says of the build at hand.
LEMMA BuildTypes ==
    ASSUME TypeInv, NEW r \in Runs
    PROVE  /\ make.jobs[r] \in Seq(JobType)
           /\ make.after[r] \subseteq Runs
           /\ Outputs(r) \subseteq Objects
           /\ LinkIns(r) \subseteq Objects
<1>1. make.jobs \in [Runs -> Seq(JobType)] /\ make.after \in [Runs -> SUBSET Runs]
  BY MakefilesAssumption DEF TypeInv, MainTypes, MakefilesAssumption
<1>2. make.jobs[r] \in Seq(JobType) /\ make.after[r] \subseteq Runs
  BY <1>1
<1>3. \A i \in DOMAIN make.jobs[r] : make.jobs[r][i] \in JobType
  BY <1>2
<1> QED
  BY <1>2, <1>3 DEF Outputs, LinkIns, Links, JobType

LEMMA LinkIsLast ==
    ASSUME TypeInv, NEW r \in Runs, NEW i \in Links(r)
    PROVE  /\ i = Len(make.jobs[r]) /\ i \in DOMAIN make.jobs[r]
           /\ make.jobs[r][i].op = "link"
           /\ make.jobs[r][i].out \notin make.jobs[r][i].ins
           /\ LinkIns(r) = make.jobs[r][i].ins
           /\ Programs(r) = {make.jobs[r][i].out}
<1>1. \A j \in Links(r) : j = Len(make.jobs[r]) /\ make.jobs[r][j].out \notin make.jobs[r][j].ins
  BY DriverAssumption, Zenon DEF TypeInv, MainTypes, DriverAssumption, Links
<1>2. Links(r) = {i}
  BY <1>1
<1> QED
  BY <1>1, <1>2 DEF Links, LinkIns, Programs

\* What a run has compiled for its own link, no later link of the build takes.
LEMMA TemporariesAreOwn ==
    ASSUME TypeInv, NEW r \in Runs, NEW q \in make.after[r], q \in Runs,
           NEW n \in Outputs(q), n \in LinkIns(q)
    PROVE  n \notin LinkIns(r)
<1>1. PICK c \in DOMAIN make.jobs[q] : make.jobs[q][c].op # "assemble" /\ make.jobs[q][c].out = n
  BY DEF Outputs
<1>2. PICK i \in Links(q) : n \in make.jobs[q][i].ins
  BY DEF LinkIns
<1>3. make.jobs[q][c].op = "compile"
  <2>1. make.jobs[q][c] \in JobType
    BY BuildTypes
  <2>2. c \notin Links(q)
    BY <1>1, <1>2, LinkIsLast
  <2> QED
    BY <1>1, <2>1, <2>2 DEF Links, JobType
<1>4. ASSUME NEW j \in Links(r) PROVE n \notin make.jobs[r][j].ins
  BY <1>1, <1>2, <1>3, DriverAssumption, Zenon DEF TypeInv, MainTypes, DriverAssumption, Links
<1> QED
  BY <1>4 DEF LinkIns

-----------------------------------------------------------------------------
(* Steps of other runs                                                     *)

\* What belongs to a run alone: no other one changes it.
Local(q) == <<pc[q], todo[q], inputs[q], linked[q], toWrite[q], cache[q], reading[q], writing[q]>>

LEMMA DieIsLocal ==
    ASSUME TypeInv, NEW r \in Runs, NEW q \in Runs, q # r, Die(r)
    PROVE  UNCHANGED Local(q)
  BY DEF Die, Goto, Local, TypeInv, MainTypes, ReadingTypes, WritingTypes

LEMMA JobsAreLocal ==
    ASSUME TypeInv, NEW r \in Runs, NEW q \in Runs, q # r,
           \/ Start(r) \/ NativeEnds(r) \/ compile(r) \/ SkipAssembler(r) \/ BeginLink(r)
           \/ EndLink(r) \/ NoResult(r) \/ Result(r) \/ NativeReaped(r)
    PROVE  UNCHANGED Local(q)
<1> USE DEF TypeInv, MainTypes, ModuleTypes, WritingTypes, Local
<1>1. CASE Start(r) \/ NativeEnds(r) \/ SkipAssembler(r) \/ Result(r) \/ NativeReaped(r)
  BY <1>1 DEF Start, NativeEnds, SkipAssembler, Result, NativeReaped, Goto, cacheVars
<1>2. CASE compile(r)
  BY <1>2 DEF compile, Insert
<1>3. CASE BeginLink(r)
  BY <1>3 DEF BeginLink, Goto, cacheVars
<1>4. CASE EndLink(r)
  BY <1>4 DEF EndLink, Goto
<1>5. CASE NoResult(r)
  BY <1>5 DEF NoResult, Goto, Destroy, cacheVars
<1> QED
  BY <1>1, <1>2, <1>3, <1>4, <1>5

LEMMA LinkIsLocal ==
    ASSUME TypeInv, NEW r \in Runs, NEW q \in Runs, q # r,
           ReadOn(r) \/ NotFound(r) \/ \E n \in Objects : LinkInput(r, n) \/ ReadInput(r, n)
    PROVE  UNCHANGED Local(q)
<1> USE DEF TypeInv, MainTypes, ModuleTypes, ReadingTypes, WritingTypes, Local
<1>1. CASE ReadOn(r)
  BY <1>1 DEF ReadOn, ReadFile, Insert, gestaltVars
<1>2. CASE NotFound(r)
  BY <1>2 DEF NotFound, ReadNothing
<1>3. CASE \E n \in Objects : LinkInput(r, n)
  BY <1>3 DEF LinkInput, claim
<1>4. CASE \E n \in Objects : ReadInput(r, n)
  BY <1>4 DEF ReadInput, BeginRead, gestaltVars
<1> QED
  BY <1>1, <1>2, <1>3, <1>4

LEMMA EndIsLocal ==
    ASSUME TypeInv, NEW r \in Runs, NEW q \in Runs, q # r,
           \/ EnterCriticalSection(r) \/ RunPasses(r) \/ Get(r) \/ WriteOn(r) \/ Destroyed(r)
           \/ Exit(r) \/ \E n \in Objects : WriteModule(r, n) \/ WriteModuleUnlocked(r, n)
    PROVE  UNCHANGED Local(q)
<1> USE DEF TypeInv, MainTypes, ModuleTypes, WritingTypes, Local
<1>1. CASE EnterCriticalSection(r) \/ Destroyed(r) \/ Exit(r)
  BY <1>1 DEF EnterCriticalSection, Destroyed, Exit, Goto, cacheVars
<1>2. CASE RunPasses(r)
  BY <1>2 DEF RunPasses, Goto
<1>3. CASE Get(r)
  BY <1>3 DEF Get, Goto, Destroy, cacheVars
<1>4. CASE WriteOn(r)
  BY <1>4, Zenon DEF WriteOn, OpenFile, FlushFile, Unlock, gestaltVars
<1>5. CASE \E n \in Objects : WriteModule(r, n) \/ WriteModuleUnlocked(r, n)
  BY <1>5 DEF WriteModule, WriteModuleUnlocked, TryLock, LockError
<1> QED
  BY <1>1, <1>2, <1>3, <1>4, <1>5

\* Every step is of one run, and leaves what belongs to the others.
LEMMA StepIsLocal ==
    ASSUME TypeInv, NEW r \in Runs, Step(r) \/ Fault(r), NEW q \in Runs, q # r
    PROVE  UNCHANGED Local(q)
<1>1. CASE Step(r)
  BY <1>1, DieIsLocal, JobsAreLocal, LinkIsLocal, EndIsLocal DEF Step, BrokenTable
<1>2. CASE Fault(r)
  BY <1>2, DieIsLocal, JobsAreLocal, EndIsLocal DEF Fault, Killed, CompileError
<1> QED
  BY <1>1, <1>2

LEMMA BuildStays ==
    ASSUME [Next]_vars
    PROVE  make' = make
<1>1. CASE UNCHANGED vars
  BY <1>1 DEF vars, gestaltVars
<1>2. ASSUME NEW r \in Runs, Die(r)
      PROVE  make' = make
  BY <1>2 DEF Die
<1>3. ASSUME NEW r \in Runs, Step(r)
      PROVE  make' = make
  <2>1. CASE \/ Start(r) \/ NativeEnds(r) \/ compile(r) \/ SkipAssembler(r) \/ NotFound(r)
             \/ NoResult(r) \/ Result(r)
    BY ONLY <2>1 DEF Start, NativeEnds, compile, SkipAssembler, NotFound, NoResult, Result
  <2>2. CASE BeginLink(r) \/ EndLink(r) \/ ReadOn(r) \/ WriteOn(r)
    BY ONLY <2>2 DEF BeginLink, EndLink, ReadOn, WriteOn, gestaltVars
  <2>3. CASE EnterCriticalSection(r) \/ RunPasses(r) \/ Get(r) \/ Destroyed(r) \/ Exit(r)
    BY ONLY <2>3 DEF EnterCriticalSection, RunPasses, Get, Destroyed, Exit
  <2>4. CASE \E n \in Objects : LinkInput(r, n) \/ ReadInput(r, n) \/ WriteModule(r, n)
    BY ONLY <2>4 DEF LinkInput, ReadInput, WriteModule, gestaltVars
  <2> QED
    BY <1>2, <1>3, <2>1, <2>2, <2>3, <2>4 DEF Step, BrokenTable
<1>4. ASSUME NEW r \in Runs, Fault(r)
      PROVE  make' = make
  BY <1>2, <1>4 DEF Fault, NativeReaped, Killed, CompileError, WriteModuleUnlocked
<1> QED
  BY <1>1, <1>3, <1>4 DEF Next

-----------------------------------------------------------------------------
(* The jobs of a run                                                       *)

Suffix(s, j) ==
    Len(s) <= Len(j) /\ \A i \in 1 .. Len(s) : s[i] = j[Len(j) - Len(s) + i]

LEMMA SuffixHead ==
    ASSUME NEW S, NEW s \in Seq(S), NEW j \in Seq(S), Suffix(s, j), s # <<>>
    PROVE  /\ Len(j) - Len(s) + 1 \in DOMAIN j
           /\ Head(s) = j[Len(j) - Len(s) + 1]
           /\ (Len(s) = 1) <=> (Len(j) - Len(s) + 1 = Len(j))
<1>1. Len(s) \in Nat \ {0} /\ Len(j) \in Nat /\ DOMAIN j = 1 .. Len(j)
  BY EmptySeq, LenProperties
<1>2. Len(s) <= Len(j)
  BY DEF Suffix
<1>3. \A i \in 1 .. Len(s) : s[i] = j[Len(j) - Len(s) + i]
  BY DEF Suffix
<1>4. Head(s) = j[Len(j) - Len(s) + 1]
  <2>1. 1 \in 1 .. Len(s)
    BY ONLY <1>1
  <2>2. Head(s) = s[1]
    OBVIOUS
  <2> QED
    BY ONLY <1>3, <2>1, <2>2
<1>5. ASSUME NEW a \in Nat, NEW b \in Nat \ {0}, b <= a
      PROVE  a - b + 1 \in 1 .. a /\ ((b = 1) <=> (a - b + 1 = a))
  BY ONLY <1>5
<1> QED
  BY ONLY <1>1, <1>2, <1>4, <1>5, Zenon

LEMMA SuffixTail ==
    ASSUME NEW S, NEW s \in Seq(S), NEW j \in Seq(S), Suffix(s, j), s # <<>>
    PROVE  /\ Suffix(Tail(s), j)
           /\ Len(j) - Len(Tail(s)) = Len(j) - Len(s) + 1
           /\ (Tail(s) = <<>>) <=> (Len(s) = 1)
<1> DEFINE t == Tail(s)
<1>1. /\ Len(s) \in Nat \ {0} /\ Len(j) \in Nat
      /\ t \in Seq(S) /\ Len(t) = Len(s) - 1
  BY EmptySeq, LenProperties, HeadTailProperties
<1>2. (t = <<>>) <=> (Len(t) = 0)
  BY <1>1, EmptySeq, Zenon
<1>3. \A i \in 1 .. Len(t) : t[i] = s[i + 1]
  BY HeadTailProperties
<1> HIDE DEF t
<1>4. Len(s) <= Len(j)
  BY DEF Suffix
<1>5. \A i \in 1 .. Len(s) : s[i] = j[Len(j) - Len(s) + i]
  BY DEF Suffix
<1>6. ASSUME NEW i \in 1 .. Len(t)
      PROVE  t[i] = j[Len(j) - Len(t) + i]
  <2>1. i + 1 \in 1 .. Len(s) /\ Len(j) - Len(s) + (i + 1) = Len(j) - Len(t) + i
    BY ONLY <1>1, i \in 1 .. Len(t)
  <2>2. s[i + 1] = j[Len(j) - Len(s) + (i + 1)]
    BY ONLY <1>5, <2>1
  <2>3. t[i] = s[i + 1]
    BY ONLY <1>3, i \in 1 .. Len(t)
  <2> QED
    BY ONLY <2>1, <2>2, <2>3
<1>7. Len(t) <= Len(j) /\ Len(j) - Len(t) = Len(j) - Len(s) + 1 /\ ((Len(t) = 0) <=> (Len(s) = 1))
  BY ONLY <1>1, <1>4
<1>8. Suffix(t, j)
  BY ONLY <1>6, <1>7 DEF Suffix
<1> QED
  BY ONLY <1>2, <1>7, <1>8, Zenon DEF t

Past(r) == Len(make.jobs[r]) - Len(todo[r])

\* What is left of the jobs is their end, and a run is in a link when only
\* that one is left.
JobsOf(r) ==
    /\ Suffix(todo[r], make.jobs[r])
    /\ pc[r] = "link" => Len(todo[r]) = 1 /\ Job(r).op = "link"
    /\ pc[r] \in After => todo[r] = <<>>

LEMMA JobSequences ==
    ASSUME TypeInv, NEW r \in Runs
    PROVE  todo[r] \in Seq(JobType) /\ make.jobs[r] \in Seq(JobType)
  BY BuildTypes DEF TypeInv, MainTypes

LEMMA NextJob ==
    ASSUME TypeInv, NEW r \in Runs, JobsOf(r), todo[r] # <<>>
    PROVE  /\ Past(r) + 1 \in DOMAIN make.jobs[r]
           /\ Job(r) = make.jobs[r][Past(r) + 1]
           /\ (Len(todo[r]) = 1) <=> (Past(r) + 1 = Len(make.jobs[r]))
<1> HIDE DEF TypeInv
<1>1. Suffix(todo[r], make.jobs[r])
  BY DEF JobsOf
<1> QED
  BY ONLY <1>1, JobSequences, SuffixHead, TypeInv, r \in Runs, todo[r] # <<>>, Zenon DEF Past, Job

\* At a link nothing else is left.
LEMMA AtLink ==
    ASSUME TypeInv, NEW r \in Runs, JobsOf(r), todo[r] # <<>>, Job(r).op = "link"
    PROVE  /\ Len(todo[r]) = 1 /\ Tail(todo[r]) = <<>>
           /\ LinkIns(r) = Job(r).ins
           /\ Programs(r) = {Job(r).out}
           /\ Job(r).out \notin LinkIns(r)
           /\ Links(r) # {}
<1>1. Past(r) + 1 \in Links(r)
  BY NextJob DEF Links
<1>2. Past(r) + 1 = Len(make.jobs[r])
  BY <1>1, LinkIsLast
<1>3. Len(todo[r]) = 1
  BY <1>2, NextJob
<1>4. Tail(todo[r]) = <<>>
  BY <1>3, JobSequences, SuffixTail DEF JobsOf
<1> QED
  BY <1>1, <1>3, <1>4, NextJob, LinkIsLast

\* A run whose last job is not a link has none.
LEMMA NoLink ==
    ASSUME TypeInv, NEW r \in Runs, JobsOf(r), todo[r] # <<>>, Job(r).op # "link",
           Tail(todo[r]) = <<>>
    PROVE  Links(r) = {}
<1>1. Len(todo[r]) = 1
  BY JobSequences, SuffixTail DEF JobsOf
<1>2. Past(r) + 1 = Len(make.jobs[r])
  BY <1>1, NextJob
<1> QED
  BY <1>2, NextJob, LinkIsLast

LEMMA JobDone ==
    ASSUME TypeInv, NEW r \in Runs, JobsOf(r), todo[r] # <<>>, UNCHANGED make,
           todo' = [todo EXCEPT ![r] = Tail(@)], pc'[r] = "jobs"
    PROVE  JobsOf(r)' /\ Past(r)' = Past(r) + 1
<1>1. todo'[r] = Tail(todo[r])
  BY DEF TypeInv, MainTypes
<1>2. Suffix(Tail(todo[r]), make.jobs[r]) /\ Len(make.jobs[r]) - Len(Tail(todo[r])) = Past(r) + 1
  BY JobSequences, SuffixTail, Zenon DEF JobsOf, Past
<1> QED
  BY <1>1, <1>2, Zenon DEF JobsOf, After, Past

-----------------------------------------------------------------------------
(* What the passes have rewritten                                          *)

\* Until the passes are through, the program is the linked module itself,
\* under its name; after them it carries their mark.
PassesOf(r) ==
    /\ pc[r] \in {"jobs", "semaphore", "passes"} /\ todo[r] = <<>> =>
         \A n \in Programs(r) :
            /\ {Linked, n} \subseteq DOMAIN cache[r]
            /\ cache[r][n] = cache[r][Linked]
    /\ pc[r] \in {"native", "destroy"} =>
         \A n \in Programs(r) : n \in DOMAIN cache[r] /\ <<Passes, r>> \in cache[r][n]["bc"]


OwnPasses(r) == JobsOf(r) /\ PassesOf(r)

\* Steps in which a run goes on without a job and without its cache.
LEMMA PassesMove ==
    ASSUME NEW r \in Runs, OwnPasses(r), make' = make, todo'[r] = todo[r], cache'[r] = cache[r],
           \/ pc'[r] = pc[r]
           \/ /\ pc[r] \in {"jobs", "semaphore"} /\ todo[r] = <<>>
              /\ pc'[r] \in {"semaphore", "passes"}
           \/ pc[r] = "native" /\ pc'[r] = "destroy"
           \/ pc[r] \in {"destroy", "future"} /\ pc'[r] \in {"future", "exited"}
           \/ pc'[r] \in {"killed", "killedInside"}
    PROVE  OwnPasses(r)'
<1>1. JobsOf(r)'
  BY DEF OwnPasses, JobsOf, After, Job
<1>2. Programs(r)' = Programs(r)
  BY DEF Programs, Links
<1>3. PassesOf(r)'
  BY <1>2 DEF OwnPasses, PassesOf, JobsOf, After
<1> QED
  BY <1>1, <1>3 DEF OwnPasses

LEMMA PassesStart ==
    ASSUME TypeInv, NEW r \in Runs, OwnPasses(r), make' = make, Start(r)
    PROVE  OwnPasses(r)'
<1>1. todo'[r] = todo[r]
  BY DEF Start
<1>2. \/ pc'[r] = "future" /\ todo[r] = <<>>
      \/ pc'[r] = "jobs" /\ todo[r] # <<>>
  BY DEF Start, Goto, TypeInv, MainTypes
<1> QED
  BY <1>1, <1>2 DEF OwnPasses, JobsOf, PassesOf, After

LEMMA PassesJob ==
    ASSUME TypeInv, NEW r \in Runs, OwnPasses(r), make' = make, compile(r) \/ SkipAssembler(r)
    PROVE  OwnPasses(r)'
<1>1. /\ pc'[r] = "jobs" /\ todo[r] # <<>> /\ Job(r).op # "link"
      /\ todo' = [todo EXCEPT ![r] = Tail(@)]
  BY DEF compile, SkipAssembler, AtJob
<1>2. JobsOf(r)'
  BY <1>1, JobDone, Zenon DEF OwnPasses
<1>3. todo'[r] = <<>> => Links(r) = {}
  BY <1>1, NoLink, Zenon DEF OwnPasses, TypeInv, MainTypes
<1>4. todo'[r] = <<>> => Programs(r)' = {}
  BY <1>3 DEF Programs, Links
<1> QED
  BY <1>1, <1>2, <1>4 DEF OwnPasses, PassesOf

LEMMA PassesLink ==
    ASSUME TypeInv, NEW r \in Runs, OwnPasses(r), make' = make,
           \/ BeginLink(r) \/ ReadOn(r) \/ NotFound(r)
           \/ \E n \in Objects : LinkInput(r, n) \/ ReadInput(r, n)
    PROVE  OwnPasses(r)'
<1>1. pc'[r] = "link" /\ todo'[r] = todo[r]
  BY DEF BeginLink, ReadOn, ReadFile, NotFound, ReadNothing, LinkInput, ReadInput, Linking, Goto,
         gestaltVars, TypeInv, MainTypes, ReadingTypes
<1>2. Len(todo[r]) = 1 /\ Job(r).op = "link"
  <2>1. CASE BeginLink(r)
    BY <2>1, AtLink DEF BeginLink, AtJob, OwnPasses
  <2>2. CASE ~ BeginLink(r)
    BY <2>2 DEF OwnPasses, JobsOf, ReadOn, ReadFile, NotFound, ReadNothing, LinkInput, ReadInput,
                Linking, TypeInv, ReadingTypes
  <2> QED
    BY <2>1, <2>2
<1> QED
  BY <1>1, <1>2 DEF OwnPasses, JobsOf, PassesOf, After, Job

\* fileCache[moduleName] = fileCache[linkerOutputFile] = one and the same module.
LEMMA PassesEndLink ==
    ASSUME TypeInv, NEW r \in Runs, OwnPasses(r), make' = make, EndLink(r)
    PROVE  OwnPasses(r)'
<1> DEFINE n == Job(r).out
<1>1. /\ pc[r] = "link" /\ pc'[r] = "jobs" /\ todo' = [todo EXCEPT ![r] = Tail(@)]
      /\ cache'[r] = With(With(cache[r], Linked, linked[r]), n, linked[r])
  BY DEF EndLink, Linking, Goto, TypeInv, MainTypes, ModuleTypes
<1>2. todo[r] # <<>> /\ Job(r).op = "link"
  BY <1>1 DEF OwnPasses, JobsOf, TypeInv, MainTypes
<1>3. JobsOf(r)'
  BY <1>1, <1>2, JobDone, Zenon DEF OwnPasses
<1>4. Programs(r)' = {n}
  BY <1>2, AtLink, ZenonT(30) DEF OwnPasses, Programs, Links
<1>5. {Linked, n} \subseteq DOMAIN cache'[r] /\ cache'[r][n] = cache'[r][Linked]
  <2> DEFINE m == linked[r]
             f == With(cache[r], Linked, m)
             g == With(f, n, m)
  <2>1. DOMAIN f = DOMAIN cache[r] \cup {Linked} /\ f[Linked] = m
    BY DEF With
  <2> HIDE DEF f
  <2>2. DOMAIN g = DOMAIN f \cup {n} /\ g[n] = m /\ \A x \in DOMAIN f : x # n => g[x] = f[x]
    BY DEF With
  <2> HIDE DEF g
  <2>3. {Linked, n} \subseteq DOMAIN g /\ g[n] = g[Linked]
    BY ONLY <2>1, <2>2
  <2> QED
    BY <1>1, <2>3 DEF f, g
<1> QED
  BY <1>1, <1>3, <1>4, <1>5 DEF OwnPasses, PassesOf

\* Only a command without a link comes here without a linked module.
LEMMA PassesNoResult ==
    ASSUME TypeInv, NEW r \in Runs, OwnPasses(r), make' = make, NoResult(r)
    PROVE  OwnPasses(r)'
<1>1. /\ pc[r] = "jobs" /\ pc'[r] = "destroy" /\ todo'[r] = todo[r] /\ todo[r] = <<>>
      /\ Linked \notin DOMAIN cache[r]
  BY DEF NoResult, Goto, Cached, TypeInv, MainTypes
<1>2. Programs(r) = {}
  BY <1>1 DEF OwnPasses, PassesOf
<1>3. Programs(r)' = {}
  BY <1>2 DEF Programs, Links
<1> QED
  BY <1>1, <1>3 DEF OwnPasses, JobsOf, PassesOf, After

LEMMA PassesRun ==
    ASSUME TypeInv, NEW r \in Runs, OwnPasses(r), make' = make, RunPasses(r)
    PROVE  OwnPasses(r)'
<1> DEFINE f == cache[r]
<1>1. /\ pc[r] = "passes" /\ pc'[r] = "native" /\ todo'[r] = todo[r]
      /\ cache'[r] = [n \in DOMAIN f |-> IF f[n] = f[Linked] THEN Passed(f[n], r) ELSE f[n]]
  BY DEF RunPasses, Goto, TypeInv, MainTypes, ModuleTypes
<1>2. todo[r] = <<>>
  BY <1>1 DEF OwnPasses, JobsOf, After
<1>3. ASSUME NEW n \in Programs(r)
      PROVE  n \in DOMAIN cache'[r] /\ <<Passes, r>> \in cache'[r][n]["bc"]
  <2>1. n \in DOMAIN f /\ f[n] = f[Linked]
    BY <1>1, <1>2 DEF OwnPasses, PassesOf
  <2>2. f[n] \in PortableModules
    BY <2>1 DEF TypeInv, ModuleTypes, IsCache
  <2>3. cache'[r][n] = Passed(f[n], r)
    BY <1>1, <2>1
  <2>4. <<Passes, r>> \in Passed(f[n], r)["bc"]
    BY <2>2 DEF Passed, PortableModules, Kinds
  <2> QED
    BY <1>1, <2>1, <2>3, <2>4
<1>4. Programs(r)' = Programs(r)
  BY DEF Programs, Links
<1> QED
  BY <1>1, <1>2, <1>3, <1>4 DEF OwnPasses, JobsOf, PassesOf, After

\* Whatever the run does next, its programs stay what the passes make of them.
LEMMA PassesOwn ==
    ASSUME TypeInv, NEW r \in Runs, OwnPasses(r), make' = make, Step(r) \/ Fault(r)
    PROVE  OwnPasses(r)'
<1> USE DEF TypeInv, MainTypes, ModuleTypes
<1>1. CASE NativeEnds(r) \/ NativeReaped(r)
  BY <1>1, PassesMove DEF NativeEnds, NativeReaped, cacheVars
<1>2. CASE Die(r)
  BY <1>2, PassesMove DEF Die, Goto
<1>3. CASE Result(r) \/ EnterCriticalSection(r)
  BY <1>3, PassesMove DEF Result, EnterCriticalSection, Goto, cacheVars, OwnPasses, JobsOf, After
<1>4. CASE Get(r) \/ Destroyed(r) \/ Exit(r)
  BY <1>4, PassesMove DEF Get, Destroyed, Exit, Goto, cacheVars
<1>5. CASE \E n \in Objects : WriteModule(r, n) \/ WriteModuleUnlocked(r, n)
  BY <1>5, PassesMove, SMTT(30) DEF WriteModule, WriteModuleUnlocked, TryLock, LockError
<1>6. CASE WriteOn(r)
  BY <1>6, PassesMove DEF WriteOn, OpenFile, FlushFile, Unlock, gestaltVars
<1> HIDE DEF TypeInv, MainTypes, ModuleTypes
<1>7. CASE Step(r)
  BY <1>1, <1>2, <1>3, <1>4, <1>5, <1>6, <1>7, PassesStart, PassesJob, PassesLink, PassesEndLink,
     PassesNoResult, PassesRun DEF Step, BrokenTable
<1>8. CASE Fault(r)
  BY <1>1, <1>2, <1>5, <1>8 DEF Fault, Killed, CompileError
<1> QED
  BY <1>7, <1>8

\* A run writes what is in its cache, in ~impl, one file at a time.
Wrote(r, n, k) ==
    /\ writing[r] # None /\ writing[r].name = n /\ n \in DOMAIN cache[r] /\ pc[r] = "destroy"
    /\ \E c \in {Torn, Content(r, cache[r][n][k])} : files' = [files EXCEPT ![n][k] = c]

LEMMA WritesOneFile ==
    ASSUME TypeInv, NEW r \in Runs, WriteOn(r)
    PROVE  files' = files \/ \E n \in Objects, k \in Kinds : Wrote(r, n, k)
<1> DEFINE n == writing[r].name
<1>1. writing[r] \in Writing /\ n \in DOMAIN cache[r] /\ pc[r] = "destroy" /\ writing[r] # None
  BY DEF WriteOn, OpenFile, FlushFile, Unlock, TypeInv, WritingTypes
<1>2. n \in Objects
  BY <1>1 DEF Writing
<1>3. CASE OpenFile(r)
  <2> DEFINE k == OpenOrder[writing[r].step + 1]
  <2>1. k \in Kinds
    BY <1>1, <1>3 DEF OpenFile, OpenOrder, Kinds, Writing
  <2>2. Wrote(r, n, k)
    BY <1>1, <1>3 DEF OpenFile, Wrote
  <2> QED
    BY <1>2, <2>1, <2>2
<1>4. CASE FlushFile(r)
  <2> DEFINE k == FlushOrder[writing[r].step - 3]
  <2>1. k \in Kinds
    BY <1>4, SMTT(30) DEF FlushFile, FlushOrder, Kinds
  <2>2. Wrote(r, n, k)
    BY <1>1, <1>4 DEF FlushFile, Wrote
  <2> QED
    BY <1>2, <2>1, <2>2, SMTT(30)
<1>5. CASE Unlock(r)
  BY <1>5 DEF Unlock
<1> QED
  BY <1>3, <1>4, <1>5, SMTT(30) DEF WriteOn

LEMMA OthersWriteNothing ==
    ASSUME NEW r \in Runs, Step(r) \/ Fault(r), ~ WriteOn(r)
    PROVE  files' = files
<1>1. CASE Die(r)
  BY <1>1 DEF Die, disk
<1>2. CASE \/ Start(r) \/ NativeEnds(r) \/ compile(r) \/ SkipAssembler(r) \/ NoResult(r) \/ Result(r)
           \/ NativeReaped(r)
  BY ONLY <1>2 DEF Start, NativeEnds, compile, SkipAssembler, NoResult, Result, NativeReaped,
                   cacheVars, disk
<1>3. CASE BeginLink(r) \/ EndLink(r) \/ ReadOn(r) \/ NotFound(r)
  BY ONLY <1>3 DEF BeginLink, EndLink, ReadOn, ReadFile, NotFound, ReadNothing, cacheVars, disk
<1>4. CASE EnterCriticalSection(r) \/ RunPasses(r) \/ Get(r) \/ Destroyed(r) \/ Exit(r)
  BY ONLY <1>4 DEF EnterCriticalSection, RunPasses, Get, Destroyed, Exit, cacheVars, disk
<1>5. CASE \E n \in Objects : LinkInput(r, n) \/ ReadInput(r, n)
  BY ONLY <1>5 DEF LinkInput, ReadInput, BeginRead, disk
<1>6. CASE \E n \in Objects : WriteModule(r, n) \/ WriteModuleUnlocked(r, n)
  BY ONLY <1>6 DEF WriteModule, WriteModuleUnlocked, TryLock, LockError
<1> QED
  BY <1>1, <1>2, <1>3, <1>4, <1>5, <1>6 DEF Step, Fault, BrokenTable, Killed, CompileError

LEMMA FilesStep ==
    ASSUME TypeInv, NEW r \in Runs, Step(r) \/ Fault(r)
    PROVE  files' = files \/ \E n \in Objects, k \in Kinds : Wrote(r, n, k)
  BY WritesOneFile, OthersWriteNothing

\* What a step does to the files of one module.
LEMMA OneFile ==
    ASSUME TypeInv, NEW r \in Runs, NEW n \in Objects, NEW k \in Kinds, Wrote(r, n, k)
    PROVE  /\ files'[n][k] \in {Torn, Content(r, cache[r][n][k])}
           /\ \A o \in Objects : o # n => files'[o] = files[o]
           /\ \A j \in Kinds : j # k => files'[n][j] = files[n][j]
<1>1. files \in [Objects -> [Kinds -> FileStates]]
  BY DEF TypeInv, FileTypes
<1>2. PICK c \in {Torn, Content(r, cache[r][n][k])} : files' = [files EXCEPT ![n][k] = c]
  BY DEF Wrote
<1> QED
  BY <1>1, <1>2

\* A file of a program carries the mark of the passes.
Marked(file, n) ==
    file.is = "content" /\ n \in Programs(file.by) => <<Passes, file.by>> \in file.part

LEMMA FilesAreMarked ==
    ASSUME TypeInv
    PROVE  LinkedFilesHavePassed <=> \A n \in Objects : Marked(files[n]["bc"], n)
<1>1. \A r : \A n : n \in Programs(r) <=> \E i \in Links(r) : make.jobs[r][i].out = n
  BY DEF Programs
<1> QED
  BY <1>1 DEF LinkedFilesHavePassed, Marked

PassInv ==
    /\ \A r \in Runs : OwnPasses(r)
    /\ \A n \in Objects : Marked(files[n]["bc"], n)

LEMMA PassNext ==
    ASSUME TypeInv, PassInv, [Next]_vars
    PROVE  PassInv'
<1>1. make' = make
  BY BuildStays
<1>2. \A r : Programs(r)' = Programs(r)
  BY <1>1 DEF Programs, Links
<1>3. CASE UNCHANGED vars
  BY <1>2, <1>3 DEF PassInv, OwnPasses, JobsOf, PassesOf, Past, Job, Marked, vars, gestaltVars, cacheVars
<1>4. ASSUME NEW r \in Runs, Step(r) \/ Fault(r)
      PROVE  PassInv'
  <2>1. ASSUME NEW q \in Runs PROVE OwnPasses(q)'
    <3>1. CASE q = r
      BY <1>1, <1>4, <3>1, PassesOwn DEF PassInv
    <3>2. CASE q # r
      <4>1. UNCHANGED Local(q)
        BY <1>4, <3>2, StepIsLocal
      <4>2. OwnPasses(q)
        BY DEF PassInv
      <4>3. todo'[q] = todo[q] /\ cache'[q] = cache[q] /\ pc'[q] = pc[q]
        BY <4>1 DEF Local
      <4> QED
        BY <1>1, <4>2, <4>3, PassesMove
    <3> QED
      BY <3>1, <3>2
  <2>2. ASSUME NEW n \in Objects PROVE Marked(files[n]["bc"], n)'
    <3>1. CASE files'[n]["bc"] = files[n]["bc"]
      BY <1>2, <3>1 DEF PassInv, Marked
    <3>2. CASE files'[n]["bc"] # files[n]["bc"]
      <4>1. PICK m \in Objects, k \in Kinds : Wrote(r, m, k)
        BY <1>4, <3>2, FilesStep
      <4>2. "bc" \in Kinds
        BY DEF Kinds
      <4>3. m = n /\ k = "bc"
        BY <3>2, <4>1, <4>2, OneFile
      <4>4. files'[n]["bc"] \in {Torn, Content(r, cache[r][n]["bc"])}
        BY <4>1, <4>3, OneFile
      <4>5. n \in Programs(r) => <<Passes, r>> \in cache[r][n]["bc"]
        BY <4>1, <4>3 DEF Wrote, PassInv, OwnPasses, PassesOf
      <4>6. CASE files'[n]["bc"] = Torn
        BY <4>6 DEF Marked, Torn
      <4>7. CASE files'[n]["bc"] = Content(r, cache[r][n]["bc"])
        BY <1>2, <4>5, <4>7 DEF Marked, Content
      <4> QED
        BY <4>4, <4>6, <4>7
    <3> QED
      BY <3>1, <3>2
  <2> QED
    BY <2>1, <2>2 DEF PassInv
<1> QED
  BY <1>3, <1>4 DEF Next

LEMMA PassInit ==
    ASSUME Init, TypeInv
    PROVE  PassInv
<1>1. todo = make.jobs /\ \A r \in Runs : pc[r] = "waiting"
  BY DEF Init
<1>2. ASSUME NEW r \in Runs PROVE OwnPasses(r)
  <2>1. make.jobs[r] \in Seq(JobType)
    BY BuildTypes
  <2>2. Suffix(todo[r], make.jobs[r])
    <3> DEFINE j == make.jobs[r]
    <3>1. Len(j) \in Nat /\ todo[r] = j
      BY <1>1, <2>1, LenProperties
    <3> HIDE DEF j
    <3>2. ASSUME NEW i \in 1 .. Len(j) PROVE Len(j) - Len(j) + i = i
      BY ONLY <3>1, <3>2
    <3> QED
      BY <3>1, <3>2 DEF Suffix, j
  <2> QED
    BY <1>1, <2>2 DEF OwnPasses, JobsOf, PassesOf, After
<1>3. \A n \in Objects : files[n]["bc"] = Absent
  BY DEF Init, InitCache, Kinds
<1> QED
  BY <1>2, <1>3 DEF PassInv, Marked, Absent

\* Whoever finds a program on disk finds what the passes have made of it, in
\* any build: ~impl comes after llvm.run(), and never to a program that the
\* link has made and the passes have not seen.
THEOREM ProgramsHavePassed == Spec => []LinkedFilesHavePassed
<1>1. Init => TypeInv /\ PassInv
  BY TypeInit, PassInit
<1>2. TypeInv /\ PassInv /\ [Next]_vars => TypeInv' /\ PassInv'
  BY TypeNext, PassNext
<1>3. TypeInv /\ PassInv => LinkedFilesHavePassed
  BY FilesAreMarked DEF PassInv
<1> QED
  BY <1>1, <1>2, <1>3, PTL DEF Spec

-----------------------------------------------------------------------------
(* What a run has in its cache                                             *)

MadeBy(j, p) == {j[i].out : i \in {x \in 1 .. p : j[x].op # "assemble"}}

LEMMA MadeByOneMore ==
    ASSUME NEW j, NEW p \in Nat
    PROVE  MadeBy(j, p + 1) = MadeBy(j, p)
             \cup (IF j[p + 1].op # "assemble" THEN {j[p + 1].out} ELSE {})
<1>1. 1 .. p + 1 = (1 .. p) \cup {p + 1}
  OBVIOUS
<1> QED
  BY <1>1 DEF MadeBy

\* The modules that the jobs done so far have made.
Done(r) == MadeBy(make.jobs[r], Past(r))

LEMMA PastIsNat ==
    ASSUME TypeInv, NEW r \in Runs, JobsOf(r)
    PROVE  /\ Past(r) \in Nat /\ Past(r) <= Len(make.jobs[r]) /\ Len(make.jobs[r]) \in Nat
           /\ todo[r] = <<>> => Past(r) = Len(make.jobs[r])
<1> DEFINE j == make.jobs[r]
           s == todo[r]
<1>1. Len(j) \in Nat /\ Len(s) \in Nat /\ (s = <<>> => Len(s) = 0)
  BY JobSequences, LenProperties, EmptySeq
<1>2. Len(s) <= Len(j)
  BY DEF JobsOf, Suffix
<1> HIDE DEF j, s
<1>3. /\ Len(j) - Len(s) \in Nat /\ Len(j) - Len(s) <= Len(j)
      /\ (s = <<>> => Len(j) - Len(s) = Len(j))
  BY ONLY <1>1, <1>2
<1> QED
  BY <1>1, <1>3, Zenon DEF j, s, Past

LEMMA OutputsAreMade ==
    ASSUME TypeInv, NEW r \in Runs
    PROVE  Outputs(r) = MadeBy(make.jobs[r], Len(make.jobs[r]))
<1>1. DOMAIN make.jobs[r] = 1 .. Len(make.jobs[r])
  BY BuildTypes, LenProperties
<1> QED
  BY <1>1 DEF Outputs, MadeBy

LEMMA DoneIsMade ==
    ASSUME TypeInv, NEW r \in Runs, JobsOf(r)
    PROVE  /\ Done(r) \subseteq Outputs(r)
           /\ todo[r] = <<>> => Done(r) = Outputs(r)
           /\ todo[r] # <<>> /\ Job(r).op = "link" => Outputs(r) = Done(r) \cup {Job(r).out}
<1> DEFINE j == make.jobs[r]
           p == Past(r)
<1>1. p \in Nat /\ p <= Len(j) /\ Len(j) \in Nat /\ (todo[r] = <<>> => p = Len(j))
  BY PastIsNat
<1>2. Outputs(r) = MadeBy(j, Len(j)) /\ Done(r) = MadeBy(j, p)
  BY OutputsAreMade DEF Done
<1>3. MadeBy(j, p) \subseteq MadeBy(j, Len(j))
  <2>1. 1 .. p \subseteq 1 .. Len(j)
    BY <1>1
  <2> QED
    BY <2>1 DEF MadeBy
<1>4. ASSUME todo[r] # <<>>, Job(r).op = "link"
      PROVE  Outputs(r) = Done(r) \cup {Job(r).out}
  <2>1. p + 1 = Len(j) /\ Job(r) = j[p + 1]
    BY <1>4, AtLink, NextJob
  <2>2. MadeBy(j, p + 1) = MadeBy(j, p) \cup {Job(r).out}
    BY <1>1, <1>4, <2>1, MadeByOneMore
  <2> QED
    BY <1>2, <2>1, <2>2
<1> QED
  BY <1>1, <1>2, <1>3, <1>4

\* Beside the linked module and its own ones a run has only what the link at
\* hand has read and not yet taken; its own modules stay until its link takes
\* them, as they were compiled until the link is through.
CacheOf(r) ==
    /\ pc[r] = "waiting" => todo[r] = make.jobs[r]
    /\ Alive(r) =>
        /\ DOMAIN cache[r] \subseteq {Linked} \cup Outputs(r) \cup inputs[r]
        /\ inputs[r] # {} => pc[r] = "link"
        /\ inputs[r] \subseteq LinkIns(r)
        /\ reading[r] # None => reading[r].name \in inputs[r]
        /\ \A n \in Done(r) \ DOMAIN cache[r] :
             /\ n \in LinkIns(r)
             /\ todo[r] = <<>> \/ (pc[r] = "link" /\ n \notin inputs[r])
        /\ todo[r] # <<>> =>
             \A n \in Done(r) \cap DOMAIN cache[r] : cache[r][n] = Whole({<<n, r>>})

\* The build stays, and what is defined from it.
LEMMA BuildDefs ==
    ASSUME make' = make
    PROVE  /\ \A r : Outputs(r)' = Outputs(r) /\ Links(r)' = Links(r)
           /\ \A r : LinkIns(r)' = LinkIns(r) /\ Programs(r)' = Programs(r)
           /\ \A n : Makers(n)' = Makers(n)
  BY DEF Outputs, Links, LinkIns, Programs, Makers

LEMMA CacheMove ==
    ASSUME NEW r \in Runs, CacheOf(r), make' = make, todo'[r] = todo[r], cache'[r] = cache[r],
           inputs'[r] = inputs[r], reading'[r] = reading[r],
           \/ pc'[r] = pc[r]
           \/ Alive(r) /\ pc[r] # "link" /\ pc'[r] \notin {"link", "waiting"}
    PROVE  CacheOf(r)'
<1>1. Outputs(r)' = Outputs(r) /\ LinkIns(r)' = LinkIns(r) /\ Done(r)' = Done(r)
  BY BuildDefs DEF Done, Past
<1> QED
  BY <1>1 DEF CacheOf, Alive

LEMMA CacheDie ==
    ASSUME TypeInv, NEW r \in Runs, CacheOf(r), make' = make, Die(r)
    PROVE  CacheOf(r)'
<1>1. pc'[r] \in {"killed", "killedInside"}
  BY DEF Die, Goto, TypeInv, MainTypes
<1> QED
  BY <1>1 DEF CacheOf, Alive

LEMMA CacheJob ==
    ASSUME TypeInv, NEW r \in Runs, JobsOf(r), CacheOf(r), make' = make,
           compile(r) \/ SkipAssembler(r)
    PROVE  CacheOf(r)'
<1> DEFINE n == Job(r).out
           j == make.jobs[r]
<1>1. /\ pc[r] = "jobs" /\ pc'[r] = "jobs" /\ todo[r] # <<>>
      /\ inputs'[r] = inputs[r] /\ reading'[r] = reading[r]
      /\ todo' = [todo EXCEPT ![r] = Tail(@)]
  BY DEF compile, SkipAssembler, AtJob, cacheVars
<1>2. Past(r)' = Past(r) + 1 /\ Past(r) \in Nat /\ Job(r) = j[Past(r) + 1]
  BY <1>1, JobDone, PastIsNat, NextJob, Zenon
<1>3. Done(r)' = Done(r) \cup (IF Job(r).op # "assemble" THEN {n} ELSE {})
  BY <1>2, MadeByOneMore DEF Done
<1>4. /\ inputs[r] = {} /\ reading[r] = None
      /\ DOMAIN cache[r] \subseteq {Linked} \cup Outputs(r)
      /\ Done(r) \subseteq DOMAIN cache[r]
      /\ \A m \in Done(r) : cache[r][m] = Whole({<<m, r>>})
  BY <1>1 DEF CacheOf, Alive, TypeInv, ReadingTypes
<1>5. Outputs(r)' = Outputs(r)
  BY BuildDefs
<1>6. CASE SkipAssembler(r)
  <2>1. Done(r)' = Done(r) /\ cache'[r] = cache[r]
    BY <1>3, <1>6 DEF SkipAssembler, AtJob, cacheVars
  <2> QED
    BY <1>1, <1>4, <1>5, <2>1 DEF CacheOf, Alive
<1>7. CASE compile(r)
  <2>1. cache'[r] = With(cache[r], n, Whole({<<n, r>>})) /\ Job(r).op = "compile"
    BY <1>7 DEF compile, AtJob, Insert, TypeInv, ModuleTypes
  <2>2. n \in Outputs(r)
    BY <1>2, <2>1, NextJob, <1>1, Zenon DEF Outputs
  <2>3. Done(r)' = Done(r) \cup {n}
    BY <1>3, <2>1
  <2>4. /\ DOMAIN cache'[r] = DOMAIN cache[r] \cup {n}
        /\ cache'[r][n] = Whole({<<n, r>>})
        /\ \A x \in DOMAIN cache[r] : x # n => cache'[r][x] = cache[r][x]
    <3> DEFINE f == cache[r]
               w == Whole({<<n, r>>})
    <3> HIDE DEF n, f, w
    <3>1. /\ DOMAIN With(f, n, w) = DOMAIN f \cup {n}
          /\ With(f, n, w)[n] = w
          /\ \A x \in DOMAIN f : x # n => With(f, n, w)[x] = f[x]
      BY DEF With
    <3>2. cache'[r] = With(f, n, w)
      BY <2>1 DEF f, w
    <3> QED
      BY <3>1, <3>2 DEF f, w
  <2>5. \A m \in Done(r)' : m \in DOMAIN cache'[r] /\ cache'[r][m] = Whole({<<m, r>>})
    BY <1>4, <2>3, <2>4, Zenon
  <2>6. DOMAIN cache'[r] \subseteq {Linked} \cup Outputs(r)
    BY <1>4, <2>2, <2>4
  <2> QED
    BY <1>1, <1>4, <1>5, <2>5, <2>6, Zenon DEF CacheOf, Alive
<1> QED
  BY <1>6, <1>7

LEMMA CacheStart ==
    ASSUME TypeInv, NEW r \in Runs, CacheOf(r), make' = make, Start(r)
    PROVE  CacheOf(r)'
<1>1. /\ pc[r] = "waiting" /\ pc'[r] \in {"jobs", "future"}
      /\ UNCHANGED <<todo, cache, inputs, reading>>
  BY DEF Start, Goto, TypeInv, MainTypes, cacheVars
<1> QED
  BY <1>1, CacheMove DEF Alive

LEMMA CacheBeginLink ==
    ASSUME TypeInv, NEW r \in Runs, JobsOf(r), CacheOf(r), make' = make, BeginLink(r)
    PROVE  CacheOf(r)'
<1>1. /\ pc[r] = "jobs" /\ pc'[r] = "link" /\ todo[r] # <<>> /\ Job(r).op = "link"
      /\ inputs'[r] = Job(r).ins
      /\ UNCHANGED <<todo, cache, reading>>
  BY DEF BeginLink, AtJob, Goto, TypeInv, MainTypes, cacheVars
<1>2. inputs'[r] = LinkIns(r)
  BY <1>1, AtLink
<1>3. /\ inputs[r] = {} /\ reading[r] = None
      /\ DOMAIN cache[r] \subseteq {Linked} \cup Outputs(r)
      /\ Done(r) \subseteq DOMAIN cache[r]
      /\ \A m \in Done(r) \cap DOMAIN cache[r] : cache[r][m] = Whole({<<m, r>>})
  BY <1>1 DEF CacheOf, Alive, TypeInv, ReadingTypes
<1>4. Outputs(r)' = Outputs(r) /\ LinkIns(r)' = LinkIns(r) /\ Done(r)' = Done(r)
  BY <1>1, BuildDefs DEF Done, Past
<1> QED
  BY <1>1, <1>2, <1>3, <1>4 DEF CacheOf, Alive

\* While the link runs: what it has still to look at only gets less, and only
\* the module that is read comes into the cache.
LEMMA CacheInLink ==
    ASSUME NEW r \in Runs, CacheOf(r), make' = make, todo'[r] = todo[r], todo[r] # <<>>,
           pc[r] = "link", pc'[r] = "link",
           inputs'[r] \subseteq inputs[r],
           DOMAIN cache'[r] \subseteq {Linked} \cup Outputs(r) \cup inputs'[r],
           \A n \in DOMAIN cache[r] : n \in DOMAIN cache'[r] \/ n \in inputs[r] \ inputs'[r],
           \A n \in Done(r) \cap DOMAIN cache'[r] : n \in DOMAIN cache[r] /\ cache'[r][n] = cache[r][n],
           reading'[r] # None => reading'[r].name \in inputs'[r]
    PROVE  CacheOf(r)'
<1>1. Outputs(r)' = Outputs(r) /\ LinkIns(r)' = LinkIns(r) /\ Done(r)' = Done(r)
  BY BuildDefs DEF Done, Past
<1>2. \A n \in Done(r) \ DOMAIN cache'[r] : n \in LinkIns(r) /\ n \notin inputs'[r]
  BY DEF CacheOf, Alive
<1>3. \A n \in Done(r) \cap DOMAIN cache'[r] : cache'[r][n] = Whole({<<n, r>>})
  BY DEF CacheOf, Alive
<1>4. inputs'[r] \subseteq LinkIns(r)
  BY DEF CacheOf, Alive
<1> QED
  BY <1>1, <1>2, <1>3, <1>4 DEF CacheOf, Alive

\* A run does not read what it has compiled.
LEMMA ReadsOthers ==
    ASSUME TypeInv, NEW r \in Runs, JobsOf(r), CacheOf(r), pc[r] = "link",
           NEW n \in inputs[r], n \notin DOMAIN cache[r]
    PROVE  n \notin Outputs(r)
<1>1. todo[r] # <<>> /\ Job(r).op = "link"
  BY DEF JobsOf, TypeInv, MainTypes
<1>2. n \notin Done(r)
  BY <1>1 DEF CacheOf, Alive
<1>3. n \in LinkIns(r)
  BY DEF CacheOf, Alive
<1> QED
  BY <1>1, <1>2, <1>3, DoneIsMade, AtLink

LEMMA CacheLink ==
    ASSUME TypeInv, NEW r \in Runs, JobsOf(r), CacheOf(r), make' = make,
           \/ ReadOn(r) \/ NotFound(r) \/ \E n \in Objects : LinkInput(r, n) \/ ReadInput(r, n)
    PROVE  CacheOf(r)'
<1>1. /\ pc[r] = "link" /\ pc'[r] = "link" /\ todo'[r] = todo[r]
  BY DEF ReadOn, ReadFile, NotFound, ReadNothing, LinkInput, ReadInput, Linking, gestaltVars,
         TypeInv, ReadingTypes
<1>2. todo[r] # <<>>
  BY <1>1 DEF TypeInv, MainTypes
<1>3. DOMAIN cache[r] \subseteq {Linked} \cup Outputs(r) \cup inputs[r]
  BY <1>1 DEF CacheOf, Alive
<1>4. ASSUME NEW n \in Objects, LinkInput(r, n)
      PROVE  CacheOf(r)'
  <2>1. /\ cache'[r] = Without(cache[r], n) /\ inputs'[r] = inputs[r] \ {n} /\ n \in inputs[r]
        /\ reading'[r] = None
    BY <1>4 DEF LinkInput, Linking, claim, TypeInv, MainTypes, ModuleTypes
  <2>2. /\ DOMAIN cache'[r] = DOMAIN cache[r] \ {n}
        /\ \A x \in DOMAIN cache'[r] : cache'[r][x] = cache[r][x]
    BY <2>1 DEF Without
  <2> QED
    BY <1>1, <1>2, <1>3, <2>1, <2>2, CacheInLink
<1>5. ASSUME NEW n \in Objects, ReadInput(r, n)
      PROVE  CacheOf(r)'
  <2>1. cache'[r] = cache[r] /\ inputs'[r] = inputs[r] /\ n \in inputs[r] /\ reading'[r].name = n
    BY <1>5 DEF ReadInput, BeginRead, gestaltVars, TypeInv, ReadingTypes
  <2> QED
    BY <1>1, <1>2, <1>3, <2>1, CacheInLink
<1>6. CASE NotFound(r)
  <2>1. /\ cache'[r] = cache[r] /\ inputs'[r] = inputs[r] \ {reading[r].name} /\ reading'[r] = None
        /\ reading[r] # None
    BY <1>6 DEF NotFound, ReadNothing, TypeInv, MainTypes, ReadingTypes
  <2>2. reading[r].name \notin DOMAIN cache[r]
    BY <2>1 DEF TypeInv, ReadingTypes
  <2> QED
    BY <1>1, <1>2, <1>3, <2>1, <2>2, CacheInLink
<1>7. CASE ReadOn(r)
  <2> DEFINE n == reading[r].name
  <2>1. reading[r] # None /\ inputs'[r] = inputs[r]
    BY <1>7 DEF ReadOn, ReadFile, gestaltVars
  <2>2. n \in inputs[r] /\ n \notin DOMAIN cache[r]
    BY <1>1, <2>1 DEF CacheOf, Alive, TypeInv, ReadingTypes
  <2>3. n \notin Done(r)
    BY <1>1, <2>2, ReadsOthers, DoneIsMade
  <2>4. \/ (reading'[r] # None => reading'[r].name = n) /\ cache'[r] = cache[r]
        \/ reading'[r] = None /\ \E m : cache'[r] = With(cache[r], n, m)
    <3>1. PICK g : \/ reading' = [reading EXCEPT ![r].got = g] /\ cache' = cache
                   \/ /\ reading' = [reading EXCEPT ![r] = None]
                      /\ Insert(r, n, Assembled(g))
      BY <1>7, Zenon DEF ReadOn, ReadFile
    <3>2. reading[r] \in Reading
      BY <2>1 DEF TypeInv, ReadingTypes
    <3>3. [reading[r] EXCEPT !.got = g] = [name |-> n, got |-> g]
      BY <3>2 DEF Reading
    <3>4. CASE reading' = [reading EXCEPT ![r].got = g] /\ cache' = cache
      <4>1. reading'[r] = [name |-> n, got |-> g]
        BY <3>3, <3>4 DEF TypeInv, ReadingTypes
      <4>2. reading'[r] # None => reading'[r].name = n
        BY <4>1
      <4> QED
        BY <3>4, <4>2 DEF TypeInv
    <3>5. CASE reading' = [reading EXCEPT ![r] = None] /\ Insert(r, n, Assembled(g))
      BY <3>5 DEF TypeInv, ReadingTypes, ModuleTypes, Insert
    <3> QED
      BY <3>1, <3>4, <3>5
  <2>5. CASE cache'[r] = cache[r]
    BY <1>1, <1>2, <1>3, <2>1, <2>2, <2>4, <2>5, CacheInLink
  <2>6. ASSUME NEW m, reading'[r] = None, cache'[r] = With(cache[r], n, m)
        PROVE  CacheOf(r)'
    <3>1. /\ DOMAIN cache'[r] = DOMAIN cache[r] \cup {n}
          /\ \A x \in DOMAIN cache[r] : x # n => cache'[r][x] = cache[r][x]
      BY <2>6 DEF With
    <3> QED
      BY <1>1, <1>2, <1>3, <2>1, <2>2, <2>3, <2>6, <3>1, CacheInLink
  <2> QED
    BY <2>4, <2>5, <2>6
<1> QED
  BY <1>4, <1>5, <1>6, <1>7

LEMMA CacheEndLink ==
    ASSUME TypeInv, NEW r \in Runs, JobsOf(r), CacheOf(r), make' = make, EndLink(r)
    PROVE  CacheOf(r)'
<1> DEFINE n == Job(r).out
<1>1. /\ pc[r] = "link" /\ pc'[r] = "jobs" /\ inputs[r] = {} /\ inputs'[r] = {}
      /\ reading'[r] = None /\ todo' = [todo EXCEPT ![r] = Tail(@)]
      /\ cache'[r] = With(With(cache[r], Linked, linked[r]), n, linked[r])
  BY DEF EndLink, Linking, Goto, TypeInv, MainTypes, ModuleTypes
<1>2. todo[r] # <<>> /\ Job(r).op = "link"
  BY <1>1 DEF JobsOf, TypeInv, MainTypes
<1>3. todo'[r] = <<>> /\ n \notin LinkIns(r)
  BY <1>1, <1>2, AtLink DEF TypeInv, MainTypes
<1>4. Outputs(r)' = Outputs(r) /\ LinkIns(r)' = LinkIns(r)
  BY BuildDefs
<1>5. Done(r)' = Outputs(r) /\ Outputs(r) = Done(r) \cup {n}
  <2>1. JobsOf(r)' /\ Past(r)' = Past(r) + 1
    BY <1>1, <1>2, JobDone, Zenon
  <2>2. Past(r) \in Nat /\ Job(r) = make.jobs[r][Past(r) + 1]
    BY <1>2, PastIsNat, NextJob
  <2>3. Done(r)' = Done(r) \cup {n}
    BY <1>2, <2>1, <2>2, MadeByOneMore, ZenonT(30) DEF Done
  <2> QED
    BY <1>2, <2>3, DoneIsMade
<1>6. DOMAIN cache'[r] = DOMAIN cache[r] \cup {Linked, n}
  BY <1>1 DEF With
<1>7. DOMAIN cache[r] \subseteq {Linked} \cup Outputs(r)
  BY <1>1 DEF CacheOf, Alive
<1>8. \A m \in Done(r) \ DOMAIN cache[r] : m \in LinkIns(r)
  BY <1>1 DEF CacheOf, Alive
<1> QED
  BY <1>1, <1>3, <1>4, <1>5, <1>6, <1>7, <1>8 DEF CacheOf, Alive

LEMMA CachePasses ==
    ASSUME TypeInv, NEW r \in Runs, JobsOf(r), CacheOf(r), make' = make, RunPasses(r)
    PROVE  CacheOf(r)'
<1>1. /\ pc[r] = "passes" /\ pc'[r] = "native" /\ DOMAIN cache'[r] = DOMAIN cache[r]
      /\ UNCHANGED <<todo, inputs, reading>>
  BY DEF RunPasses, Goto, TypeInv, MainTypes, ModuleTypes
<1>2. todo[r] = <<>>
  BY <1>1 DEF JobsOf, After
<1>3. Outputs(r)' = Outputs(r) /\ LinkIns(r)' = LinkIns(r) /\ Done(r)' = Done(r)
  BY <1>1, BuildDefs DEF Done, Past
<1> QED
  BY <1>1, <1>2, <1>3 DEF CacheOf, Alive

LEMMA CacheOwn ==
    ASSUME TypeInv, NEW r \in Runs, JobsOf(r), CacheOf(r), make' = make, Step(r) \/ Fault(r)
    PROVE  CacheOf(r)'
<1> USE DEF TypeInv, MainTypes
<1>1. CASE NativeEnds(r) \/ NativeReaped(r)
  BY <1>1, CacheMove, Zenon DEF NativeEnds, NativeReaped, cacheVars
<1>2. CASE Result(r) \/ EnterCriticalSection(r) \/ NoResult(r)
  BY <1>2, CacheMove, Zenon DEF Result, EnterCriticalSection, NoResult, Goto, cacheVars, Alive
<1>3. CASE Get(r) \/ Destroyed(r) \/ Exit(r)
  BY <1>3, CacheMove, Zenon DEF Get, Destroyed, Exit, Goto, cacheVars, Alive
<1>4. CASE \E n \in Objects : WriteModule(r, n) \/ WriteModuleUnlocked(r, n)
  BY <1>4, CacheMove, Zenon DEF WriteModule, WriteModuleUnlocked, TryLock, LockError
<1>5. CASE WriteOn(r)
  BY <1>5, CacheMove, Zenon DEF WriteOn, OpenFile, FlushFile, Unlock, gestaltVars
<1> HIDE DEF TypeInv, MainTypes
<1>6. CASE Step(r)
  BY <1>1, <1>2, <1>3, <1>4, <1>5, <1>6, CacheStart, CacheDie, CacheJob, CacheBeginLink, CacheLink,
     CacheEndLink, CachePasses DEF Step, BrokenTable
<1>7. CASE Fault(r)
  BY <1>1, <1>4, <1>7, CacheDie DEF Fault, Killed, CompileError
<1> QED
  BY <1>6, <1>7

CacheInv == \A r \in Runs : JobsOf(r) /\ CacheOf(r)

LEMMA CacheNext ==
    ASSUME TypeInv, PassInv, CacheInv, [Next]_vars
    PROVE  CacheInv'
<1>1. make' = make
  BY BuildStays
<1>2. \A r \in Runs : JobsOf(r)'
  BY PassNext DEF PassInv, OwnPasses
<1>3. ASSUME UNCHANGED vars, NEW q \in Runs
      PROVE  CacheOf(q)'
  BY <1>1, <1>3, CacheMove DEF CacheInv, vars, gestaltVars, cacheVars
<1>4. ASSUME NEW r \in Runs, Step(r) \/ Fault(r), NEW q \in Runs
      PROVE  CacheOf(q)'
  <2>1. JobsOf(q) /\ CacheOf(q)
    BY DEF CacheInv
  <2>2. CASE q = r
    BY <1>1, <1>4, <2>1, <2>2, CacheOwn
  <2>3. CASE q # r
    <3>1. /\ pc'[q] = pc[q] /\ todo'[q] = todo[q] /\ inputs'[q] = inputs[q]
          /\ cache'[q] = cache[q] /\ reading'[q] = reading[q]
      BY <1>4, <2>3, StepIsLocal DEF Local
    <3> QED
      BY <1>1, <2>1, <3>1, CacheMove
  <2> QED
    BY <2>2, <2>3
<1> QED
  BY <1>2, <1>3, <1>4 DEF CacheInv, Next

LEMMA CacheInit ==
    ASSUME Init, TypeInv
    PROVE  CacheInv
<1>1. ASSUME NEW r \in Runs PROVE CacheOf(r)
  <2>1. /\ todo[r] = make.jobs[r] /\ cache[r] = <<>> /\ inputs[r] = {} /\ reading[r] = None
        /\ pc[r] = "waiting"
    BY DEF Init, InitCache
  <2>2. Past(r) = 0
    <3>1. Len(make.jobs[r]) \in Nat
      BY BuildTypes, LenProperties
    <3>2. ASSUME NEW l \in Nat PROVE l - l = 0
      BY ONLY <3>2
    <3> QED
      BY <2>1, <3>1, <3>2 DEF Past
  <2>3. Done(r) = {}
    BY <2>2 DEF Done, MadeBy
  <2>4. DOMAIN cache[r] = {}
    BY <2>1
  <2> QED
    BY <2>1, <2>3, <2>4 DEF CacheOf
<1> QED
  BY <1>1, PassInit DEF CacheInv, PassInv, OwnPasses

-----------------------------------------------------------------------------
(* What earlier runs have left                                             *)

\* Whoever runs has been started after the runs the build has before it.
OrderInv == \A r \in Runs : pc[r] # "waiting" => \A q \in make.after[r] : pc[q] = "exited"

\* A lock file belongs to who made the module, is writing it or has died.
HeldInv ==
    \A n \in Objects : lock[n] # None =>
        /\ n \in Outputs(lock[n])
        /\ Alive(lock[n]) => writing[lock[n]] # None /\ writing[lock[n]].name = n

\* A run that has ended well has written all that its own link did not take.
Left(r, n) ==
    \/ pc[r] = "destroy" /\ n \in toWrite[r]
    \/ writing[r] # None /\ writing[r].name = n /\ writing[r].step = 0
    \/ files[n]["bc"] # Absent

LeftInv ==
    \A r \in Runs : pc[r] \in {"destroy", "future", "exited"} =>
        \A n \in Outputs(r) \ LinkIns(r) : Left(r, n)

\* What nobody makes is not on disk.
NobodysInv == \A n \in Objects : Makers(n) = {} => \A k \in Kinds : files[n][k] = Absent

\* Who waits is started, who has ended or died stays where it is.
LEMMA PhaseStep ==
    ASSUME TypeInv, NEW r \in Runs, Step(r) \/ Fault(r)
    PROVE  /\ pc[r] = "waiting" => pc'[r] = "waiting" \/ Start(r)
           /\ pc[r] = "exited" => pc'[r] = "exited"
           /\ Alive(r)' => Alive(r)
           /\ pc'[r] = "waiting" => pc[r] = "waiting"
<1> USE DEF TypeInv, MainTypes, Alive
<1>1. CASE Start(r)
  BY <1>1 DEF Start, Goto
<1>2. CASE \/ NativeEnds(r) \/ NativeReaped(r) \/ compile(r) \/ SkipAssembler(r)
  BY <1>2 DEF NativeEnds, NativeReaped, compile, SkipAssembler
<1>3. CASE BeginLink(r) \/ EndLink(r) \/ NoResult(r) \/ Result(r)
  BY <1>3 DEF BeginLink, EndLink, NoResult, Result, AtJob, Linking, Goto
<1>4. CASE EnterCriticalSection(r) \/ RunPasses(r) \/ Get(r) \/ Destroyed(r) \/ Exit(r)
  BY <1>4 DEF EnterCriticalSection, RunPasses, Get, Destroyed, Exit, Goto
<1>5. CASE ReadOn(r) \/ NotFound(r) \/ WriteOn(r)
  BY <1>5 DEF ReadOn, NotFound, WriteOn, gestaltVars
<1>6. CASE \E n \in Objects : \/ LinkInput(r, n) \/ ReadInput(r, n)
                              \/ WriteModule(r, n) \/ WriteModuleUnlocked(r, n)
  BY <1>6 DEF LinkInput, ReadInput, WriteModule, WriteModuleUnlocked, gestaltVars
<1>7. CASE Killed(r) \/ CompileError(r)
  BY <1>7 DEF Killed, CompileError, Running, Ended, AtJob, Die, Goto
<1>8. CASE BrokenTable(r)
  BY <1>8 DEF BrokenTable, ReadBroken, ReadingTypes, Die, Goto
<1> QED
  BY <1>1, <1>2, <1>3, <1>4, <1>5, <1>6, <1>7, <1>8 DEF Step, Fault

LEMMA OrderNext ==
    ASSUME TypeInv, OrderInv, [Next]_vars
    PROVE  OrderInv'
<1>1. make' = make
  BY BuildStays
<1>2. ASSUME NEW r \in Runs, Step(r) \/ Fault(r)
      PROVE  OrderInv'
  <2>1. \A q \in Runs : pc[q] = "exited" => pc'[q] = "exited"
    BY <1>2, PhaseStep, StepIsLocal DEF Local
  <2>2. ASSUME NEW q \in Runs, pc'[q] # "waiting", NEW p \in make.after[q]
        PROVE  pc[p] = "exited" /\ p \in Runs
    <3>1. p \in Runs
      BY BuildTypes
    <3>2. CASE pc[q] # "waiting"
      BY <3>1, <3>2 DEF OrderInv
    <3>3. CASE pc[q] = "waiting"
      <4>1. q = r
        BY <1>2, <2>2, <3>3, StepIsLocal DEF Local
      <4>2. Start(r)
        BY <1>2, <2>2, <3>3, <4>1, PhaseStep
      <4> QED
        BY <2>2, <3>1, <4>1, <4>2 DEF Start
    <3> QED
      BY <3>2, <3>3
  <2> QED
    BY <1>1, <2>1, <2>2 DEF OrderInv
<1>3. CASE UNCHANGED vars
  BY <1>1, <1>3 DEF OrderInv, vars, gestaltVars
<1> QED
  BY <1>2, <1>3 DEF Next

\* Who writes a module has made it.
LEMMA WritersMake ==
    ASSUME TypeInv, CacheInv, NEW r \in Runs, pc[r] = "destroy",
           NEW n \in Objects \cap DOMAIN cache[r]
    PROVE  n \in Outputs(r) /\ r \in Makers(n)
  BY LinkedAssumption DEF CacheInv, CacheOf, Alive, Makers

LEMMA HeldMove ==
    ASSUME HeldInv, make' = make, UNCHANGED lock,
           \A r \in Runs : Alive(r)' => Alive(r) /\ writing'[r] = writing[r],
           \A n \in Objects : lock[n] \in Runs \cup {None}
    PROVE  HeldInv'
  BY BuildDefs DEF HeldInv, Alive

LEMMA HeldWrite ==
    ASSUME TypeInv, CacheInv, HeldInv, make' = make, NEW r \in Runs, NEW n \in Objects,
           WriteModule(r, n) \/ WriteModuleUnlocked(r, n)
    PROVE  HeldInv'
<1>1. /\ pc' = pc /\ pc[r] = "destroy" /\ writing[r] = None /\ n \in toWrite[r]
      /\ writing' = [writing EXCEPT ![r] = [name |-> n, step |-> 0]]
      /\ lock' = lock \/ lock' = [lock EXCEPT ![n] = r]
  BY DEF WriteModule, WriteModuleUnlocked, TryLock, LockError
<1>2. n \in Outputs(r)
  BY <1>1, WritersMake DEF TypeInv, WritingTypes
<1>3. ASSUME NEW m \in Objects, lock'[m] # None
      PROVE  /\ m \in Outputs(lock'[m])
             /\ Alive(lock'[m]) => writing'[lock'[m]] # None /\ writing'[lock'[m]].name = m
  <2>1. lock \in [Objects -> Runs \cup {None}] /\ DOMAIN writing = Runs
    BY DEF TypeInv, FileTypes, WritingTypes
  <2>2. writing'[r] = [name |-> n, step |-> 0]
    BY <1>1, <2>1
  <2>3. CASE lock'[m] = lock[m]
    <3> DEFINE q == lock[m]
    <3>1. m \in Outputs(q) /\ (Alive(q) => writing[q] # None /\ writing[q].name = m) /\ q \in Runs
      BY <1>3, <2>1, <2>3 DEF HeldInv
    <3>2. CASE q = r
      BY <1>1, <3>1, <3>2 DEF Alive
    <3>3. CASE q # r
      BY <1>1, <2>1, <2>3, <3>1, <3>3
    <3> QED
      BY <3>2, <3>3
  <2>4. CASE lock'[m] # lock[m]
    <3>1. m = n /\ lock'[m] = r
      BY <1>1, <2>1, <2>4
    <3>2. writing'[r] # None
      BY <2>2, NothingAssumption
    <3> QED
      BY <1>2, <2>2, <3>1, <3>2
  <2> QED
    BY <2>3, <2>4
<1> QED
  BY <1>1, <1>3, BuildDefs DEF HeldInv, Alive

\* While a run writes it keeps the lock; at the end it takes it away.
LEMMA HeldWriteOn ==
    ASSUME TypeInv, HeldInv, make' = make, NEW r \in Runs, WriteOn(r)
    PROVE  HeldInv'
<1>1. pc' = pc /\ writing[r] # None /\ DOMAIN writing = Runs /\ DOMAIN lock = Objects
  BY DEF WriteOn, OpenFile, FlushFile, Unlock, gestaltVars, TypeInv, WritingTypes, FileTypes
<1>2. \A n \in Objects : lock[n] \in Runs \cup {None}
  BY DEF TypeInv, FileTypes
<1>3. CASE OpenFile(r) \/ FlushFile(r)
  <2>1. lock' = lock /\ writing' = [writing EXCEPT ![r].step = writing[r].step + 1]
    BY <1>3, ZenonT(30) DEF OpenFile, FlushFile
  <2>2. writing[r] \in Writing /\ writing'[r] \in Writing /\ writing'[r].name = writing[r].name
    BY <1>1, <1>3, <2>1 DEF TypeInv, WritingTypes, Writing, OpenFile, FlushFile
  <2>3. writing'[r] # None
    BY <2>2, NothingAssumption DEF Writing
  <2>4. \A q \in Runs : q # r => writing'[q] = writing[q]
    BY <1>1, <2>1
  <2>5. ASSUME NEW n \in Objects, lock[n] # None
        PROVE  /\ n \in Outputs(lock[n])
               /\ Alive(lock[n]) => writing'[lock[n]] # None /\ writing'[lock[n]].name = n
    <3>1. lock[n] \in Runs
      BY <1>2, <2>5
    <3> QED
      BY <2>2, <2>3, <2>4, <2>5, <3>1 DEF HeldInv
  <2> QED
    BY <1>1, <2>1, <2>5, BuildDefs DEF HeldInv, Alive
<1>4. CASE Unlock(r)
  <2>1. /\ lock' = [o \in Objects |-> IF o = writing[r].name /\ lock[o] = r THEN None ELSE lock[o]]
        /\ writing' = [writing EXCEPT ![r] = None]
    BY <1>4 DEF Unlock
  <2>2. ASSUME NEW n \in Objects, lock'[n] # None
        PROVE  /\ n \in Outputs(lock'[n])
               /\ Alive(lock'[n]) => writing'[lock'[n]] # None /\ writing'[lock'[n]].name = n
    <3>1. lock'[n] = lock[n] /\ ~ (lock[n] = r /\ n = writing[r].name)
      BY <2>1, <2>2
    <3>2. n \in Outputs(lock[n]) /\ lock[n] \in Runs
      BY <1>2, <2>2, <3>1 DEF HeldInv
    <3>3. Alive(lock[n]) => writing[lock[n]] # None /\ writing[lock[n]].name = n
      BY <2>2, <3>1 DEF HeldInv
    <3>4. lock[n] # r => writing'[lock[n]] = writing[lock[n]]
      BY <1>1, <2>1, <3>2
    <3> QED
      BY <3>1, <3>2, <3>3, <3>4
  <2> QED
    BY <1>1, <2>2, BuildDefs DEF HeldInv, Alive
<1> QED
  BY <1>3, <1>4, SMTT(30) DEF WriteOn

\* Steps outside of ~impl neither take a lock nor begin or end to write.
LEMMA NoLocks ==
    ASSUME TypeInv, NEW r \in Runs, Step(r) \/ Fault(r), ~ WriteOn(r),
           \A n \in Objects : ~ WriteModule(r, n) /\ ~ WriteModuleUnlocked(r, n)
    PROVE  lock' = lock /\ unlocked' = unlocked /\ (Alive(r)' => writing'[r] = writing[r])
<1>1. CASE Die(r)
  <2>1. ~ Alive(r)'
    BY <1>1 DEF Die, Goto, TypeInv, MainTypes, Alive
  <2> QED
    BY <1>1, <2>1 DEF Die, disk
<1>2. CASE \/ Start(r) \/ NativeEnds(r) \/ compile(r) \/ SkipAssembler(r) \/ NoResult(r) \/ Result(r)
           \/ NativeReaped(r)
  BY ONLY <1>2 DEF Start, NativeEnds, compile, SkipAssembler, NoResult, Result, NativeReaped,
                   cacheVars, disk
<1>3. CASE BeginLink(r) \/ EndLink(r) \/ ReadOn(r) \/ NotFound(r)
  BY ONLY <1>3 DEF BeginLink, EndLink, ReadOn, ReadFile, NotFound, ReadNothing, cacheVars, disk
<1>4. CASE EnterCriticalSection(r) \/ RunPasses(r) \/ Get(r) \/ Destroyed(r) \/ Exit(r)
  BY ONLY <1>4 DEF EnterCriticalSection, RunPasses, Get, Destroyed, Exit, cacheVars, disk
<1>5. CASE \E n \in Objects : LinkInput(r, n) \/ ReadInput(r, n)
  BY ONLY <1>5 DEF LinkInput, ReadInput, BeginRead, disk
<1> QED
  BY <1>1, <1>2, <1>3, <1>4, <1>5 DEF Step, Fault, BrokenTable, Killed, CompileError

LEMMA HeldNext ==
    ASSUME TypeInv, CacheInv, HeldInv, [Next]_vars
    PROVE  HeldInv'
<1>1. make' = make /\ \A n \in Objects : lock[n] \in Runs \cup {None}
  BY BuildStays DEF TypeInv, FileTypes
<1>2. CASE UNCHANGED vars
  BY <1>1, <1>2, HeldMove DEF vars, gestaltVars, cacheVars, Alive
<1>3. ASSUME NEW r \in Runs, Step(r) \/ Fault(r)
      PROVE  HeldInv'
  <2>1. CASE WriteOn(r) \/ \E n \in Objects : WriteModule(r, n) \/ WriteModuleUnlocked(r, n)
    BY <1>1, <2>1, HeldWriteOn, HeldWrite
  <2>2. CASE ~ WriteOn(r) /\ \A n \in Objects : ~ WriteModule(r, n) /\ ~ WriteModuleUnlocked(r, n)
    <3>1. lock' = lock /\ (Alive(r)' => writing'[r] = writing[r])
      BY <1>3, <2>2, NoLocks
    <3>2. ASSUME NEW q \in Runs, Alive(q)'
          PROVE  Alive(q) /\ writing'[q] = writing[q]
      <4>1. CASE q = r
        BY <1>3, <3>1, <3>2, <4>1, PhaseStep
      <4>2. CASE q # r
        BY <1>3, <3>2, <4>2, StepIsLocal DEF Local, Alive
      <4> QED
        BY <4>1, <4>2
    <3> QED
      BY <1>1, <3>1, <3>2, HeldMove
  <2> QED
    BY <2>1, <2>2
<1> QED
  BY <1>2, <1>3 DEF Next

\* A file that is there is never away again.
LEMMA FilesStay ==
    ASSUME TypeInv, NEW r \in Runs, Step(r) \/ Fault(r), NEW n \in Objects, NEW k \in Kinds,
           files[n][k] # Absent
    PROVE  files'[n][k] # Absent
<1>1. CASE files' = files
  BY <1>1
<1>2. ASSUME NEW m \in Objects, NEW j \in Kinds, Wrote(r, m, j)
      PROVE  files'[n][k] # Absent
  <2>1. CASE m = n /\ j = k
    <3>1. files'[n][k] \in {Torn, Content(r, cache[r][n][k])}
      BY <1>2, <2>1, OneFile
    <3>2. Torn # Absent
      BY DEF Torn, Absent
    <3>3. Content(r, cache[r][n][k]) # Absent
      <4>1. Content(r, cache[r][n][k]).is = "content" /\ Absent.is = "absent"
        BY DEF Content, Absent
      <4> QED
        BY <4>1
    <3> QED
      BY <3>1, <3>2, <3>3
  <2>2. CASE ~ (m = n /\ j = k)
    BY <1>2, <2>2, OneFile
  <2> QED
    BY <2>1, <2>2
<1> QED
  BY <1>1, <1>2, FilesStep

LEMMA NobodysNext ==
    ASSUME TypeInv, CacheInv, NobodysInv, [Next]_vars
    PROVE  NobodysInv'
<1>1. make' = make
  BY BuildStays
<1>2. CASE UNCHANGED vars
  BY <1>1, <1>2, BuildDefs DEF NobodysInv, vars, cacheVars
<1>3. ASSUME NEW r \in Runs, Step(r) \/ Fault(r), NEW n \in Objects, Makers(n) = {}, NEW k \in Kinds
      PROVE  files'[n][k] = Absent
  <2>1. files[n][k] = Absent
    BY <1>3 DEF NobodysInv
  <2>2. ASSUME NEW m \in Objects, NEW j \in Kinds, Wrote(r, m, j)
        PROVE  m # n
    BY <1>3, <2>2, WritersMake DEF Wrote
  <2> QED
    BY <1>3, <2>1, <2>2, FilesStep, OneFile
<1> QED
  BY <1>1, <1>2, <1>3, BuildDefs DEF NobodysInv, Next

End == {"destroy", "future", "exited"}

\* What is left of a run that has come to its end.
LeftOf(r) == pc[r] \in End => \A n \in Outputs(r) \ LinkIns(r) : Left(r, n)

\* The steps that a run does at its end, and those that bring it there.
LEMMA EndSteps ==
    ASSUME TypeInv, NEW r \in Runs, Step(r) \/ Fault(r), pc'[r] \in End
    PROVE  \/ Start(r) \/ NoResult(r) \/ Get(r)
           \/ NativeEnds(r) \/ Destroyed(r) \/ Exit(r) \/ WriteOn(r)
           \/ \E n \in Objects : WriteModule(r, n) \/ WriteModuleUnlocked(r, n)
<1> USE DEF TypeInv, MainTypes, End
<1>1. ~ Die(r)
  BY DEF Die, Goto
<1>2. ~ (compile(r) \/ SkipAssembler(r) \/ NativeReaped(r))
  BY DEF compile, SkipAssembler, AtJob, NativeReaped
<1>3. ~ (BeginLink(r) \/ EndLink(r) \/ Result(r) \/ EnterCriticalSection(r) \/ RunPasses(r))
  BY DEF BeginLink, EndLink, Result, EnterCriticalSection, RunPasses, Goto
<1>4. ~ (ReadOn(r) \/ NotFound(r))
  BY DEF ReadOn, ReadFile, NotFound, ReadNothing, ReadingTypes, gestaltVars
<1>5. ~ \E n \in Objects : LinkInput(r, n) \/ ReadInput(r, n)
  BY DEF LinkInput, ReadInput, Linking, gestaltVars
<1> QED
  BY <1>1, <1>2, <1>3, <1>4, <1>5 DEF Step, Fault, BrokenTable, Killed, CompileError

\* A run comes to its end with all that it has made and not linked.
LEMMA LeftBegins ==
    ASSUME TypeInv, CacheInv, make' = make, NEW r \in Runs, Start(r) \/ NoResult(r) \/ Get(r)
    PROVE  LeftOf(r)'
<1>1. JobsOf(r) /\ CacheOf(r)
  BY DEF CacheInv
<1>2. Outputs(r)' = Outputs(r) /\ LinkIns(r)' = LinkIns(r)
  BY BuildDefs
<1>3. CASE Start(r)
  <2>1. pc[r] = "waiting" /\ (pc'[r] \in End => todo[r] = <<>>)
    BY <1>3 DEF Start, Goto, TypeInv, MainTypes, End
  <2>2. todo[r] = make.jobs[r]
    BY <1>1, <2>1 DEF CacheOf
  <2>3. pc'[r] \in End => Outputs(r) = {}
    BY <2>1, <2>2, EmptySeq DEF Outputs
  <2> QED
    BY <1>2, <2>3 DEF LeftOf
<1>4. CASE NoResult(r) \/ Get(r)
  <2>1. /\ pc[r] \in {"jobs", "native"} /\ pc'[r] = "destroy" /\ todo[r] = <<>>
        /\ toWrite'[r] = DOMAIN cache[r] \ {Linked}
    BY <1>1, <1>4 DEF NoResult, Get, Goto, Destroy, TypeInv, MainTypes, WritingTypes, JobsOf, After
  <2>2. Done(r) = Outputs(r)
    BY <1>1, <2>1, DoneIsMade
  <2>3. Outputs(r) \ LinkIns(r) \subseteq DOMAIN cache[r]
    BY <1>1, <2>1, <2>2 DEF CacheOf, Alive
  <2>4. Linked \notin Outputs(r)
    BY BuildTypes, LinkedAssumption
  <2> QED
    BY <1>2, <2>1, <2>3, <2>4 DEF LeftOf, Left
<1> QED
  BY <1>3, <1>4

\* What ~impl takes up it writes: the bitcode is the first file it opens.
LEMMA LeftWrite ==
    ASSUME TypeInv, LeftInv, make' = make, NEW r \in Runs, NEW m \in Objects,
           WriteModule(r, m) \/ WriteModuleUnlocked(r, m)
    PROVE  LeftOf(r)'
<1>1. /\ pc' = pc /\ files' = files /\ pc[r] = "destroy" /\ writing[r] = None
      /\ toWrite'[r] = toWrite[r] \ {m} /\ writing'[r] = [name |-> m, step |-> 0]
  BY DEF WriteModule, WriteModuleUnlocked, TryLock, LockError, TypeInv, WritingTypes
<1>2. writing'[r] # None
  BY <1>1, NothingAssumption
<1>3. ASSUME NEW n \in Outputs(r) \ LinkIns(r)
      PROVE  Left(r, n)'
  <2>1. Left(r, n)
    BY <1>1 DEF LeftInv
  <2> QED
    BY <1>1, <1>2, <2>1 DEF Left
<1> QED
  BY <1>3, BuildDefs DEF LeftOf

LEMMA LeftWriteOn ==
    ASSUME TypeInv, LeftInv, make' = make, NEW r \in Runs, WriteOn(r)
    PROVE  LeftOf(r)'
<1>1. /\ pc' = pc /\ pc[r] = "destroy" /\ toWrite' = toWrite /\ writing[r] # None
      /\ writing[r] \in [name : Objects, step : 0 .. 8]
  BY DEF WriteOn, OpenFile, FlushFile, Unlock, gestaltVars, TypeInv, WritingTypes, Writing
<1>2. "bc" \in Kinds
  BY DEF Kinds
<1>3. ASSUME NEW n \in Outputs(r) \ LinkIns(r)
      PROVE  Left(r, n)'
  <2>1. Left(r, n) /\ n \in Objects
    BY <1>1, BuildTypes DEF LeftInv
  <2>2. CASE files[n]["bc"] # Absent
    BY <1>2, <2>1, <2>2, FilesStay DEF Left, Step
  <2>3. CASE writing[r].name = n /\ writing[r].step = 0
    <3>1. files' = [files EXCEPT ![n]["bc"] = Torn]
      BY <2>3 DEF WriteOn, OpenFile, FlushFile, Unlock, OpenOrder
    <3>2. files'[n]["bc"] = Torn
      BY <1>2, <2>1, <3>1 DEF TypeInv, FileTypes
    <3> QED
      BY <3>2 DEF Left, Torn, Absent
  <2> QED
    BY <1>1, <2>1, <2>2, <2>3 DEF Left
<1> QED
  BY <1>3, BuildDefs, SMTT(30) DEF LeftOf

LEMMA LeftEnd ==
    ASSUME TypeInv, LeftInv, make' = make, NEW r \in Runs, pc'[r] \in End,
           NativeEnds(r) \/ Destroyed(r) \/ Exit(r)
    PROVE  LeftOf(r)'
<1>1. /\ UNCHANGED <<files, writing, toWrite>> /\ pc[r] \in End
      /\ pc'[r] = pc[r] \/ (pc[r] # "destroy" \/ toWrite[r] = {})
  BY DEF NativeEnds, Destroyed, Exit, Goto, cacheVars, disk, TypeInv, MainTypes, End
<1>2. ASSUME NEW n \in Outputs(r) \ LinkIns(r)
      PROVE  Left(r, n)'
  BY <1>1 DEF LeftInv, Left, End
<1> QED
  BY <1>2, BuildDefs DEF LeftOf

LEMMA LeftNext ==
    ASSUME TypeInv, CacheInv, LeftInv, [Next]_vars
    PROVE  LeftInv'
<1>1. make' = make
  BY BuildStays
<1>2. CASE UNCHANGED vars
  BY <1>1, <1>2, BuildDefs DEF LeftInv, Left, vars, gestaltVars, cacheVars, disk
<1>3. ASSUME NEW r \in Runs, Step(r) \/ Fault(r), NEW q \in Runs
      PROVE  LeftOf(q)'
  <2>1. CASE q = r
    <3>1. CASE pc'[r] \in End
      BY <1>1, <1>3, <2>1, <3>1, EndSteps, LeftBegins, LeftWrite, LeftWriteOn, LeftEnd
    <3> QED
      BY <2>1, <3>1 DEF LeftOf
  <2>2. CASE q # r
    <3>1. pc'[q] = pc[q] /\ toWrite'[q] = toWrite[q] /\ writing'[q] = writing[q]
      BY <1>3, <2>2, StepIsLocal DEF Local
    <3>2. ASSUME pc[q] \in End, NEW n \in Outputs(q) \ LinkIns(q)
          PROVE  Left(q, n)'
      <4>1. Left(q, n) /\ n \in Objects /\ "bc" \in Kinds
        BY <3>2, BuildTypes DEF LeftInv, Kinds, End
      <4>2. files[n]["bc"] # Absent => files'[n]["bc"] # Absent
        BY <1>3, <4>1, FilesStay
      <4> QED
        BY <3>1, <4>1, <4>2 DEF Left
    <3> QED
      BY <1>1, <3>1, <3>2, BuildDefs DEF LeftOf
  <2> QED
    BY <2>1, <2>2
<1> QED
  BY <1>1, <1>2, <1>3 DEF LeftInv, LeftOf, End, Next

LEMMA DiskInit ==
    ASSUME Init, TypeInv
    PROVE  OrderInv /\ HeldInv /\ LeftInv /\ NobodysInv
<1>1. /\ \A r \in Runs : pc[r] = "waiting"
      /\ \A n \in Objects : lock[n] = None /\ \A k \in Kinds : files[n][k] = Absent
  BY DEF Init, InitCache
<1> QED
  BY <1>1 DEF OrderInv, HeldInv, LeftInv, NobodysInv

-----------------------------------------------------------------------------
(* What a link takes                                                       *)

\* All that the parts before say of a state.
PipelineInv ==
    /\ TypeInv /\ DiskInv /\ PassInv /\ CacheInv
    /\ OrderInv /\ HeldInv /\ LeftInv /\ NobodysInv

LEMMA PipelineNext ==
    ASSUME PipelineInv, [Next]_vars
    PROVE  PipelineInv'
  BY TypeNext, DiskNext, PassNext, CacheNext, OrderNext, HeldNext, LeftNext, NobodysNext
     DEF PipelineInv

\* Inputs of the link that somebody in the build makes, and the parts of them
\* that are there for the link to take.
Made(r) == {n \in LinkIns(r) : Makers(n) # {}}
Give(r, n, k) == IF r \in Makers(n) THEN {<<n, r>>} ELSE files[n][k].part

\* A run with a link that the build has ordered after what it takes.
Settled(r) == Alive(r) /\ pc[r] # "waiting" /\ Links(r) # {} /\ Ordered(r, Made(r))

\* What such a link takes is there, and nobody is left to change it.
LEMMA FilesReady ==
    ASSUME PipelineInv, NEW r \in Runs, Settled(r), NEW n \in Made(r), r \notin Makers(n)
    PROVE  /\ \A q \in Makers(n) : pc[q] = "exited"
           /\ \A k \in Kinds : files[n][k].is = "content"
<1>1. n \notin unlocked /\ Makers(n) \subseteq make.after[r]
  BY DEF Settled, Ordered
<1>2. n \in Objects /\ n \in LinkIns(r) /\ Makers(n) # {}
  BY BuildTypes DEF Made, PipelineInv
<1>3. \A q \in Makers(n) : pc[q] = "exited"
  BY <1>1 DEF Settled, PipelineInv, OrderInv
<1>4. \A q \in Runs : pc[q] = "exited" => writing[q] = None
  BY DEF PipelineInv, TypeInv, WritingTypes
<1>5. lock[n] = None
  <2>1. SUFFICES ASSUME lock[n] # None PROVE FALSE
    OBVIOUS
  <2>2. lock[n] \in Runs
    BY <1>2, <2>1 DEF PipelineInv, TypeInv, FileTypes
  <2>3. n \in Outputs(lock[n]) /\ (Alive(lock[n]) => writing[lock[n]] # None)
    BY <1>2, <2>1 DEF PipelineInv, HeldInv
  <2>4. pc[lock[n]] = "exited"
    BY <1>3, <2>2, <2>3 DEF Makers
  <2> QED
    BY <1>4, <2>2, <2>3, <2>4 DEF Alive
<1>6. PICK q \in Runs : n \in Outputs(q) /\ q \in make.after[r] /\ pc[q] = "exited"
  BY <1>1, <1>2, <1>3 DEF Makers
<1>7. n \notin LinkIns(q)
  BY <1>2, <1>6, TemporariesAreOwn DEF PipelineInv
<1>8. files[n]["bc"] # Absent
  BY <1>4, <1>6, <1>7 DEF PipelineInv, LeftInv, Left
<1>9. "bc" \in Kinds
  BY DEF Kinds
<1>10. \A k \in Kinds : files[n][k].is = "content"
  BY <1>1, <1>2, <1>5, <1>8, <1>9 DEF PipelineInv, DiskInv, FilesAgree
<1> QED
  BY <1>3, <1>10

LEMMA FilesRest ==
    ASSUME PipelineInv, NEW r \in Runs, Settled(r), NEW n \in Made(r), r \notin Makers(n),
           NEW p \in Runs, Step(p) \/ Fault(p)
    PROVE  files'[n] = files[n]
<1>1. n \in Objects
  BY BuildTypes DEF Made, PipelineInv
<1>2. ASSUME NEW m \in Objects, NEW k \in Kinds, Wrote(p, m, k)
      PROVE  m # n
  <2>1. pc[p] = "destroy" /\ p \in Makers(m)
    BY <1>2, WritersMake DEF Wrote, PipelineInv
  <2> QED
    BY <2>1, FilesReady
<1>3. files' = files \/ \E m \in Objects, k \in Kinds : Wrote(p, m, k)
  BY FilesStep DEF PipelineInv
<1> QED
  BY <1>1, <1>2, <1>3, OneFile DEF PipelineInv

\* A module once written without its lock stays one.
LEMMA UnlockedGrows ==
    ASSUME TypeInv, NEW r \in Runs, Step(r) \/ Fault(r)
    PROVE  unlocked \subseteq unlocked'
<1>1. CASE WriteOn(r) \/ \E n \in Objects : WriteModule(r, n) \/ WriteModuleUnlocked(r, n)
  BY <1>1, Zenon DEF WriteOn, OpenFile, FlushFile, Unlock, WriteModule, WriteModuleUnlocked, TryLock,
              LockError
<1> QED
  BY <1>1, NoLocks

\* A step leaves a link that is under way what it takes.
LEMMA LinkFrame ==
    ASSUME PipelineInv, make' = make, NEW p \in Runs, Step(p) \/ Fault(p),
           NEW r \in Runs, pc[r] # "waiting", Settled(r)'
    PROVE  /\ Settled(r) /\ Made(r)' = Made(r)
           /\ \A n \in Made(r), k \in Kinds : Give(r, n, k)' = Give(r, n, k)
           /\ \A n \in Made(r) : r \notin Makers(n) => files'[n] = files[n]
<1>1. Made(r)' = Made(r) /\ Links(r)' = Links(r) /\ \A n : Makers(n)' = Makers(n)
  BY BuildDefs DEF Made
<1>2. Alive(r)
  <2>1. Alive(r)'
    BY DEF Settled
  <2>2. CASE p = r
    BY <2>1, <2>2, PhaseStep DEF PipelineInv
  <2>3. CASE p # r
    BY <2>1, <2>3, StepIsLocal DEF PipelineInv, Local, Alive
  <2> QED
    BY <2>2, <2>3
<1>3. Settled(r)
  BY <1>1, <1>2, UnlockedGrows DEF Settled, Ordered, PipelineInv
<1>4. \A n \in Made(r) : r \notin Makers(n) => files'[n] = files[n]
  BY <1>3, FilesRest
<1> QED
  BY <1>1, <1>3, <1>4 DEF Give

ReadSoFar(r) ==
    reading[r] # None =>
        \A i \in 1 .. Len(reading[r].got) :
            /\ reading[r].name \in Made(r)
            /\ reading[r].got[i] = files[reading[r].name][ReadOrder[i]].part

CachedInputs(r) ==
    \A n \in inputs[r] \cap DOMAIN cache[r] :
        n \in Made(r) /\ \A k \in Kinds : cache[r][n][k] = Give(r, n, k)

LinkedSoFar(r) ==
    \A k \in Kinds : linked[r][k] = UNION {Give(r, n, k) : n \in Made(r) \ inputs[r]}

HasTaken(r) ==
    \/ pc[r] \in {"link", "semaphore", "passes", "native"}
    \/ pc[r] = "jobs" /\ todo[r] = <<>>

\* In every state of the link: what it has read and not yet taken, and what it
\* has taken, is what there is to take.
ExactOf(r) ==
    Settled(r) =>
        /\ pc[r] = "link" => ReadSoFar(r) /\ CachedInputs(r)
        /\ HasTaken(r) => LinkedSoFar(r)

ExactInv == \A r \in Runs : ExactOf(r)

\* Neither the link nor what it takes changes.
LEMMA ExactMove ==
    ASSUME PipelineInv, make' = make, NEW p \in Runs, Step(p) \/ Fault(p),
           NEW r \in Runs, pc[r] # "waiting", ExactOf(r),
           todo'[r] = todo[r], inputs'[r] = inputs[r], linked'[r] = linked[r],
           \/ pc'[r] = pc[r] /\ reading'[r] = reading[r] /\ cache'[r] = cache[r]
           \/ pc[r] = "jobs" /\ todo[r] = <<>> /\ pc'[r] = "semaphore"
           \/ pc[r] \in {"semaphore", "passes"} /\ pc'[r] \in {"passes", "native"}
    PROVE  ExactOf(r)'
<1> SUFFICES ASSUME Settled(r)'
             PROVE  /\ pc'[r] = "link" => ReadSoFar(r)' /\ CachedInputs(r)'
                    /\ HasTaken(r)' => LinkedSoFar(r)'
  BY DEF ExactOf
<1>1. /\ Settled(r) /\ Made(r)' = Made(r)
      /\ \A n \in Made(r), k \in Kinds : Give(r, n, k)' = Give(r, n, k)
      /\ \A n \in Made(r) : r \notin Makers(n) => files'[n] = files[n]
  BY LinkFrame
<1>2. ASSUME pc'[r] = "link"
      PROVE  ReadSoFar(r)' /\ CachedInputs(r)'
  <2>1. pc[r] = "link" /\ reading'[r] = reading[r] /\ cache'[r] = cache[r]
    BY <1>2
  <2>2. ReadSoFar(r) /\ CachedInputs(r)
    BY <1>1, <2>1 DEF ExactOf
  <2>3. CachedInputs(r)'
    BY <1>1, <2>1, <2>2 DEF CachedInputs
  <2>4. reading[r] # None => r \notin Makers(reading[r].name)
    <3>1. /\ JobsOf(r) /\ CacheOf(r) /\ TypeInv
          /\ reading[r] # None => reading[r].name \notin DOMAIN cache[r]
      BY DEF PipelineInv, CacheInv, TypeInv, ReadingTypes
    <3>2. reading[r] # None => reading[r].name \in inputs[r]
      BY <2>1, <3>1 DEF CacheOf, Alive
    <3> QED
      BY <2>1, <3>1, <3>2, ReadsOthers DEF Makers
  <2>5. ReadSoFar(r)'
    BY <1>1, <2>1, <2>2, <2>4 DEF ReadSoFar
  <2> QED
    BY <2>3, <2>5
<1>3. ASSUME LinkedSoFar(r)
      PROVE  LinkedSoFar(r)'
  <2>1. ASSUME NEW k \in Kinds
        PROVE  linked'[r][k] = UNION {Give(r, n, k)' : n \in Made(r) \ inputs[r]}
    BY <1>1, <1>3 DEF LinkedSoFar
  <2> QED
    BY <1>1, <2>1 DEF LinkedSoFar
<1> QED
  BY <1>1, <1>2, <1>3 DEF ExactOf, HasTaken

\* Before its link a run has compiled, and its cache has nothing else.
LEMMA ExactBeginLink ==
    ASSUME PipelineInv, make' = make, NEW r \in Runs, ExactOf(r), BeginLink(r)
    PROVE  ExactOf(r)'
<1>1. TypeInv /\ JobsOf(r) /\ CacheOf(r)
  BY DEF PipelineInv, CacheInv
<1>2. /\ pc[r] = "jobs" /\ pc'[r] = "link" /\ todo[r] # <<>> /\ Job(r).op = "link"
      /\ inputs'[r] = Job(r).ins /\ linked'[r] = Empty /\ reading'[r] = reading[r]
      /\ cache' = cache
  BY <1>1 DEF BeginLink, AtJob, Goto, cacheVars, TypeInv, MainTypes
<1>3. inputs'[r] = LinkIns(r) /\ Job(r).out \notin LinkIns(r)
  BY <1>1, <1>2, AtLink
<1>4. reading[r] = None
  BY <1>1, <1>2 DEF TypeInv, ReadingTypes
<1>5. ASSUME NEW n \in inputs'[r] \cap DOMAIN cache[r]
      PROVE  r \in Makers(n) /\ n \in Made(r) /\ cache[r][n] = Whole({<<n, r>>})
  <2>1. n \in Outputs(r)
    <3>1. n # Linked
      BY <1>1, <1>3, BuildTypes, LinkedAssumption
    <3>2. inputs[r] = {}
      BY <1>1, <1>2 DEF CacheOf, Alive
    <3> QED
      BY <1>1, <1>2, <3>1, <3>2 DEF CacheOf, Alive
  <2>2. n \in Done(r)
    BY <1>1, <1>2, <1>3, <2>1, DoneIsMade
  <2>3. cache[r][n] = Whole({<<n, r>>})
    BY <1>1, <1>2, <2>2 DEF CacheOf, Alive
  <2> QED
    BY <1>3, <2>1, <2>3 DEF Makers, Made
<1>6. CachedInputs(r)'
  <2>1. Made(r)' = Made(r) /\ \A n : Makers(n)' = Makers(n)
    BY BuildDefs DEF Made
  <2> QED
    BY <1>2, <1>5, <2>1, Zenon DEF CachedInputs, Give, Whole
<1>7. LinkedSoFar(r)'
  <2>1. Made(r)' \ inputs'[r] = {}
    BY <1>3, BuildDefs DEF Made
  <2> QED
    BY <1>2, <2>1 DEF LinkedSoFar, Empty, Whole
<1> QED
  BY <1>2, <1>4, <1>6, <1>7 DEF ExactOf, ReadSoFar

\* The link takes a module apart that is what there is.
LEMMA ExactLinkInput ==
    ASSUME PipelineInv, make' = make, NEW r \in Runs, ExactOf(r),
           NEW m \in Objects, LinkInput(r, m)
    PROVE  ExactOf(r)'
<1> SUFFICES ASSUME Settled(r)'
             PROVE  ReadSoFar(r)' /\ CachedInputs(r)' /\ LinkedSoFar(r)'
  BY DEF ExactOf
<1>1. TypeInv
  BY DEF PipelineInv
<1>2. /\ pc[r] = "link" /\ m \in inputs[r] /\ m \in DOMAIN cache[r] /\ reading'[r] = None
      /\ inputs'[r] = inputs[r] \ {m} /\ cache'[r] = Without(cache[r], m)
      /\ linked'[r] = [k \in Kinds |-> linked[r][k] \cup cache[r][m][k]]
  BY <1>1 DEF LinkInput, Linking, Cached, claim, TypeInv, MainTypes, ModuleTypes
<1>3. /\ Settled(r) /\ Made(r)' = Made(r)
      /\ \A n \in Made(r), k \in Kinds : Give(r, n, k)' = Give(r, n, k)
  BY <1>2, LinkFrame DEF Step
<1>4. CachedInputs(r) /\ LinkedSoFar(r)
  BY <1>2, <1>3 DEF ExactOf, HasTaken
<1>5. ReadSoFar(r)'
  BY <1>2 DEF ReadSoFar
<1>6. CachedInputs(r)'
  <2>1. /\ DOMAIN cache'[r] = DOMAIN cache[r] \ {m}
        /\ \A n \in DOMAIN cache'[r] : cache'[r][n] = cache[r][n]
    BY <1>2 DEF Without
  <2> QED
    BY <1>2, <1>3, <1>4, <2>1 DEF CachedInputs
<1>7. LinkedSoFar(r)'
  <2>1. m \in Made(r) /\ \A k \in Kinds : cache[r][m][k] = Give(r, m, k)
    BY <1>2, <1>4 DEF CachedInputs
  <2>2. ASSUME NEW k \in Kinds
        PROVE  linked'[r][k] = UNION {Give(r, n, k)' : n \in Made(r) \ inputs'[r]}
    <3> DEFINE before == UNION {Give(r, n, k) : n \in Made(r) \ inputs[r]}
               after == UNION {Give(r, n, k)' : n \in Made(r) \ inputs'[r]}
    <3>1. linked'[r][k] = before \cup Give(r, m, k)
      <4>1. linked[r][k] = before
        BY <1>4 DEF LinkedSoFar
      <4>2. linked'[r][k] = linked[r][k] \cup Give(r, m, k)
        BY <1>2, <2>1
      <4> QED
        BY <4>1, <4>2
    <3>2. Made(r) \ inputs'[r] = (Made(r) \ inputs[r]) \cup {m}
      BY <1>2, <2>1
    <3>3. ASSUME NEW x
          PROVE  x \in after <=> x \in before \cup Give(r, m, k)
      <4>1. x \in before <=> \E n \in Made(r) \ inputs[r] : x \in Give(r, n, k)
        OBVIOUS
      <4>2. x \in after <=> \E n \in Made(r) \ inputs'[r] : x \in Give(r, n, k)'
        OBVIOUS
      <4> HIDE DEF before, after
      <4>3. x \in after <=> \E n \in Made(r) \ inputs'[r] : x \in Give(r, n, k)
        BY <1>3, <4>2
      <4> QED
        BY <3>2, <4>1, <4>3
    <3>4. after = before \cup Give(r, m, k)
      <4> HIDE DEF before, after
      <4> QED
        BY <3>3
    <3> QED
      BY <3>1, <3>4
  <2> QED
    BY <1>3, <2>2 DEF LinkedSoFar
<1> QED
  BY <1>5, <1>6, <1>7

\* What a reader is about to read.
LEMMA ExactReader ==
    ASSUME PipelineInv, NEW r \in Runs, reading[r] # None
    PROVE  /\ pc[r] = "link" /\ todo[r] # <<>> /\ Alive(r)
           /\ reading[r] \in Reading /\ Len(reading[r].got) \in 0 .. 3
           /\ reading[r].name \in inputs[r] /\ reading[r].name \in LinkIns(r)
           /\ reading[r].name \notin DOMAIN cache[r]
           /\ r \notin Makers(reading[r].name)
<1> DEFINE n == reading[r].name
<1>1. TypeInv /\ JobsOf(r) /\ CacheOf(r)
  BY DEF PipelineInv, CacheInv
<1>2. /\ pc[r] = "link" /\ reading[r] \in Reading /\ n \notin DOMAIN cache[r]
      /\ Len(reading[r].got) < 4
  BY <1>1 DEF TypeInv, ReadingTypes, ReadOrder
<1>3. n \in inputs[r] /\ n \in LinkIns(r) /\ Alive(r)
  BY <1>1, <1>2 DEF CacheOf, Alive
<1>4. n \notin Outputs(r)
  BY <1>1, <1>2, <1>3, ReadsOthers
<1>5. Len(reading[r].got) \in 0 .. 3
  <2>1. Len(reading[r].got) \in Nat
    BY <1>2, LenProperties DEF Reading
  <2>2. ASSUME NEW l \in Nat, l < 4 PROVE l \in 0 .. 3
    BY ONLY <2>2
  <2> QED
    BY <1>2, <2>1, <2>2, Zenon
<1>6. todo[r] # <<>>
  BY <1>1, <1>2 DEF TypeInv, MainTypes
<1> QED
  BY <1>2, <1>3, <1>4, <1>5, <1>6 DEF Makers

\* No file that is missing is one that the link should take.
LEMMA ExactNotFound ==
    ASSUME PipelineInv, make' = make, NEW r \in Runs, ExactOf(r), NotFound(r)
    PROVE  ExactOf(r)'
<1> SUFFICES ASSUME Settled(r)'
             PROVE  ReadSoFar(r)' /\ CachedInputs(r)' /\ LinkedSoFar(r)'
  BY DEF ExactOf
<1> DEFINE m == reading[r].name
<1>1. TypeInv
  BY DEF PipelineInv
<1>2. reading[r] # None /\ inputs'[r] = inputs[r] \ {m} /\ reading'[r] = None
      /\ NextFile(r) \in {Absent, Torn} /\ cache' = cache /\ linked' = linked
  BY <1>1 DEF NotFound, ReadNothing, TypeInv, MainTypes, ReadingTypes
<1>3. /\ pc[r] = "link" /\ r \notin Makers(m) /\ NextKind(r) \in Kinds
  <2>1. ASSUME NEW l \in 0 .. 3 PROVE ReadOrder[l + 1] \in Kinds
    BY DEF ReadOrder, Kinds
  <2> QED
    BY <1>2, <2>1, ExactReader, Zenon DEF NextKind
<1>4. /\ Settled(r) /\ Made(r)' = Made(r)
      /\ \A n \in Made(r), k \in Kinds : Give(r, n, k)' = Give(r, n, k)
  BY <1>3, LinkFrame DEF Step
<1>5. CachedInputs(r) /\ LinkedSoFar(r)
  BY <1>3, <1>4 DEF ExactOf, HasTaken
<1>6. m \notin Made(r)
  <2>1. SUFFICES ASSUME m \in Made(r) PROVE FALSE
    OBVIOUS
  <2>2. NextFile(r).is = "content"
    BY <1>3, <1>4, <2>1, FilesReady DEF NextFile
  <2> QED
    BY <1>2, <2>2 DEF Absent, Torn
<1>7. CachedInputs(r)'
  BY <1>2, <1>4, <1>5 DEF CachedInputs
<1>8. LinkedSoFar(r)'
  <2>1. Made(r) \ inputs'[r] = Made(r) \ inputs[r]
    BY <1>2, <1>6
  <2>2. ASSUME NEW k \in Kinds
        PROVE  linked'[r][k] = UNION {Give(r, n, k)' : n \in Made(r) \ inputs[r]}
    BY <1>2, <1>4, <1>5 DEF LinkedSoFar
  <2> QED
    BY <1>4, <2>1, <2>2 DEF LinkedSoFar
<1> QED
  BY <1>2, <1>7, <1>8 DEF ReadSoFar

IsOneMore(t, s, x) ==
    /\ DOMAIN t = 1 .. Len(t) /\ Len(t) = Len(s) + 1
    /\ t[Len(s) + 1] = x /\ \A i \in 1 .. Len(s) : t[i] = s[i]

LEMMA OneMore ==
    ASSUME NEW S, NEW s \in Seq(S), NEW x \in S
    PROVE  IsOneMore(Append(s, x), s, x)
<1>1. Append(s, x) \in Seq(S)
  OBVIOUS
<1> QED
  BY <1>1, AppendProperties, LenProperties DEF IsOneMore

LEMMA AssembledParts ==
    ASSUME NEW g, DOMAIN g = 1 .. 4, NEW f, \A i \in 1 .. 4 : g[i] = f[ReadOrder[i]].part,
           NEW k \in Kinds
    PROVE  Assembled(g)[k] = f[k].part
<1> DEFINE i == CHOOSE j \in DOMAIN g : ReadOrder[j] = k
<1>1. \E j \in 1 .. 4 : ReadOrder[j] = k
  BY DEF Kinds, ReadOrder
<1>2. i \in 1 .. 4 /\ ReadOrder[i] = k
  BY <1>1
<1>3. Assembled(g)[k] = g[i]
  BY DEF Assembled
<1> HIDE DEF i
<1> QED
  BY <1>2, <1>3

LEMMA ContentPart ==
    ASSUME NEW file \in FileStates, file.is = "content"
    PROVE  file.part \in SUBSET Origins
  BY DEF FileStates, Absent, Torn

\* The next file of what a settled link reads is one that the link should
\* have, with what it holds: nobody's file is there to be read.
LEMMA ExactPart ==
    ASSUME PipelineInv, NEW r \in Runs, Settled(r), ReadSoFar(r), reading[r] # None,
           NEW part \in Parsed(NextKind(r), NextFile(r)),
           NEW got, got = Append(reading[r].got, part)
    PROVE  /\ reading[r].name \in Made(r)
           /\ DOMAIN got = 1 .. Len(got) /\ Len(got) = Len(reading[r].got) + 1
           /\ \A i \in 1 .. Len(got) : got[i] = files[reading[r].name][ReadOrder[i]].part
<1> DEFINE m == reading[r].name
           g == reading[r].got
           l == Len(g)
<1>1. m \in LinkIns(r) /\ r \notin Makers(m) /\ l \in 0 .. 3 /\ g \in Seq(SUBSET Origins)
  BY ExactReader DEF Reading
<1>2. NextKind(r) \in Kinds /\ NextFile(r) = files[m][NextKind(r)] /\ NextKind(r) = ReadOrder[l + 1]
  <2>1. ASSUME NEW x \in 0 .. 3 PROVE ReadOrder[x + 1] \in Kinds
    BY DEF ReadOrder, Kinds
  <2> QED
    BY <1>1, <2>1, Zenon DEF NextKind, NextFile
<1>3. m \in Made(r)
  <2>1. SUFFICES ASSUME Makers(m) = {} PROVE FALSE
    BY <1>1 DEF Made
  <2>2. m \in Objects
    BY <1>1, BuildTypes, SMTT(30) DEF PipelineInv
  <2>3. NextFile(r) = Absent
    BY <1>2, <2>1, <2>2 DEF PipelineInv, NobodysInv
  <2>4. Parsed(NextKind(r), Absent) = {}
    BY DEF Parsed, Absent, Torn
  <2> QED
    BY <2>3, <2>4
<1>4. part = files[m][ReadOrder[l + 1]].part
  <2>1. NextFile(r).is = "content"
    BY <1>1, <1>2, <1>3, FilesReady
  <2> QED
    BY <1>2, <2>1, ZenonT(30) DEF Parsed
<1>5. IsOneMore(got, g, part)
  <2>1. part \in SUBSET Origins
    <3>1. m \in Objects /\ files[m][NextKind(r)].is = "content"
      BY <1>1, <1>2, <1>3, FilesReady, BuildTypes, Zenon DEF PipelineInv
    <3>2. files[m][NextKind(r)] \in FileStates
      BY <1>2, <3>1, ZenonT(30) DEF PipelineInv, TypeInv, FileTypes
    <3>3. part = files[m][NextKind(r)].part
      BY ONLY <1>2, <1>4
    <3> QED
      BY ONLY <3>1, <3>2, <3>3, ContentPart, Zenon
  <2>2. g \in Seq(SUBSET Origins)
    BY <1>1
  <2>3. got = Append(g, part)
    OBVIOUS
  <2> HIDE DEF g
  <2>4. ASSUME NEW S, NEW a \in Seq(S), NEW x \in S PROVE IsOneMore(Append(a, x), a, x)
    BY ONLY OneMore
  <2>5. IsOneMore(Append(g, part), g, part)
    BY ONLY <2>1, <2>2, <2>4
  <2> QED
    BY ONLY <2>3, <2>5, Zenon
<1>6. \A i \in 1 .. l : g[i] = files[m][ReadOrder[i]].part
  BY DEF ReadSoFar
<1> HIDE DEF m, g
<1>7. ASSUME NEW i \in 1 .. l + 1 PROVE i \in 1 .. l \/ i = l + 1
  BY <1>1
<1>8. \A i \in 1 .. Len(got) : got[i] = files[m][ReadOrder[i]].part
  BY ONLY <1>4, <1>5, <1>6, <1>7 DEF IsOneMore
<1> QED
  BY <1>3, <1>5, <1>8 DEF m, g, IsOneMore

LEMMA ExactReadOn ==
    ASSUME PipelineInv, make' = make, NEW r \in Runs, ExactOf(r), ReadOn(r)
    PROVE  ExactOf(r)'
<1> SUFFICES ASSUME Settled(r)'
             PROVE  ReadSoFar(r)' /\ CachedInputs(r)' /\ LinkedSoFar(r)'
  BY DEF ExactOf
<1> DEFINE m == reading[r].name
<1>1. TypeInv
  BY DEF PipelineInv
<1>2. reading[r] # None /\ inputs' = inputs /\ linked' = linked
  BY DEF ReadOn, ReadFile, gestaltVars
<1>3. /\ pc[r] = "link" /\ r \notin Makers(m) /\ m \notin DOMAIN cache[r] /\ m \in inputs[r]
      /\ reading[r] \in Reading /\ Len(reading[r].got) \in 0 .. 3
  BY <1>2, ExactReader
<1>4. /\ Settled(r) /\ Made(r)' = Made(r)
      /\ \A n \in Made(r), k \in Kinds : Give(r, n, k)' = Give(r, n, k)
      /\ \A n \in Made(r) : r \notin Makers(n) => files'[n] = files[n]
  BY <1>3, LinkFrame DEF Step
<1>5. ReadSoFar(r) /\ CachedInputs(r) /\ LinkedSoFar(r)
  BY <1>3, <1>4 DEF ExactOf, HasTaken
<1>6. LinkedSoFar(r)'
  <2>1. ASSUME NEW k \in Kinds
        PROVE  linked'[r][k] = UNION {Give(r, n, k)' : n \in Made(r) \ inputs[r]}
    BY <1>2, <1>4, <1>5 DEF LinkedSoFar
  <2> QED
    BY <1>2, <1>4, <2>1 DEF LinkedSoFar
<1>7. \E part \in Parsed(NextKind(r), NextFile(r)) : \E got :
        /\ got = Append(reading[r].got, part)
        /\ IF Len(got) < Len(ReadOrder)
             THEN reading' = [reading EXCEPT ![r].got = got] /\ cache' = cache
             ELSE reading' = [reading EXCEPT ![r] = None] /\ Insert(r, m, Assembled(got))
  BY Zenon DEF ReadOn, ReadFile
<1> PICK part \in Parsed(NextKind(r), NextFile(r)) : \E got :
        /\ got = Append(reading[r].got, part)
        /\ IF Len(got) < Len(ReadOrder)
             THEN reading' = [reading EXCEPT ![r].got = got] /\ cache' = cache
             ELSE reading' = [reading EXCEPT ![r] = None] /\ Insert(r, m, Assembled(got))
  BY <1>7, Zenon
<1>8. PICK got :
        /\ got = Append(reading[r].got, part)
        /\ IF Len(got) < Len(ReadOrder)
             THEN reading' = [reading EXCEPT ![r].got = got] /\ cache' = cache
             ELSE reading' = [reading EXCEPT ![r] = None] /\ Insert(r, m, Assembled(got))
  BY ZenonT(30)
<1>9. /\ m \in Made(r) /\ DOMAIN got = 1 .. Len(got) /\ Len(got) = Len(reading[r].got) + 1
      /\ \A i \in 1 .. Len(got) : got[i] = files[m][ReadOrder[i]].part
  BY ONLY PipelineInv, <1>2, <1>4, <1>5, <1>8, ExactPart, SMTT(30)
<1>10. Len(ReadOrder) = 4
  BY DEF ReadOrder
<1>11. CASE Len(got) < 4
  <2>1. reading' = [reading EXCEPT ![r].got = got] /\ cache' = cache
    BY <1>8, <1>10, <1>11
  <2>2. reading'[r] = [name |-> m, got |-> got]
    <3>1. reading'[r] = [reading[r] EXCEPT !.got = got]
      BY <1>1, <2>1 DEF TypeInv, ReadingTypes
    <3>2. [reading[r] EXCEPT !.got = got] = [name |-> m, got |-> got]
      BY <1>3, SMTT(30) DEF Reading
    <3> QED
      BY <3>1, <3>2
  <2>3. ReadSoFar(r)'
    BY <1>3, <1>4, <1>9, <2>2, SMTT(30) DEF ReadSoFar
  <2>4. CachedInputs(r)'
    BY <1>2, <1>4, <1>5, <2>1 DEF CachedInputs
  <2> QED
    BY <1>6, <2>3, <2>4
<1>12. CASE ~ (Len(got) < 4)
  <2>1. reading'[r] = None /\ cache'[r] = With(cache[r], m, Assembled(got))
    BY <1>1, <1>8, <1>10, <1>12 DEF Insert, TypeInv, ReadingTypes, ModuleTypes
  <2>2. Len(got) = 4
    <3>1. ASSUME NEW l \in 0 .. 3, ~ (l + 1 < 4) PROVE l + 1 = 4
      BY ONLY <3>1
    <3> QED
      BY <1>3, <1>9, <1>12, <3>1, Zenon
  <2>3. ASSUME NEW k \in Kinds PROVE Assembled(got)[k] = files[m][k].part
    <3> DEFINE g == files[m]
    <3>1. DOMAIN got = 1 .. 4 /\ \A i \in 1 .. 4 : got[i] = g[ReadOrder[i]].part
      BY <1>9, <2>2, Zenon
    <3> HIDE DEF g
    <3>2. Assembled(got)[k] = g[k].part
      BY ONLY <3>1, AssembledParts, k \in Kinds
    <3> QED
      BY <3>2 DEF g
  <2> DEFINE f == cache[r]
             a == Assembled(got)
  <2> HIDE DEF f, a, m
  <2>4. /\ DOMAIN With(f, m, a) = DOMAIN f \cup {m} /\ With(f, m, a)[m] = a
        /\ \A x \in DOMAIN f : x # m => With(f, m, a)[x] = f[x]
    BY DEF With
  <2>5. ASSUME NEW n \in inputs[r] \cap DOMAIN cache'[r], NEW k \in Kinds
        PROVE  n \in Made(r) /\ cache'[r][n][k] = Give(r, n, k)
    <3>1. CASE n = m
      BY <1>3, <1>9, <2>1, <2>3, <2>4, <3>1 DEF Give, f, a
    <3>2. CASE n # m
      BY <1>5, <2>1, <2>4, <2>5, <3>2 DEF CachedInputs, f, a
    <3> QED
      BY <3>1, <3>2
  <2>6. CachedInputs(r)'
    BY <1>2, <1>4, <2>5 DEF CachedInputs, Kinds
  <2> QED
    BY <1>6, <2>1, <2>6 DEF ReadSoFar
<1> QED
  BY <1>11, <1>12

\* The link leaves its module as it has put it together.
LEMMA ExactEndLink ==
    ASSUME PipelineInv, make' = make, NEW r \in Runs, ExactOf(r), EndLink(r)
    PROVE  ExactOf(r)'
<1> SUFFICES ASSUME Settled(r)' PROVE pc'[r] = "jobs" /\ LinkedSoFar(r)'
  BY DEF ExactOf
<1>1. pc[r] = "link" /\ pc'[r] = "jobs" /\ inputs' = inputs /\ linked' = linked
  BY DEF EndLink, Linking, Goto, PipelineInv, TypeInv, MainTypes
<1>2. /\ Settled(r) /\ Made(r)' = Made(r)
      /\ \A n \in Made(r), k \in Kinds : Give(r, n, k)' = Give(r, n, k)
  BY <1>1, LinkFrame DEF Step
<1>3. LinkedSoFar(r)
  BY <1>1, <1>2 DEF ExactOf, HasTaken
<1>4. ASSUME NEW k \in Kinds
      PROVE  linked'[r][k] = UNION {Give(r, n, k)' : n \in Made(r) \ inputs[r]}
  BY <1>1, <1>2, <1>3 DEF LinkedSoFar
<1> QED
  BY <1>1, <1>2, <1>4 DEF LinkedSoFar

\* Steps after which the invariant asks nothing of a run: it has not begun its
\* link, has none, or is through with what the link has made.
LEMMA ExactAway ==
    ASSUME PipelineInv, make' = make, NEW r \in Runs,
           \/ Start(r) \/ compile(r) \/ SkipAssembler(r) \/ Die(r) \/ pc'[r] \in End
    PROVE  ExactOf(r)'
<1>1. TypeInv /\ JobsOf(r)
  BY DEF PipelineInv, CacheInv
<1>2. CASE pc'[r] \in End
  BY <1>2 DEF ExactOf, HasTaken, End
<1>3. CASE Die(r)
  <2>1. pc'[r] \in {"killed", "killedInside"}
    BY <1>1, <1>3 DEF Die, Goto, TypeInv, MainTypes
  <2> QED
    BY <2>1 DEF ExactOf, Settled, Alive
<1>4. CASE Start(r)
  <2>1. pc'[r] = "future" \/ (pc'[r] = "jobs" /\ todo'[r] # <<>>)
    BY <1>1, <1>4 DEF Start, Goto, TypeInv, MainTypes
  <2> QED
    BY <2>1 DEF ExactOf, HasTaken
<1>5. CASE compile(r) \/ SkipAssembler(r)
  <2>1. /\ pc'[r] = "jobs" /\ todo[r] # <<>> /\ Job(r).op # "link"
        /\ todo'[r] = Tail(todo[r])
    BY <1>1, <1>5 DEF compile, SkipAssembler, AtJob, TypeInv, MainTypes
  <2>2. todo'[r] = <<>> => Links(r)' = {}
    BY <1>1, <2>1, NoLink, BuildDefs, Zenon
  <2> QED
    BY <2>1, <2>2 DEF ExactOf, HasTaken, Settled
<1> QED
  BY <1>2, <1>3, <1>4, <1>5

\* Steps that leave the link and what it has taken.
LEMMA ExactStays ==
    ASSUME PipelineInv, make' = make, NEW r \in Runs, ExactOf(r),
           \/ NativeEnds(r) \/ NativeReaped(r) \/ \E n \in Objects : ReadInput(r, n)
           \/ Result(r) \/ EnterCriticalSection(r) \/ RunPasses(r)
    PROVE  ExactOf(r)'
<1> USE DEF PipelineInv, TypeInv, MainTypes
<1>1. CASE pc[r] = "waiting"
  <2>1. pc'[r] = "waiting"
    BY <1>1 DEF NativeEnds, NativeReaped, ReadInput, Linking, Result, EnterCriticalSection, RunPasses
  <2> QED
    BY <2>1 DEF ExactOf, Settled
<1>2. CASE (NativeEnds(r) \/ NativeReaped(r)) /\ pc[r] # "waiting"
  BY <1>2, ExactMove, Zenon DEF NativeEnds, NativeReaped, cacheVars, Step, Fault
<1>3. CASE Result(r) \/ EnterCriticalSection(r) \/ RunPasses(r)
  <2>1. /\ todo' = todo /\ inputs' = inputs /\ linked' = linked /\ pc[r] # "waiting"
        /\ \/ pc[r] = "jobs" /\ todo[r] = <<>> /\ pc'[r] = "semaphore"
           \/ pc[r] \in {"semaphore", "passes"} /\ pc'[r] \in {"passes", "native"}
    BY <1>3 DEF Result, EnterCriticalSection, RunPasses, Goto
  <2> QED
    BY <1>3, <2>1, ExactMove, SMTT(30) DEF Step
<1>4. ASSUME NEW n \in Objects, ReadInput(r, n)
      PROVE  ExactOf(r)'
  <2> SUFFICES ASSUME Settled(r)'
               PROVE  ReadSoFar(r)' /\ CachedInputs(r)' /\ LinkedSoFar(r)'
    BY DEF ExactOf
  <2>1. /\ pc[r] = "link" /\ inputs' = inputs /\ linked' = linked /\ cache' = cache
        /\ reading'[r] = [name |-> n, got |-> <<>>]
    BY <1>4 DEF ReadInput, Linking, BeginRead, gestaltVars, ReadingTypes
  <2>2. /\ Settled(r) /\ Made(r)' = Made(r)
        /\ \A m \in Made(r), k \in Kinds : Give(r, m, k)' = Give(r, m, k)
    BY <1>4, <2>1, LinkFrame, ZenonT(30) DEF Step
  <2>3. CachedInputs(r) /\ LinkedSoFar(r)
    BY <2>1, <2>2 DEF ExactOf, HasTaken
  <2>4. ReadSoFar(r)'
    <3>1. Len(reading'[r].got) = 0
      BY <2>1
    <3> QED
      BY <3>1 DEF ReadSoFar
  <2>5. CachedInputs(r)'
    BY <2>1, <2>2, <2>3 DEF CachedInputs
  <2>6. ASSUME NEW k \in Kinds
        PROVE  linked'[r][k] = UNION {Give(r, m, k)' : m \in Made(r) \ inputs[r]}
    BY <2>1, <2>2, <2>3 DEF LinkedSoFar
  <2>7. LinkedSoFar(r)'
    BY <2>1, <2>2, <2>6 DEF LinkedSoFar
  <2> QED
    BY <2>4, <2>5, <2>7
<1> HIDE DEF PipelineInv, TypeInv, MainTypes
<1> QED
  BY <1>1, <1>2, <1>3, <1>4

LEMMA ExactOwn ==
    ASSUME PipelineInv, make' = make, NEW r \in Runs, ExactOf(r), Step(r) \/ Fault(r)
    PROVE  ExactOf(r)'
<1>1. CASE pc'[r] \in End
  BY <1>1, ExactAway
<1>2. CASE pc'[r] \notin End
  <2>1. ~ (NoResult(r) \/ Get(r) \/ Destroyed(r) \/ Exit(r))
    BY <1>2, SMTT(30) DEF NoResult, Get, Destroyed, Exit, Goto, End, PipelineInv, TypeInv,
                          MainTypes
  <2>2. ~ WriteOn(r)
    BY <1>2 DEF WriteOn, OpenFile, FlushFile, Unlock, End, gestaltVars, PipelineInv, TypeInv,
                WritingTypes
  <2>3. \A n \in Objects : ~ (WriteModule(r, n) \/ WriteModuleUnlocked(r, n))
    BY <1>2 DEF WriteModule, WriteModuleUnlocked, End
  <2>4. CASE Step(r)
    BY <2>1, <2>2, <2>3, <2>4, ExactAway, ExactStays, ExactBeginLink, ExactReadOn, ExactNotFound,
       ExactEndLink, ExactLinkInput DEF Step, BrokenTable
  <2>5. CASE Fault(r)
    BY <2>3, <2>5, ExactAway, ExactStays DEF Fault, Killed, CompileError
  <2> QED
    BY <2>4, <2>5
<1> QED
  BY <1>1, <1>2

LEMMA ExactNext ==
    ASSUME PipelineInv, ExactInv, [Next]_vars
    PROVE  ExactInv'
<1>1. make' = make
  BY BuildStays
<1>2. CASE UNCHANGED vars
  <2>1. UNCHANGED <<make, pc, todo, inputs, linked, cache, reading, files, unlocked>>
    BY <1>2 DEF vars, gestaltVars, cacheVars
  <2>2. /\ \A r : Made(r)' = Made(r) /\ Links(r)' = Links(r)
        /\ \A n : Makers(n)' = Makers(n)
    BY <2>1, BuildDefs DEF Made
  <2>3. \A r : Settled(r)' = Settled(r) /\ HasTaken(r)' = HasTaken(r)
    BY <2>1, <2>2 DEF Settled, Alive, Ordered, HasTaken
  <2>4. \A r, n, k : Give(r, n, k)' = Give(r, n, k)
    BY <2>1, <2>2 DEF Give
  <2>5. \A r : /\ ReadSoFar(r)' = ReadSoFar(r) /\ CachedInputs(r)' = CachedInputs(r)
               /\ LinkedSoFar(r)' = LinkedSoFar(r)
    BY <2>1, <2>2, <2>4 DEF ReadSoFar, CachedInputs, LinkedSoFar
  <2> QED
    BY <2>1, <2>3, <2>5 DEF ExactInv, ExactOf
<1>3. ASSUME NEW p \in Runs, Step(p) \/ Fault(p), NEW r \in Runs
      PROVE  ExactOf(r)'
  <2>1. CASE p = r
    BY <1>1, <1>3, <2>1, ExactOwn DEF ExactInv
  <2>2. CASE p # r
    <3>1. UNCHANGED Local(r)
      BY <1>3, <2>2, StepIsLocal DEF PipelineInv
    <3>2. CASE pc[r] = "waiting"
      BY <3>1, <3>2 DEF Local, ExactOf, Settled
    <3>3. CASE pc[r] # "waiting"
      BY <1>1, <1>3, <3>1, <3>3, ExactMove DEF ExactInv, Local
    <3> QED
      BY <3>2, <3>3
  <2> QED
    BY <2>1, <2>2
<1> QED
  BY <1>2, <1>3 DEF ExactInv, Next

LEMMA PipelineInit ==
    ASSUME Init
    PROVE  PipelineInv /\ ExactInv
<1>1. TypeInv /\ PassInv /\ CacheInv /\ OrderInv /\ HeldInv /\ LeftInv /\ NobodysInv
  BY TypeInit, PassInit, CacheInit, DiskInit
<1>2. DiskInv
  BY DEF Init, InitCache, DiskInv, DiskTypes, WritersLock, FilesAgree, Phases
<1>3. \A r \in Runs : pc[r] = "waiting"
  BY DEF Init
<1> QED
  BY <1>1, <1>2, <1>3 DEF PipelineInv, ExactInv, ExactOf, Settled

\* After the link nothing is left of its inputs, and what it has taken is one
\* version of each of them.
LEMMA ExactlyLinked ==
    ASSUME PipelineInv, ExactInv
    PROVE  LinksAreExact
<1> SUFFICES ASSUME NEW r \in Runs, pc[r] \in {"semaphore", "passes", "native"},
                    NEW i \in Links(r), Ordered(r, {n \in make.jobs[r][i].ins : Makers(n) # {}}),
                    NEW k \in Kinds
             PROVE  LET ins == {n \in make.jobs[r][i].ins : Makers(n) # {}}
                        own == {n \in ins : r \in Makers(n)}
                    IN  /\ \A n \in ins \ own : files[n][k].is = "content"
                        /\ linked[r][k] = {<<n, r>> : n \in own}
                                            \cup UNION {files[n][k].part : n \in ins \ own}
  BY Zenon DEF LinksAreExact
<1> DEFINE own == {n \in Made(r) : r \in Makers(n)}
<1>1. Made(r) = {n \in make.jobs[r][i].ins : Makers(n) # {}}
  BY LinkIsLast DEF Made, PipelineInv
<1>2. Settled(r)
  BY <1>1 DEF Settled, Alive
<1>3. inputs[r] = {}
  BY DEF PipelineInv, CacheInv, CacheOf, Alive
<1>4. linked[r][k] = UNION {Give(r, n, k) : n \in Made(r)}
  <2>1. Made(r) \ inputs[r] = Made(r)
    BY <1>3
  <2>2. LinkedSoFar(r)
    BY <1>2 DEF ExactInv, ExactOf, HasTaken
  <2> QED
    BY <2>1, <2>2 DEF LinkedSoFar
<1>5. \A n \in Made(r) \ own : files[n][k].is = "content"
  BY <1>2, FilesReady
<1>6. linked[r][k] = {<<n, r>> : n \in own} \cup UNION {files[n][k].part : n \in Made(r) \ own}
  <2> DEFINE all == UNION {Give(r, n, k) : n \in Made(r)}
             mine == {<<n, r>> : n \in own}
             others == UNION {files[n][k].part : n \in Made(r) \ own}
  <2>1. ASSUME NEW x
        PROVE  x \in all <=> x \in mine \cup others
    <3>1. x \in all <=> \E n \in Made(r) : x \in Give(r, n, k)
      OBVIOUS
    <3>2. x \in mine <=> \E n \in Made(r) : r \in Makers(n) /\ x = <<n, r>>
      OBVIOUS
    <3>3. x \in others <=> \E n \in Made(r) : r \notin Makers(n) /\ x \in files[n][k].part
      OBVIOUS
    <3> HIDE DEF all, mine, others
    <3> QED
      BY <3>1, <3>2, <3>3 DEF Give
  <2>2. all = mine \cup others
    <3> HIDE DEF all, mine, others
    <3> QED
      BY <2>1
  <2> QED
    BY <1>4, <2>2, Zenon
<1> HIDE DEF own
<1> QED
  BY <1>1, <1>5, <1>6 DEF own

\* A link that the build has ordered after what it takes has exactly one
\* version of every input, whole, and the one that is on disk, for any builds,
\* any number of runs, deaths and lock errors: readFor gets on without a lock.
THEOREM LinksTakeWhatIsThere == Spec => []LinksAreExact
<1>1. Init => PipelineInv /\ ExactInv
  BY PipelineInit
<1>2. PipelineInv /\ ExactInv /\ [Next]_vars => PipelineInv' /\ ExactInv'
  BY PipelineNext, ExactNext
<1>3. PipelineInv /\ ExactInv => LinksAreExact
  BY ExactlyLinked
<1> QED
  BY <1>1, <1>2, <1>3, PTL DEF Spec
=============================================================================
