------------------------------- MODULE Gestalt ------------------------------
(***************************************************************************)
(* Runs of the wrapper, as a build tool starts them in place of clang:     *)
(* each lets the native clang do its work in a thread of its own, compiles *)
(* and links the modules for itself, runs the passes over a linked module  *)
(* inside a critical section of all runs on the machine, and leaves its    *)
(* modules on disk for the runs that the build tool starts after it.       *)
(***************************************************************************)
EXTENDS ModuleCache, FiniteSets

CONSTANTS Makefiles,      \* builds: jobs and order of the runs, see MakefileType
          MaxDeaths,      \* bound on the runs that are killed
          MaxLockErrors   \* bound on the modules written without their lock

\* skipClang is set for all runs of a build.
JobType ==
    [op : {"compile", "link", "assemble"}, out : Objects, ins : SUBSET Objects]

MakefilesAssumption ==
    \A m \in Makefiles :
        /\ DOMAIN m = {"jobs", "after", "skipClang"}
        /\ m.jobs \in [Runs -> Seq(JobType)]
        /\ m.after \in [Runs -> SUBSET Runs]
        /\ m.skipClang \in BOOLEAN
ASSUME MakefilesAssumption

\* What the clang driver makes of a command: the link, if there is one, is its
\* last job and takes other files than it makes, and what a command compiles
\* for its own link are temporary files, which no later command links.
DriverAssumption ==
    \A m \in Makefiles : \A r \in Runs :
        LET links(q) == {i \in DOMAIN m.jobs[q] : m.jobs[q][i].op = "link"}
        IN  /\ \A i \in links(r) : /\ i = Len(m.jobs[r])
                                   /\ m.jobs[r][i].out \notin m.jobs[r][i].ins
            /\ \A q \in m.after[r] : \A i \in links(q), j \in links(r), c \in DOMAIN m.jobs[q] :
                 m.jobs[q][c].op = "compile" =>
                   m.jobs[q][c].out \notin m.jobs[q][i].ins \cap m.jobs[r][j].ins
ASSUME DriverAssumption
ASSUME BoundsAssumption == MaxDeaths \in Nat /\ MaxLockErrors \in Nat

VARIABLES
    make,       \* the build
    pc,         \* where main is
    todo,       \* jobs still to be done
    inputs,     \* inputs of the link not yet looked at
    linked,     \* what the link has put together
    toWrite,    \* entries of fileCache that ~impl has not come to
    semaphore,  \* of the critical section
    native,     \* the native clang: "off", "running" or its exit code
    exit        \* the exit code of the run

gestaltVars == <<make, pc, todo, inputs, linked, toWrite, semaphore, native, exit>>
vars == <<cacheVars, gestaltVars>>

Phases == {"waiting", "jobs", "link", "semaphore", "passes", "native", "destroy",
           "future", "exited", "killed", "killedInside"}
Codes == {"none", "OK", "E_ILLEGAL_COMPILER_OPTIONS", "E_CLANG_INVOKE"}
NativeStates == {"off", "running", "zero", "positive", "negative"}

Dead == {r \in Runs : pc[r] \in {"killed", "killedInside"}}
Ended(r) == pc[r] \in {"exited", "killed", "killedInside"}
Running(r) == ~ Ended(r) /\ pc[r] # "waiting"
Live == {r \in Runs : Running(r)}

Init ==
    /\ InitCache
    /\ make \in Makefiles
    /\ pc = [r \in Runs |-> "waiting"]
    /\ todo = make.jobs
    /\ inputs = [r \in Runs |-> {}]
    /\ linked = [r \in Runs |-> Empty]
    /\ toWrite = [r \in Runs |-> {}]
    /\ semaphore = 1
    /\ native = [r \in Runs |-> "off"]
    /\ exit = [r \in Runs |-> "none"]

Goto(r, phase) == pc' = [pc EXCEPT ![r] = phase]

-----------------------------------------------------------------------------
(* The build tool and the native clang                                     *)

\* The runs that this one comes after have ended well.  Without commands
\* there is no pipeline: main returns and the future waits for its thread.
Start(r) ==
    /\ pc[r] = "waiting"
    /\ \A q \in make.after[r] : pc[q] = "exited" /\ exit[q] = "OK"
    /\ native' = [native EXCEPT ![r] = IF make.skipClang THEN "off" ELSE "running"]
    /\ IF todo[r] = <<>>
         THEN /\ Goto(r, "future")
              /\ exit' = [exit EXCEPT ![r] = "E_ILLEGAL_COMPILER_OPTIONS"]
         ELSE /\ Goto(r, "jobs")
              /\ UNCHANGED exit
    /\ UNCHANGED <<cacheVars, make, todo, inputs, linked, toWrite, semaphore>>

NativeEnds(r) ==
    /\ native[r] = "running"
    /\ \E code \in {"zero", "positive", "negative"} :
        native' = [native EXCEPT ![r] = code]
    /\ UNCHANGED <<cacheVars, make, pc, todo, inputs, linked, toWrite, semaphore, exit>>

-----------------------------------------------------------------------------
(* clang_pipeline::invoke: compile and link                                *)

Job(r) == Head(todo[r])
AtJob(r, op) ==
    /\ pc[r] = "jobs"
    /\ todo[r] # <<>>
    /\ Job(r).op = op

compile(r) ==
    /\ AtJob(r, "compile")
    /\ Insert(r, Job(r).out, Whole({<<Job(r).out, r>>}))
    /\ todo' = [todo EXCEPT ![r] = Tail(@)]
    /\ UNCHANGED <<reading, writing, disk, make, pc, inputs, linked, toWrite, semaphore,
                   native, exit>>

\* A -cc1as job makes no module.
SkipAssembler(r) ==
    /\ AtJob(r, "assemble")
    /\ todo' = [todo EXCEPT ![r] = Tail(@)]
    /\ UNCHANGED <<cacheVars, make, pc, inputs, linked, toWrite, semaphore, native, exit>>

BeginLink(r) ==
    /\ AtJob(r, "link")
    /\ Goto(r, "link")
    /\ inputs' = [inputs EXCEPT ![r] = Job(r).ins]
    /\ linked' = [linked EXCEPT ![r] = Empty]
    /\ UNCHANGED <<cacheVars, make, todo, toWrite, semaphore, native, exit>>

Linking(r) == pc[r] = "link" /\ reading[r] = None

\* get finds it in fileCache, from this run or from readFor; the link takes
\* the module apart, so that the entry is claimed.
LinkInput(r, n) ==
    /\ Linking(r)
    /\ n \in inputs[r]
    /\ Cached(r, n)
    /\ linked' = [linked EXCEPT ![r] =
                    [k \in Kinds |-> @[k] \cup cache[r][n][k]]]
    /\ claim(r, n)
    /\ inputs' = [inputs EXCEPT ![r] = @ \ {n}]
    /\ UNCHANGED <<reading, writing, disk, make, pc, todo, toWrite, semaphore, native,
                   exit>>

ReadInput(r, n) ==
    /\ Linking(r)
    /\ n \in inputs[r]
    /\ BeginRead(r, n)
    /\ UNCHANGED gestaltVars

ReadOn(r) == ReadFile(r) /\ UNCHANGED gestaltVars

\* "file or module not found" is a warning; the link goes on without it.
NotFound(r) ==
    /\ ReadNothing(r)
    /\ inputs' = [inputs EXCEPT ![r] = @ \ {reading[r].name}]
    /\ UNCHANGED <<make, pc, todo, linked, toWrite, semaphore, native, exit>>

EndLink(r) ==
    /\ Linking(r)
    /\ inputs[r] = {}
    /\ cache' = [cache EXCEPT ![r] =
                   With(With(@, Linked, linked[r]), Job(r).out, linked[r])]
    /\ todo' = [todo EXCEPT ![r] = Tail(@)]
    /\ Goto(r, "jobs")
    /\ UNCHANGED <<reading, writing, disk, make, inputs, linked, toWrite, semaphore,
                   native, exit>>

-----------------------------------------------------------------------------
(* main after the pipeline                                                 *)

\* Mutant: only what was compiled is written, not what was linked.
DestroyCompiled(r) ==
    toWrite' = [toWrite EXCEPT ![r] =
                  {n \in DOMAIN cache[r] \ {Linked} : cache[r][n] = Whole({<<n, r>>})}]

\* ~impl claims the result and comes to the other entries in some order.
Destroy(r) == toWrite' = [toWrite EXCEPT ![r] = DOMAIN cache[r] \ {Linked}]

\* No linked module: main returns OK at once, and its locals are destroyed.
NoResult(r) ==
    /\ pc[r] = "jobs" /\ todo[r] = <<>>
    /\ ~ Cached(r, Linked)
    /\ exit' = [exit EXCEPT ![r] = "OK"]
    /\ Goto(r, "destroy")
    /\ Destroy(r)
    /\ UNCHANGED <<cacheVars, make, todo, inputs, linked, semaphore, native>>

Result(r) ==
    /\ pc[r] = "jobs" /\ todo[r] = <<>>
    /\ Cached(r, Linked)
    /\ Goto(r, "semaphore")
    /\ UNCHANGED <<cacheVars, make, todo, inputs, linked, toWrite, semaphore, native, exit>>

\* Mutant: the semaphore is opened but not waited for.
EnterWithoutWait(r) ==
    /\ pc[r] = "semaphore"
    /\ semaphore' = IF semaphore > 0 THEN semaphore - 1 ELSE 0
    /\ Goto(r, "passes")
    /\ UNCHANGED <<cacheVars, make, todo, inputs, linked, toWrite, native, exit>>

EnterCriticalSection(r) ==
    /\ pc[r] = "semaphore"
    /\ semaphore > 0
    /\ semaphore' = semaphore - 1
    /\ Goto(r, "passes")
    /\ UNCHANGED <<cacheVars, make, todo, inputs, linked, toWrite, native, exit>>

\* Mutant: the guard posts in destruct and once more in its destructor.
RunPassesPostTwice(r) ==
    /\ pc[r] = "passes"
    /\ semaphore' = semaphore + 2
    /\ Goto(r, "native")
    /\ UNCHANGED <<cacheVars, make, todo, inputs, linked, toWrite, native, exit>>

\* Mutant: the passes get a module of their own.
RunPassesOnCopy(r) ==
    /\ pc[r] = "passes"
    /\ semaphore' = semaphore + 1
    /\ Goto(r, "native")
    /\ UNCHANGED <<cacheVars, make, todo, inputs, linked, toWrite, native, exit>>

Passed(m, r) == [m EXCEPT !["bc"] = @ \cup {<<Passes, r>>}]

\* llvm.run() rewrites the module in place, under all names it has.
RunPasses(r) ==
    /\ pc[r] = "passes"
    /\ LET f == cache[r]
       IN  cache' = [cache EXCEPT ![r] = [n \in DOMAIN f |->
                       IF f[n] = f[Linked] THEN Passed(f[n], r) ELSE f[n]]]
    /\ semaphore' = semaphore + 1
    /\ Goto(r, "native")
    /\ UNCHANGED <<reading, writing, disk, make, todo, inputs, linked, toWrite, native,
                   exit>>

\* wait in the portfolio solver takes the native clang's status away.
NativeReaped(r) ==
    /\ pc[r] = "passes"
    /\ native[r] = "running"
    /\ native' = [native EXCEPT ![r] = "negative"]
    /\ UNCHANGED <<cacheVars, make, pc, todo, inputs, linked, toWrite, semaphore, exit>>

\* clangRes.get(): only a code below zero is a failure.
Get(r) ==
    /\ pc[r] = "native"
    /\ native[r] # "running"
    /\ exit' = [exit EXCEPT ![r] =
                  IF native[r] = "negative" THEN "E_CLANG_INVOKE" ELSE "OK"]
    /\ Goto(r, "destroy")
    /\ Destroy(r)
    /\ UNCHANGED <<cacheVars, make, todo, inputs, linked, semaphore, native>>

WriteModule(r, n) ==
    /\ pc[r] = "destroy"
    /\ n \in toWrite[r]
    /\ TryLock(r, n, Live)
    /\ toWrite' = [toWrite EXCEPT ![r] = @ \ {n}]
    /\ UNCHANGED <<make, pc, todo, inputs, linked, semaphore, native, exit>>

WriteModuleUnlocked(r, n) ==
    /\ pc[r] = "destroy"
    /\ n \in toWrite[r]
    /\ Cardinality(unlocked \cup {n}) <= MaxLockErrors
    /\ LockError(r, n)
    /\ toWrite' = [toWrite EXCEPT ![r] = @ \ {n}]
    /\ UNCHANGED <<make, pc, todo, inputs, linked, semaphore, native, exit>>

WriteOn(r) ==
    /\ OpenFile(r) \/ FlushFile(r) \/ Unlock(r)
    /\ UNCHANGED gestaltVars

\* The pipeline is gone; the destructor of the future waits for its thread.
Destroyed(r) ==
    /\ pc[r] = "destroy"
    /\ toWrite[r] = {} /\ writing[r] = None
    /\ Goto(r, "future")
    /\ UNCHANGED <<cacheVars, make, todo, inputs, linked, toWrite, semaphore, native, exit>>

Exit(r) ==
    /\ pc[r] = "future"
    /\ native[r] # "running"
    /\ Goto(r, "exited")
    /\ UNCHANGED <<cacheVars, make, todo, inputs, linked, toWrite, semaphore, native, exit>>

-----------------------------------------------------------------------------
(* Deaths                                                                  *)

\* A lock file and the count of the semaphore survive the process.
Die(r) ==
    /\ Goto(r, IF pc[r] = "passes" THEN "killedInside" ELSE "killed")
    /\ reading' = [reading EXCEPT ![r] = None]
    /\ writing' = [writing EXCEPT ![r] = None]
    /\ exit' = [exit EXCEPT ![r] = "none"]
    /\ UNCHANGED <<cache, disk, make, todo, inputs, linked, toWrite, semaphore, native>>

Killed(r) ==
    /\ Running(r)
    /\ Cardinality(Dead) < MaxDeaths
    /\ Die(r)

\* Without a module after a compile error, or without a table of variables in
\* a torn file, the run goes through a null pointer.
CompileError(r) == AtJob(r, "compile") /\ Die(r)
BrokenTable(r) == ReadBroken(r) /\ Die(r)

-----------------------------------------------------------------------------
Step(r) ==
    \/ Start(r) \/ NativeEnds(r)
    \/ compile(r) \/ SkipAssembler(r)
    \/ BeginLink(r) \/ ReadOn(r) \/ NotFound(r) \/ BrokenTable(r) \/ EndLink(r)
    \/ \E n \in Objects : LinkInput(r, n) \/ ReadInput(r, n) \/ WriteModule(r, n)
    \/ NoResult(r) \/ Result(r)
    \/ EnterCriticalSection(r) \/ RunPasses(r) \/ Get(r)
    \/ WriteOn(r) \/ Destroyed(r) \/ Exit(r)

Fault(r) ==
    \/ NativeReaped(r) \/ Killed(r) \/ CompileError(r)
    \/ \E n \in Objects : WriteModuleUnlocked(r, n)

Next == \E r \in Runs : Step(r) \/ Fault(r)

Spec == Init /\ [][Next]_vars

\* Every run is a process that the kernel schedules, and so is its clang.
FairSpec == Spec /\ \A r \in Runs : WF_vars(Step(r)) /\ WF_vars(NativeEnds(r))

-----------------------------------------------------------------------------
(* Properties                                                              *)

\* The state has the types that main and the pipeline declare.
TypeOK ==
    /\ \A r \in Runs :
        /\ DOMAIN cache[r] \subseteq Names
        /\ \A n \in DOMAIN cache[r] : cache[r][n] \in PortableModules
        /\ reading[r] # None =>
            /\ reading[r].name \in Objects \ DOMAIN cache[r]
            /\ Len(reading[r].got) < Len(ReadOrder)
        /\ writing[r] # None =>
            /\ writing[r].name \in DOMAIN cache[r] \cap Objects
            /\ writing[r].step \in 0 .. 8
    /\ files \in [Objects -> [Kinds -> FileStates]]
    /\ lock \in [Objects -> Runs \cup {None}]
    /\ unlocked \subseteq Objects
    /\ make \in Makefiles
    /\ pc \in [Runs -> Phases]
    /\ inputs \in [Runs -> SUBSET Objects]
    /\ linked \in [Runs -> PortableModules]
    /\ toWrite \in [Runs -> SUBSET Objects]
    /\ semaphore \in {0, 1}
    /\ native \in [Runs -> NativeStates]
    /\ exit \in [Runs -> Codes]

\* At most one run on the machine is inside llvm.run(), whoever dies where:
\* what the CriticalSection of main is for.
OneRunInThePasses ==
    \A q, r \in Runs : pc[q] = "passes" /\ pc[r] = "passes" => q = r

\* A module whose lock file is gone has its four files from one run, or no
\* files.  What a dead run left torn keeps the dead run's lock file.
FilesAgree ==
    \A n \in Objects \ unlocked :
        lock[n] = None =>
            \/ \A k \in Kinds : files[n][k] = Absent
            \/ \E r \in Runs : \A k \in Kinds :
                 files[n][k].is = "content" /\ files[n][k].by = r

Outputs(r) == {make.jobs[r][i].out : i \in
                 {j \in DOMAIN make.jobs[r] : make.jobs[r][j].op # "assemble"}}
Links(r) == {i \in DOMAIN make.jobs[r] : make.jobs[r][i].op = "link"}
Makers(n) == {r \in Runs : n \in Outputs(r)}

\* Every input of the link is made by the run itself, or only by runs that
\* the build has before it.
Ordered(r, ins) ==
    \A n \in ins : n \notin unlocked /\ (Makers(n) = {r} \/ Makers(n) \subseteq make.after[r])

\* A link whose inputs the build has ordered before it takes exactly one
\* version of every input, whole, and the one that is on disk: nothing lost
\* by "file or module not found", nothing mixed from two writers, although
\* readFor takes no lock.
LinksAreExact ==
    \A r \in Runs : pc[r] \in {"semaphore", "passes", "native"} =>
        \A i \in Links(r) : LET ins == {n \in make.jobs[r][i].ins : Makers(n) # {}}
                               own == {n \in ins : r \in Makers(n)}
                           IN  Ordered(r, ins) => \A k \in Kinds :
            /\ \A n \in ins \ own : files[n][k].is = "content"
            /\ linked[r][k] = {<<n, r>> : n \in own}
                                \cup UNION {files[n][k].part : n \in ins \ own}

\* A linked module on disk is what llvm.run() has made of it, never the
\* module as it was linked: ~impl writes the object that the passes rewrote.
LinkedFilesHavePassed ==
    \A n \in Objects :
        LET file == files[n]["bc"]
        IN  file.is = "content" /\ (\E i \in Links(file.by) : make.jobs[file.by][i].out = n)
              => <<Passes, file.by>> \in file.part

\* Every run comes to its end, also when another one is killed with a lock
\* file in its hands, unless a run was killed inside the critical section.
EveryRunEnds ==
    \A r \in Runs :
        Running(r) ~> (Ended(r) \/ \E q \in Runs : pc[q] = "killedInside")
=============================================================================
