---------------------------- MODULE GestaltProofs ---------------------------
(***************************************************************************)
(* For any builds, any number of runs, deaths and lock errors: the passes  *)
(* are exclusive, and the four files of a module agree when nobody holds   *)
(* its lock.                                                               *)
(***************************************************************************)
EXTENDS Gestalt, TLAPS

-----------------------------------------------------------------------------
(* The critical section                                                    *)

\* The semaphore counts the places that are left: with one left nobody is
\* inside, and whoever dies inside takes the place along.
SectionInv ==
    /\ pc \in [Runs -> Phases]
    /\ semaphore \in {0, 1}
    /\ semaphore = 1 => \A r \in Runs : pc[r] # "passes"
    /\ OneRunInThePasses

\* A step that neither enters nor posts, wherever in main it goes.
LEMMA SectionMove ==
    ASSUME SectionInv, NEW r \in Runs, NEW phase \in Phases \ {"passes"},
           pc' = [pc EXCEPT ![r] = phase], UNCHANGED semaphore
    PROVE  SectionInv'
  BY DEF SectionInv, OneRunInThePasses

\* A step that stays where it is.
LEMMA SectionStay ==
    ASSUME SectionInv, UNCHANGED <<pc, semaphore>>
    PROVE  SectionInv'
  BY DEF SectionInv, OneRunInThePasses

\* The post of CriticalSection's guard.
LEMMA SectionLeave ==
    ASSUME SectionInv, NEW r \in Runs, RunPasses(r)
    PROVE  SectionInv'
<1>1. semaphore = 0 /\ pc[r] = "passes"
  BY DEF RunPasses, SectionInv
<1>2. \A q \in Runs : q # r => pc[q] # "passes"
  BY <1>1 DEF SectionInv, OneRunInThePasses
<1>3. semaphore' = 1 /\ pc' = [pc EXCEPT ![r] = "native"]
  BY <1>1 DEF RunPasses, Goto
<1> QED
  BY <1>1, <1>2, <1>3 DEF SectionInv, OneRunInThePasses, Phases

LEMMA SectionEnter ==
    ASSUME SectionInv, NEW r \in Runs, EnterCriticalSection(r)
    PROVE  SectionInv'
<1>1. semaphore = 1 /\ semaphore' = 0
  BY DEF EnterCriticalSection, SectionInv
<1>2. pc' = [pc EXCEPT ![r] = "passes"]
  BY DEF EnterCriticalSection, Goto
<1> QED
  BY <1>1, <1>2 DEF SectionInv, OneRunInThePasses, Phases

LEMMA SectionDie ==
    ASSUME SectionInv, NEW r \in Runs, Die(r)
    PROVE  SectionInv'
<1> DEFINE phase == IF pc[r] = "passes" THEN "killedInside" ELSE "killed"
<1>1. phase \in Phases \ {"passes"}
  BY DEF Phases
<1>2. pc' = [pc EXCEPT ![r] = phase] /\ UNCHANGED semaphore
  BY DEF Die, Goto
<1> QED
  BY <1>1, <1>2, SectionMove, Zenon

LEMMA SectionNext ==
    ASSUME SectionInv, [Next]_vars
    PROVE  SectionInv'
<1>1. CASE UNCHANGED vars
  BY <1>1, SectionStay DEF vars, gestaltVars
<1>2. ASSUME NEW r \in Runs, Step(r)
      PROVE  SectionInv'
  <2>1. CASE Start(r)
    <3>1. PICK phase \in {"future", "jobs"} : pc' = [pc EXCEPT ![r] = phase]
      BY <2>1 DEF Start, Goto
    <3> QED
      BY <2>1, <3>1, SectionMove, Zenon DEF Start, Phases
  <2>2. CASE NativeEnds(r) \/ compile(r) \/ SkipAssembler(r) \/ ReadOn(r) \/ NotFound(r)
    BY <2>2, SectionStay DEF NativeEnds, compile, SkipAssembler, ReadOn, NotFound,
                             gestaltVars
  <2>3. CASE BeginLink(r) \/ EndLink(r)
    BY <2>3, SectionMove, Zenon DEF BeginLink, EndLink, Goto, Phases
  <2>4. CASE BrokenTable(r)
    BY <2>4, SectionDie DEF BrokenTable
  <2>5. CASE \E n \in Objects : LinkInput(r, n) \/ ReadInput(r, n) \/ WriteModule(r, n)
    BY <2>5, SectionStay DEF LinkInput, ReadInput, WriteModule, gestaltVars
  <2>6. CASE NoResult(r) \/ Result(r)
    BY <2>6, SectionMove DEF NoResult, Result, Goto, Phases
  <2>7. CASE EnterCriticalSection(r)
    BY <2>7, SectionEnter
  <2>8. CASE RunPasses(r)
    BY <2>8, SectionLeave
  <2>9. CASE Get(r) \/ Destroyed(r) \/ Exit(r)
    BY <2>9, SectionMove DEF Get, Destroyed, Exit, Goto, Phases
  <2>10. CASE WriteOn(r)
    BY <2>10, SectionStay DEF WriteOn, gestaltVars
  <2> QED
    BY <1>2, <2>1, <2>2, <2>3, <2>4, <2>5, <2>6, <2>7, <2>8, <2>9, <2>10 DEF Step
<1>3. ASSUME NEW r \in Runs, Fault(r)
      PROVE  SectionInv'
  <2>1. CASE NativeReaped(r) \/ \E n \in Objects : WriteModuleUnlocked(r, n)
    BY <2>1, SectionStay, Zenon DEF NativeReaped, WriteModuleUnlocked
  <2>2. CASE Killed(r) \/ CompileError(r)
    BY <2>2, SectionDie DEF Killed, CompileError
  <2> QED
    BY <1>3, <2>1, <2>2 DEF Fault
<1> QED
  BY <1>1, <1>2, <1>3 DEF Next

\* At most one run of the machine is in llvm.run(), for any number of runs
\* and deaths: the semaphore that gestalt opens does its work.
THEOREM PassesAreExclusive == Spec => []OneRunInThePasses
<1>1. Init => SectionInv
  BY DEF Init, SectionInv, OneRunInThePasses, Phases
<1>2. SectionInv /\ [Next]_vars => SectionInv'
  BY SectionNext
<1>3. SectionInv => OneRunInThePasses
  BY DEF SectionInv
<1> QED
  BY <1>1, <1>2, <1>3, PTL DEF Spec

-----------------------------------------------------------------------------
(* The files of a module                                                   *)

Writing == [name : Objects, step : 0 .. 8]

DiskTypes ==
    /\ pc \in [Runs -> Phases]
    /\ lock \in [Objects -> Runs \cup {None}]
    /\ unlocked \subseteq Objects
    /\ DOMAIN writing = Runs
    /\ \A r \in Runs : writing[r] # None => writing[r] \in Writing
    /\ files = [n \in Objects |-> [k \in Kinds |-> files[n][k]]]

Of(file, r) == file.is = "content" /\ file.by = r

\* What a writer has flushed so far is its own, and stays so.
Flushed(r, n) ==
    \A i \in 1 .. 4 : writing[r].step >= 4 + i => Of(files[n][FlushOrder[i]], r)

\* Whoever writes a module that was never written without its lock is in
\* ~impl and owns the lock.
WritersLock ==
    \A r \in Runs : \A n \in Objects \ unlocked :
        writing[r] # None /\ writing[r].name = n =>
            /\ lock[n] = r
            /\ pc[r] = "destroy"
            /\ Flushed(r, n)

DiskInv == DiskTypes /\ WritersLock /\ FilesAgree

\* Steps that leave the disk alone: a run may go anywhere, but out of ~impl
\* only when it writes nothing.
LEMMA DiskQuiet ==
    ASSUME DiskInv, UNCHANGED <<files, lock, unlocked, writing>>,
           pc' \in [Runs -> Phases],
           \A r \in Runs : pc[r] = "destroy" =>
               pc'[r] = "destroy" \/ writing[r] = None
    PROVE  DiskInv'
<1>1. DiskTypes' /\ FilesAgree'
  BY DEF DiskInv, DiskTypes, FilesAgree
<1>2. WritersLock'
  BY DEF DiskInv, WritersLock, Flushed
<1> QED
  BY <1>1, <1>2 DEF DiskInv

LEMMA DiskMove ==
    ASSUME DiskInv, UNCHANGED <<files, lock, unlocked, writing>>,
           NEW r \in Runs, NEW phase \in Phases, pc' = [pc EXCEPT ![r] = phase],
           pc[r] # "destroy" \/ writing[r] = None
    PROVE  DiskInv'
  BY DiskQuiet DEF DiskInv, DiskTypes

LEMMA DiskStay ==
    ASSUME DiskInv, UNCHANGED <<files, lock, unlocked, writing, pc>>
    PROVE  DiskInv'
  BY DiskQuiet DEF DiskInv, DiskTypes

\* A lock that the death of its owner leaves behind keeps the module marked.
LEMMA DiskDie ==
    ASSUME DiskInv, NEW r \in Runs, Die(r)
    PROVE  DiskInv'
<1> USE DEF DiskInv
<1>1. UNCHANGED <<files, lock, unlocked>> /\ writing' = [writing EXCEPT ![r] = None]
  BY DEF Die, disk
<1>2. PICK phase \in Phases : pc' = [pc EXCEPT ![r] = phase]
  BY Zenon DEF Die, Goto, Phases
<1>3. DiskTypes'
  BY <1>1, <1>2 DEF DiskTypes
<1>4. FilesAgree'
  BY <1>1 DEF FilesAgree
<1>5. ASSUME NEW q \in Runs, NEW n \in Objects \ unlocked',
             writing'[q] # None, writing'[q].name = n
      PROVE  lock'[n] = q /\ pc'[q] = "destroy" /\ Flushed(q, n)'
  <2>1. q # r /\ writing'[q] = writing[q] /\ pc'[q] = pc[q]
    BY <1>1, <1>2, <1>5 DEF DiskTypes
  <2> QED
    BY <1>1, <1>5, <2>1 DEF WritersLock, Flushed
<1> QED
  BY <1>3, <1>4, <1>5 DEF WritersLock

\* Nobody who is alive holds the lock that a run takes.
LEMMA DiskLock ==
    ASSUME DiskInv, NEW r \in Runs, NEW n \in Objects, WriteModule(r, n)
    PROVE  DiskInv'
<1> USE DEF DiskInv
<1>1. /\ pc[r] = "destroy" /\ UNCHANGED pc
      /\ lock[n] \notin Live /\ lock' = [lock EXCEPT ![n] = r]
      /\ writing' = [writing EXCEPT ![r] = [name |-> n, step |-> 0]]
      /\ UNCHANGED <<files, unlocked>>
  BY DEF WriteModule, TryLock
<1>2. [name |-> n, step |-> 0] \in Writing
  BY DEF Writing
<1>3. DiskTypes'
  BY <1>1, <1>2 DEF DiskTypes
<1>4. FilesAgree'
  BY <1>1, NoneAssumption DEF FilesAgree, DiskTypes
<1>5. ASSUME NEW q \in Runs, NEW m \in Objects \ unlocked',
             writing'[q] # None, writing'[q].name = m
      PROVE  lock'[m] = q /\ pc'[q] = "destroy" /\ Flushed(q, m)'
  <2>1. CASE q = r
    <3>1. writing'[q] = [name |-> n, step |-> 0] /\ m = n
      BY <1>1, <1>5, <2>1 DEF DiskTypes
    <3> QED
      BY <1>1, <2>1, <3>1 DEF DiskTypes, Flushed
  <2>2. CASE q # r
    <3>1. writing'[q] = writing[q]
      BY <1>1, <2>2 DEF DiskTypes
    <3>2. lock[m] = q /\ pc[q] = "destroy" /\ Flushed(q, m)
      BY <1>1, <1>5, <3>1 DEF WritersLock
    <3>3. q \in Live
      BY <3>2 DEF Live, Running, Ended
    <3>4. m # n
      BY <1>1, <3>2, <3>3
    <3> QED
      BY <1>1, <3>1, <3>2, <3>4 DEF DiskTypes, Flushed
  <2> QED
    BY <2>1, <2>2
<1> QED
  BY <1>3, <1>4, <1>5 DEF WritersLock

\* LFS_Error takes a module out of the promise.
LEMMA DiskLockError ==
    ASSUME DiskInv, NEW r \in Runs, NEW n \in Objects, WriteModuleUnlocked(r, n)
    PROVE  DiskInv'
<1> USE DEF DiskInv
<1>1. /\ UNCHANGED <<pc, files, lock>>
      /\ unlocked' = unlocked \cup {n}
      /\ writing' = [writing EXCEPT ![r] = [name |-> n, step |-> 0]]
  BY DEF WriteModuleUnlocked, LockError
<1>2. [name |-> n, step |-> 0] \in Writing
  BY DEF Writing
<1>3. DiskTypes'
  BY <1>1, <1>2 DEF DiskTypes
<1>4. FilesAgree'
  BY <1>1 DEF FilesAgree
<1>5. ASSUME NEW q \in Runs, NEW m \in Objects \ unlocked',
             writing'[q] # None, writing'[q].name = m
      PROVE  lock'[m] = q /\ pc'[q] = "destroy" /\ Flushed(q, m)'
  <2>1. q # r /\ writing'[q] = writing[q]
    BY <1>1, <1>5 DEF DiskTypes
  <2> QED
    BY <1>1, <1>5, <2>1 DEF WritersLock, Flushed
<1> QED
  BY <1>3, <1>4, <1>5 DEF WritersLock

\* The steps of one writer inside its module: those of others are not his.
LEMMA OneWriter ==
    ASSUME DiskInv, NEW r \in Runs, NEW q \in Runs, q # r,
           writing[r] # None, writing[q] # None,
           writing[q].name \in Objects \ unlocked
    PROVE  writing[q].name # writing[r].name
  BY DEF DiskInv, WritersLock

\* What a writer does with the disk and with its place in the loop body.
Puts(m, k, c) == files' = [files EXCEPT ![m][k] = c]
GoesTo(r, step) == writing' = [writing EXCEPT ![r].step = step]

LEMMA OnePut ==
    ASSUME files = [o \in Objects |-> [j \in Kinds |-> files[o][j]]],
           NEW m \in Objects, NEW k \in Kinds, NEW c, Puts(m, k, c)
    PROVE  /\ files' = [o \in Objects |-> [j \in Kinds |-> files'[o][j]]]
           /\ files'[m][k] = c
           /\ \A j \in Kinds : j # k => files'[m][j] = files[m][j]
           /\ \A n \in Objects : n # m => files'[n] = files[n]
<1> USE DEF Puts
<1>1. DOMAIN files = Objects /\ DOMAIN files' = Objects
  BY Zenon
<1>2. \A o \in Objects : files[o] = [j \in Kinds |-> files[o][j]]
  BY Zenon
<1>3. files'[m] = [files[m] EXCEPT ![k] = c]
  BY ONLY m \in Objects, <1>1, Puts(m, k, c), Zenon
<1>4. \A n \in Objects : n # m => files'[n] = files[n]
  BY ONLY <1>1, Puts(m, k, c), Zenon
<1>5. DOMAIN files[m] = Kinds
  BY ONLY m \in Objects, <1>2, Zenon
<1>6. files'[m] = [j \in Kinds |-> IF j = k THEN c ELSE files[m][j]]
  BY ONLY <1>3, <1>5
<1>7. \A o \in Objects : files'[o] = [j \in Kinds |-> files'[o][j]]
  <2> SUFFICES ASSUME NEW o \in Objects PROVE files'[o] = [j \in Kinds |-> files'[o][j]]
    OBVIOUS
  <2>1. CASE o = m
    BY ONLY <1>6, <2>1
  <2>2. CASE o # m
    BY ONLY o \in Objects, <1>2, <1>4, <2>2, Zenon
  <2> QED
    BY ONLY <2>1, <2>2
<1>8. files' = [o \in Objects |-> files'[o]]
  BY ONLY <1>1, Puts(m, k, c), Zenon
<1>9. files' = [o \in Objects |-> [j \in Kinds |-> files'[o][j]]]
  BY ONLY <1>7, <1>8, Zenon
<1> QED
  BY ONLY k \in Kinds, <1>4, <1>6, <1>9

LEMMA PutTypes ==
    ASSUME files \in [Objects -> [Kinds -> FileStates]],
           NEW m \in Objects, NEW k \in Kinds, NEW c \in FileStates, Puts(m, k, c)
    PROVE  files' \in [Objects -> [Kinds -> FileStates]]
  BY DEF Puts

LEMMA StepOn ==
    ASSUME DOMAIN writing = Runs, NEW r \in Runs, writing[r] \in Writing,
           NEW step \in 0 .. 8, GoesTo(r, step)
    PROVE  /\ DOMAIN writing' = Runs
           /\ writing'[r] \in Writing /\ writing'[r].name = writing[r].name
           /\ writing'[r].step = step
           /\ \A q \in Runs : q # r => writing'[q] = writing[q]
<1> USE DEF GoesTo
<1>1. writing'[r] = [writing[r] EXCEPT !.step = step]
  BY Zenon
<1>2. [writing[r] EXCEPT !.step = step] = [name |-> writing[r].name, step |-> step]
  BY ONLY writing[r] \in Writing DEF Writing
<1>3. writing[r].name \in Objects
  BY ONLY writing[r] \in Writing DEF Writing
<1>4. DOMAIN writing' = Runs /\ \A q \in Runs : q # r => writing'[q] = writing[q]
  BY Zenon
<1> QED
  BY ONLY step \in 0 .. 8, <1>1, <1>2, <1>3, <1>4 DEF Writing

\* A writer goes one step on and with it changes one file: nobody else writes
\* this module, and what the writer has flushed is all there is to show.
LEMMA DiskWrite ==
    ASSUME DiskInv, NEW r \in Runs, NEW m \in Objects, NEW step \in 0 .. 8,
           NEW k \in Kinds, NEW c,
           writing[r] # None, writing[r] \in Writing, writing[r].name = m,
           Puts(m, k, c), GoesTo(r, step), UNCHANGED <<pc, lock, unlocked>>,
           m \notin unlocked => Flushed(r, m)'
    PROVE  DiskInv'
<1>1. DiskTypes /\ WritersLock /\ FilesAgree
  BY DEF DiskInv
<1>2. /\ DOMAIN writing' = Runs
      /\ writing'[r] \in Writing /\ writing'[r].name = m /\ writing'[r].step = step
      /\ \A q \in Runs : q # r => writing'[q] = writing[q]
  <2>1. DOMAIN writing = Runs
    BY <1>1, Zenon DEF DiskTypes
  <2> QED
    BY <2>1, StepOn, Zenon
<1>3. /\ files' = [n \in Objects |-> [j \in Kinds |-> files'[n][j]]]
      /\ \A n \in Objects : n # m => files'[n] = files[n]
  <2>1. files = [n \in Objects |-> [j \in Kinds |-> files[n][j]]]
    BY <1>1, Zenon DEF DiskTypes
  <2> QED
    BY <2>1, OnePut, Zenon
<1>4. pc' = pc /\ lock' = lock /\ unlocked' = unlocked
  BY Zenon
<1>5. writing[r] # None /\ writing[r].name = m
  OBVIOUS
<1>6. m \notin unlocked => lock[m] = r /\ pc[r] = "destroy" /\ Flushed(r, m)'
  BY <1>1, <1>5, Zenon DEF WritersLock
<1>7. DiskTypes'
  <2>1. \A q \in Runs : writing'[q] # None => writing'[q] \in Writing
    BY ONLY <1>1, <1>2, Zenon DEF DiskTypes
  <2> QED
    BY ONLY <1>1, <1>2, <1>3, <1>4, <2>1, Zenon DEF DiskTypes
<1>8. FilesAgree'
  <2>1. ASSUME NEW n \in Objects \ unlocked, lock[n] = None
        PROVE  files'[n] = files[n]
    <3>1. n # m
      BY ONLY r \in Runs, <1>6, <2>1, NoneAssumption, Zenon
    <3> QED
      BY ONLY n \in Objects \ unlocked, <1>3, <3>1, Zenon
  <2> QED
    BY ONLY <1>1, <1>4, <2>1 DEF FilesAgree
<1>9. ASSUME NEW q \in Runs, NEW n \in Objects \ unlocked,
             writing'[q] # None, writing'[q].name = n
      PROVE  lock[n] = q /\ pc[q] = "destroy" /\ Flushed(q, n)'
  <2>1. CASE q = r
    BY ONLY n \in Objects \ unlocked, <1>2, <1>6, <1>9, <2>1, Zenon
  <2>2. CASE q # r
    <3>1. writing'[q] = writing[q]
      BY ONLY q \in Runs, <1>2, <2>2, Zenon
    <3>2. lock[n] = q /\ pc[q] = "destroy" /\ Flushed(q, n)
      BY ONLY q \in Runs, n \in Objects \ unlocked, <1>1, <1>9, <3>1, Zenon DEF WritersLock
    <3>3. n # m
      BY ONLY n \in Objects \ unlocked, <1>6, <2>2, <3>2, Zenon
    <3>4. files'[n] = files[n]
      BY ONLY n \in Objects \ unlocked, <1>3, <3>3, Zenon
    <3> QED
      BY ONLY <3>1, <3>2, <3>4, Zenon DEF Flushed
  <2> QED
    BY ONLY <2>1, <2>2
<1> QED
  BY ONLY <1>4, <1>7, <1>8, <1>9, Zenon DEF DiskInv, WritersLock

LEMMA DiskOpen ==
    ASSUME DiskInv, NEW r \in Runs, OpenFile(r), UNCHANGED pc
    PROVE  DiskInv'
<1> DEFINE w == writing[r]
<1>1. w # None /\ w \in Writing /\ w.name \in Objects /\ w.step \in 0 .. 3
  BY DEF OpenFile, DiskInv, DiskTypes, Writing
<1>2. \A i \in 1 .. 4 : OpenOrder[i] \in Kinds
  BY ONLY DEF OpenOrder, Kinds
<1>3. w.step + 1 \in 0 .. 8 /\ w.step + 1 \in 1 .. 4
  BY ONLY <1>1
<1>4. PICK m \in Objects, k \in Kinds, step \in 0 .. 8 :
        m = w.name /\ k = OpenOrder[w.step + 1] /\ step = w.step + 1
  BY ONLY <1>1, <1>2, <1>3, Zenon
<1>5. w # None /\ w \in Writing /\ w.name = m
  BY ONLY <1>1, <1>4, Zenon
<1>6. Puts(m, k, Torn) /\ GoesTo(r, step) /\ UNCHANGED <<pc, lock, unlocked>>
  BY <1>4, Zenon DEF OpenFile, Puts, GoesTo
<1>7. writing'[r].step = step
  <2>1. DOMAIN writing = Runs
    BY Zenon DEF DiskInv, DiskTypes
  <2>2. writing[r] \in Writing /\ GoesTo(r, step)
    BY ONLY <1>5, <1>6, Zenon
  <2> QED
    BY ONLY r \in Runs, step \in 0 .. 8, <2>1, <2>2, StepOn, Zenon
<1>8. Flushed(r, m)'
  <2>1. \A i \in 1 .. 4 : ~(step >= 4 + i)
    BY ONLY <1>3, <1>4
  <2> QED
    BY ONLY <1>7, <2>1, Zenon DEF Flushed
<1> QED
  BY ONLY DiskInv, r \in Runs, m \in Objects, k \in Kinds, step \in 0 .. 8,
          <1>5, <1>6, <1>8, DiskWrite, Zenon

LEMMA DiskFlush ==
    ASSUME DiskInv, NEW r \in Runs, FlushFile(r), UNCHANGED pc
    PROVE  DiskInv'
<1> DEFINE w == writing[r]
<1>1. w # None /\ w \in Writing /\ w.name \in Objects /\ w.step \in 4 .. 7
  BY DEF FlushFile, DiskInv, DiskTypes, Writing
<1>2. /\ \A i \in 1 .. 4 : FlushOrder[i] \in Kinds
      /\ \A i, j \in 1 .. 4 : i # j => FlushOrder[i] # FlushOrder[j]
  BY ONLY DEF FlushOrder, Kinds
<1>3. w.step + 1 \in 0 .. 8 /\ w.step - 3 \in 1 .. 4
  BY ONLY <1>1
<1>4. PICK m \in Objects, k \in Kinds, step \in 0 .. 8 :
        m = w.name /\ k = FlushOrder[w.step - 3] /\ step = w.step + 1
  BY ONLY <1>1, <1>2, <1>3, Zenon
<1> DEFINE c == Content(r, cache[r][m][k])
<1>5. w # None /\ w \in Writing /\ w.name = m
  BY ONLY <1>1, <1>4, Zenon
<1>6. Puts(m, k, c) /\ GoesTo(r, step) /\ UNCHANGED <<pc, lock, unlocked>>
  BY <1>4, Zenon DEF FlushFile, Puts, GoesTo
<1>7. c.is = "content" /\ c.by = r
  BY ONLY DEF Content
<1> HIDE DEF c
<1>8. writing'[r].step = step
  <2>1. DOMAIN writing = Runs
    BY Zenon DEF DiskInv, DiskTypes
  <2>2. writing[r] \in Writing /\ GoesTo(r, step)
    BY ONLY <1>5, <1>6, Zenon
  <2> QED
    BY ONLY r \in Runs, step \in 0 .. 8, <2>1, <2>2, StepOn, Zenon
<1>9. files'[m][k] = c /\ \A j \in Kinds : j # k => files'[m][j] = files[m][j]
  <2>1. files = [n \in Objects |-> [j \in Kinds |-> files[n][j]]]
    BY Zenon DEF DiskInv, DiskTypes
  <2>2. Puts(m, k, c)
    BY ONLY <1>6, Zenon
  <2> QED
    BY ONLY m \in Objects, k \in Kinds, <2>1, <2>2, OnePut
<1>10. ASSUME m \notin unlocked PROVE Flushed(r, m)'
  <2>1. Flushed(r, m)
    BY r \in Runs, <1>5, <1>10, Zenon DEF DiskInv, WritersLock
  <2>2. ASSUME NEW i \in 1 .. 4, step >= 4 + i PROVE Of(files'[m][FlushOrder[i]], r)
    <3>1. CASE i = w.step - 3
      BY ONLY <1>4, <1>7, <1>9, <3>1, Zenon DEF Of
    <3>2. CASE i # w.step - 3
      <4>1. w.step >= 4 + i
        BY ONLY i \in 1 .. 4, step >= 4 + i, <1>1, <1>4, <3>2
      <4>2. FlushOrder[i] # k /\ FlushOrder[i] \in Kinds
        BY ONLY i \in 1 .. 4, <1>2, <1>3, <1>4, <3>2, Zenon
      <4>3. files'[m][FlushOrder[i]] = files[m][FlushOrder[i]]
        BY ONLY <1>9, <4>2, Zenon
      <4>4. Of(files[m][FlushOrder[i]], r)
        BY ONLY i \in 1 .. 4, <2>1, <4>1, Zenon DEF Flushed
      <4> QED
        BY ONLY <4>3, <4>4, Zenon
    <3> QED
      BY ONLY <3>1, <3>2, Zenon
  <2> QED
    BY ONLY <1>8, <2>2, Zenon DEF Flushed
<1> QED
  BY ONLY DiskInv, r \in Runs, m \in Objects, k \in Kinds, step \in 0 .. 8,
          <1>5, <1>6, <1>10, DiskWrite, Zenon

\* The lock goes when all four files are flushed.
LEMMA DiskUnlock ==
    ASSUME DiskInv, NEW r \in Runs, Unlock(r), UNCHANGED pc
    PROVE  DiskInv'
<1> USE DEF DiskInv
<1> DEFINE w == writing[r]
<1>1. w # None /\ w \in Writing /\ w.step = 8
  BY DEF Unlock, DiskTypes
<1>2. /\ lock' = [o \in Objects |-> IF o = w.name /\ lock[o] = r THEN None ELSE lock[o]]
      /\ writing' = [writing EXCEPT ![r] = None]
      /\ UNCHANGED <<files, unlocked>>
  BY DEF Unlock
<1>3. DiskTypes'
  BY <1>2 DEF DiskTypes
<1>4. ASSUME NEW n \in Objects \ unlocked', lock'[n] = None
      PROVE  \/ \A k \in Kinds : files[n][k] = Absent
             \/ \E q \in Runs : \A k \in Kinds : files[n][k].is = "content" /\ files[n][k].by = q
  <2>1. CASE lock[n] = None
    BY <1>2, <2>1 DEF FilesAgree
  <2>2. CASE lock[n] # None
    <3>1. n = w.name /\ n \notin unlocked
      BY <1>2, <1>4, <2>2
    <3>2. Flushed(r, n)
      BY <1>1, <3>1 DEF WritersLock
    <3>3. \A i \in 1 .. 4 : Of(files[n][FlushOrder[i]], r)
      BY <1>1, <3>2 DEF Flushed
    <3>4. \A k \in Kinds : \E i \in 1 .. 4 : FlushOrder[i] = k
      <4>1. FlushOrder[1] = "types" /\ FlushOrder[2] = "vars" /\ FlushOrder[3] = "anno" /\ FlushOrder[4] = "bc"
        BY DEF FlushOrder
      <4> QED
        BY <4>1 DEF Kinds
    <3> QED
      BY <3>3, <3>4 DEF Of
  <2> QED
    BY <2>1, <2>2
<1>5. FilesAgree'
  BY <1>2, <1>4 DEF FilesAgree
<1>6. ASSUME NEW q \in Runs, NEW n \in Objects \ unlocked',
             writing'[q] # None, writing'[q].name = n
      PROVE  lock'[n] = q /\ pc'[q] = "destroy" /\ Flushed(q, n)'
  <2>1. q # r /\ writing'[q] = writing[q]
    BY <1>2, <1>6 DEF DiskTypes
  <2>2. n # w.name
    BY <1>1, <1>2, <1>6, <2>1, OneWriter
  <2> QED
    BY <1>2, <1>6, <2>1, <2>2 DEF WritersLock, Flushed
<1> QED
  BY <1>3, <1>5, <1>6 DEF WritersLock

LEMMA DiskNext ==
    ASSUME DiskInv, [Next]_vars
    PROVE  DiskInv'
<1>1. CASE UNCHANGED vars
  BY <1>1, DiskStay DEF vars, gestaltVars, cacheVars
<1>2. ASSUME NEW r \in Runs, Step(r)
      PROVE  DiskInv'
  <2>1. CASE Start(r)
    <3>1. PICK phase \in {"future", "jobs"} : pc' = [pc EXCEPT ![r] = phase]
      BY <2>1 DEF Start, Goto
    <3> QED
      BY <2>1, <3>1, DiskMove, Zenon DEF Start, Phases, cacheVars
  <2>2. CASE NativeEnds(r) \/ compile(r) \/ SkipAssembler(r) \/ ReadOn(r) \/ NotFound(r)
    BY <2>2, DiskStay DEF NativeEnds, compile, SkipAssembler, ReadOn, NotFound, ReadFile,
                          ReadNothing, gestaltVars, cacheVars, disk
  <2>3. CASE BeginLink(r) \/ EndLink(r)
    BY <2>3, DiskMove DEF BeginLink, EndLink, AtJob, Linking, Goto, Phases, cacheVars, disk
  <2>4. CASE BrokenTable(r)
    BY <2>4, DiskDie DEF BrokenTable
  <2>5. CASE \E n \in Objects : LinkInput(r, n) \/ ReadInput(r, n)
    BY <2>5, DiskStay DEF LinkInput, ReadInput, BeginRead, gestaltVars, disk
  <2>6. CASE \E n \in Objects : WriteModule(r, n)
    BY <2>6, DiskLock
  <2>7. CASE NoResult(r) \/ Result(r)
    BY <2>7, DiskMove DEF NoResult, Result, Goto, Phases, cacheVars
  <2>8. CASE EnterCriticalSection(r) \/ RunPasses(r) \/ Get(r)
    BY <2>8, DiskMove DEF EnterCriticalSection, RunPasses, Get, Goto, Phases, cacheVars, disk
  <2>9. CASE Destroyed(r) \/ Exit(r)
    BY <2>9, DiskMove DEF Destroyed, Exit, Goto, Phases, cacheVars
  <2>10. CASE WriteOn(r)
    BY <2>10, DiskOpen, DiskFlush, DiskUnlock DEF WriteOn, gestaltVars
  <2> QED
    BY <1>2, <2>1, <2>2, <2>3, <2>4, <2>5, <2>6, <2>7, <2>8, <2>9, <2>10 DEF Step
<1>3. ASSUME NEW r \in Runs, Fault(r)
      PROVE  DiskInv'
  <2>1. CASE NativeReaped(r)
    BY <2>1, DiskStay DEF NativeReaped, cacheVars
  <2>2. CASE Killed(r) \/ CompileError(r)
    BY <2>2, DiskDie DEF Killed, CompileError
  <2>3. CASE \E n \in Objects : WriteModuleUnlocked(r, n)
    BY <2>3, DiskLockError
  <2> QED
    BY <1>3, <2>1, <2>2, <2>3 DEF Fault
<1> QED
  BY <1>1, <1>2, <1>3 DEF Next

\* A module whose lock is free has its four files from one run: for any
\* number of writers, killed anywhere, as long as the lock could be had.
THEOREM FilesOfOneWriter == Spec => []FilesAgree
<1>1. Init => DiskInv
  BY DEF Init, InitCache, DiskInv, DiskTypes, WritersLock, FilesAgree, Phases
<1>2. DiskInv /\ [Next]_vars => DiskInv'
  BY DiskNext
<1>3. DiskInv => FilesAgree
  BY DEF DiskInv
<1> QED
  BY <1>1, <1>2, <1>3, PTL DEF Spec

-----------------------------------------------------------------------------
(* Types                                                                   *)

Reading == [name : Objects, got : Seq(SUBSET Origins)]

IsCache(f) ==
    /\ DOMAIN f \subseteq Names
    /\ \A n \in DOMAIN f : f[n] \in PortableModules

ModuleTypes ==
    /\ DOMAIN cache = Runs
    /\ \A r \in Runs : IsCache(cache[r])

\* A reader is in the link and has not come to the fourth file.
ReadingTypes ==
    /\ DOMAIN reading = Runs
    /\ \A r \in Runs : reading[r] # None =>
        /\ reading[r] \in Reading
        /\ reading[r].name \notin DOMAIN cache[r]
        /\ Len(reading[r].got) < Len(ReadOrder)
        /\ pc[r] = "link"

\* A writer is in ~impl, and the cache does not lose what is being written.
WritingTypes ==
    /\ DOMAIN writing = Runs
    /\ \A r \in Runs :
        /\ writing[r] # None =>
            /\ writing[r] \in Writing
            /\ writing[r].name \in DOMAIN cache[r]
            /\ pc[r] = "destroy"
        /\ pc[r] = "destroy" => toWrite[r] \subseteq DOMAIN cache[r]
    /\ toWrite \in [Runs -> SUBSET Objects]

FileTypes ==
    /\ files \in [Objects -> [Kinds -> FileStates]]
    /\ lock \in [Objects -> Runs \cup {None}]
    /\ unlocked \subseteq Objects

MainTypes ==
    /\ make \in Makefiles
    /\ pc \in [Runs -> Phases]
    /\ todo \in [Runs -> Seq(JobType)]
    /\ inputs \in [Runs -> SUBSET Objects]
    /\ linked \in [Runs -> PortableModules]
    /\ native \in [Runs -> NativeStates]
    /\ exit \in [Runs -> Codes]
    /\ \A r \in Runs : pc[r] = "link" => todo[r] # <<>>

TypeInv == ModuleTypes /\ ReadingTypes /\ WritingTypes /\ FileTypes /\ MainTypes

\* What the operations make of modules are modules.
LEMMA WholeIsModule ==
    ASSUME NEW origins \in SUBSET Origins PROVE Whole(origins) \in PortableModules
  BY DEF Whole, PortableModules

LEMMA JoinIsModule ==
    ASSUME NEW m \in PortableModules, NEW o \in PortableModules
    PROVE  [k \in Kinds |-> m[k] \cup o[k]] \in PortableModules
  BY DEF PortableModules

LEMMA PassedIsModule ==
    ASSUME NEW m \in PortableModules, NEW r \in Runs
    PROVE  Passed(m, r) \in PortableModules
<1>1. <<Passes, r>> \in Origins
  BY DEF Origins
<1> QED
  BY <1>1 DEF Passed, PortableModules

LEMMA InSequence ==
    ASSUME NEW S, NEW s \in Seq(S)
    PROVE  /\ DOMAIN s = 1 .. Len(s) /\ Len(s) \in Nat
           /\ \A i \in DOMAIN s : s[i] \in S
  OBVIOUS

LEMMA AssembledIsModule ==
    ASSUME NEW got \in Seq(SUBSET Origins), Len(got) = 4
    PROVE  Assembled(got) \in PortableModules
<1>1. ASSUME NEW k \in Kinds
      PROVE  \E i \in DOMAIN got : ReadOrder[i] = k
  <2>1. \E i \in 1 .. 4 : ReadOrder[i] = k
    BY ONLY k \in Kinds DEF Kinds, ReadOrder
  <2>2. DOMAIN got = 1 .. 4
    BY InSequence, Zenon
  <2> QED
    BY ONLY <2>1, <2>2, Zenon
<1>2. \A i \in DOMAIN got : got[i] \in SUBSET Origins
  BY InSequence, Zenon
<1> QED
  BY <1>1, <1>2 DEF Assembled, PortableModules

LEMMA WithTypes ==
    ASSUME NEW f, NEW n \in Names, NEW m \in PortableModules, IsCache(f)
    PROVE  IsCache(With(f, n, m)) /\ DOMAIN f \subseteq DOMAIN With(f, n, m)
  BY DEF With, IsCache

LEMMA WithoutTypes ==
    ASSUME NEW f, NEW n, IsCache(f)
    PROVE  IsCache(Without(f, n))
  BY DEF Without, IsCache

\* A step that touches no module and no file: a run goes to another phase
\* that neither reads nor writes, unless it stays.
LEMMA TypeMove ==
    ASSUME TypeInv, MainTypes', UNCHANGED cacheVars, UNCHANGED toWrite,
           \A r \in Runs :
               \/ pc'[r] = pc[r]
               \/ reading[r] = None /\ writing[r] = None /\ pc'[r] # "destroy"
    PROVE  TypeInv'
  BY DEF TypeInv, ModuleTypes, ReadingTypes, WritingTypes, FileTypes, MainTypes, cacheVars,
         disk

LEMMA JobTypes ==
    ASSUME MainTypes, NEW r \in Runs, todo[r] # <<>>
    PROVE  Job(r) \in JobType /\ Tail(todo[r]) \in Seq(JobType)
  BY DEF MainTypes, Job

LEMMA StartTypes ==
    ASSUME TypeInv, NEW r \in Runs, Start(r) PROVE TypeInv'
<1>1. MainTypes'
  <2>1. native' \in [Runs -> NativeStates] /\ exit' \in [Runs -> Codes]
    <3>1. /\ "off" \in NativeStates /\ "running" \in NativeStates
          /\ "E_ILLEGAL_COMPILER_OPTIONS" \in Codes
      BY ONLY DEF NativeStates, Codes
    <3>2. native' \in [Runs -> NativeStates]
      BY <3>1, Zenon DEF TypeInv, MainTypes, Start
    <3>3. exit' \in [Runs -> Codes]
      BY <3>1, Zenon DEF TypeInv, MainTypes, Start
    <3> QED
      BY ONLY <3>2, <3>3
  <2>2. PICK phase \in {"future", "jobs"} : pc' = [pc EXCEPT ![r] = phase]
    BY Zenon DEF Start, Goto
  <2>3. phase \in Phases /\ phase # "link"
    BY ONLY <2>2 DEF Phases
  <2>4. pc' \in [Runs -> Phases] /\ \A q \in Runs : pc'[q] = "link" => pc[q] = "link"
    BY <2>2, <2>3, Zenon DEF TypeInv, MainTypes
  <2> QED
    BY <2>1, <2>4 DEF TypeInv, MainTypes, Start
<1>2. reading[r] = None /\ writing[r] = None
  BY DEF TypeInv, ReadingTypes, WritingTypes, Start
<1>3. PICK phase \in {"future", "jobs"} : pc' = [pc EXCEPT ![r] = phase]
  BY DEF Start, Goto
<1>4. \A q \in Runs : pc'[q] = pc[q] \/ (q = r /\ pc'[q] # "destroy")
  BY <1>3 DEF TypeInv, MainTypes
<1> QED
  BY <1>1, <1>2, <1>4, TypeMove DEF Start

LEMMA NativeTypes ==
    ASSUME TypeInv, NEW r \in Runs, NativeEnds(r) \/ NativeReaped(r) PROVE TypeInv'
<1>1. MainTypes'
  <2>1. PICK code \in NativeStates : native' = [native EXCEPT ![r] = code]
    <3>1. {"zero", "positive", "negative"} \subseteq NativeStates
      BY ONLY DEF NativeStates
    <3> QED
      BY <3>1 DEF NativeEnds, NativeReaped
  <2>2. native' \in [Runs -> NativeStates]
    BY <2>1, Zenon DEF TypeInv, MainTypes
  <2>3. UNCHANGED <<make, pc, todo, inputs, linked, exit>>
    BY Zenon DEF NativeEnds, NativeReaped
  <2> QED
    BY <2>2, <2>3, Zenon DEF TypeInv, MainTypes
<1> QED
  BY <1>1, TypeMove DEF NativeEnds, NativeReaped

LEMMA CompileTypes ==
    ASSUME TypeInv, NEW r \in Runs, compile(r) PROVE TypeInv'
<1> USE DEF TypeInv
<1> DEFINE n == Job(r).out
<1>1. pc[r] = "jobs" /\ Job(r) \in JobType /\ Tail(todo[r]) \in Seq(JobType)
  BY JobTypes DEF compile, AtJob
<1>2. n \in Objects
  BY <1>1 DEF JobType
<1>3. Whole({<<n, r>>}) \in PortableModules
  BY <1>2, WholeIsModule DEF Origins
<1>4. cache' = [cache EXCEPT ![r] = With(@, n, Whole({<<n, r>>}))]
  BY DEF compile, Insert
<1>5. ModuleTypes'
  BY <1>2, <1>3, <1>4, WithTypes DEF ModuleTypes, Names
<1>6. DOMAIN cache[r] \subseteq DOMAIN cache'[r] /\ \A q \in Runs : q # r => cache'[q] = cache[q]
  BY <1>2, <1>3, <1>4, WithTypes DEF ModuleTypes, Names
<1>7. ReadingTypes' /\ WritingTypes'
  BY <1>1, <1>6, Zenon DEF ReadingTypes, WritingTypes, compile
<1>8. FileTypes' /\ MainTypes'
  BY <1>1 DEF FileTypes, MainTypes, compile, disk
<1> QED
  BY <1>5, <1>7, <1>8

LEMMA JobsTypes ==
    ASSUME TypeInv, NEW r \in Runs, SkipAssembler(r) \/ BeginLink(r) \/ Result(r)
    PROVE  TypeInv'
<1>1. pc[r] = "jobs" /\ reading[r] = None /\ writing[r] = None
  BY DEF TypeInv, ReadingTypes, WritingTypes, SkipAssembler, BeginLink, Result, AtJob
<1>2. Empty \in PortableModules
  BY WholeIsModule DEF Empty
<1>3. todo[r] # <<>> => Job(r) \in JobType /\ Tail(todo[r]) \in Seq(JobType)
  BY JobTypes DEF TypeInv
<1>4. MainTypes'
  <2>1. CASE SkipAssembler(r)
    BY <1>3, <2>1 DEF TypeInv, MainTypes, SkipAssembler, AtJob
  <2>2. CASE BeginLink(r)
    BY <1>2, <1>3, <2>2 DEF TypeInv, MainTypes, BeginLink, AtJob, Goto, Phases, JobType
  <2>3. CASE Result(r)
    BY <2>3 DEF TypeInv, MainTypes, Result, Goto, Phases
  <2> QED
    BY <2>1, <2>2, <2>3
<1>5. PICK phase \in {"jobs", "link", "semaphore"} : pc' = [pc EXCEPT ![r] = phase]
  BY <1>1 DEF TypeInv, MainTypes, SkipAssembler, BeginLink, Result, Goto
<1>6. \A q \in Runs : pc'[q] = pc[q] \/ (q = r /\ pc'[q] # "destroy")
  BY <1>5 DEF TypeInv, MainTypes
<1> QED
  BY <1>1, <1>4, <1>6, TypeMove DEF SkipAssembler, BeginLink, Result

LEMMA LinkInputTypes ==
    ASSUME TypeInv, NEW r \in Runs, NEW n \in Objects, LinkInput(r, n) PROVE TypeInv'
<1> USE DEF TypeInv
<1>1. pc[r] = "link" /\ reading[r] = None /\ n \in DOMAIN cache[r]
  BY DEF LinkInput, Linking, Cached
<1>2. cache' = [cache EXCEPT ![r] = Without(@, n)]
  BY DEF LinkInput, claim
<1>3. ModuleTypes' /\ \A q \in Runs : q # r => cache'[q] = cache[q]
  BY <1>2, WithoutTypes DEF ModuleTypes
<1>4. ReadingTypes' /\ WritingTypes'
  BY <1>1, <1>3 DEF ReadingTypes, WritingTypes, LinkInput
<1>5. [k \in Kinds |-> linked[r][k] \cup cache[r][n][k]] \in PortableModules
  <2>1. linked[r] \in PortableModules
    BY DEF MainTypes
  <2>2. cache[r][n] \in PortableModules
    BY <1>1 DEF ModuleTypes, IsCache
  <2> QED
    BY ONLY <2>1, <2>2, JoinIsModule
<1>6. FileTypes'
  BY DEF FileTypes, LinkInput, disk
<1>7. /\ linked' = [linked EXCEPT ![r] = [k \in Kinds |-> @[k] \cup cache[r][n][k]]]
      /\ inputs' = [inputs EXCEPT ![r] = @ \ {n}]
      /\ UNCHANGED <<make, pc, todo, native, exit>>
  BY DEF LinkInput
<1>8. MainTypes'
  BY <1>5, <1>7 DEF MainTypes
<1> QED
  BY <1>3, <1>4, <1>6, <1>8

LEMMA ReadInputTypes ==
    ASSUME TypeInv, NEW r \in Runs, NEW n \in Objects, ReadInput(r, n) PROVE TypeInv'
<1> USE DEF TypeInv
<1>1. pc[r] = "link" /\ n \notin DOMAIN cache[r]
  BY DEF ReadInput, Linking, BeginRead, Cached
<1>2. [name |-> n, got |-> <<>>] \in Reading /\ Len(<<>>) < Len(ReadOrder)
  BY DEF Reading, ReadOrder
<1>3. ReadingTypes'
  BY <1>1, <1>2 DEF ReadingTypes, ReadInput, BeginRead, gestaltVars
<1>4. UNCHANGED <<cache, writing, disk, gestaltVars>>
  BY Zenon DEF ReadInput, BeginRead
<1> QED
  BY <1>3, <1>4 DEF ModuleTypes, WritingTypes, FileTypes, MainTypes, gestaltVars, disk

LEMMA ReadOnTypes ==
    ASSUME TypeInv, NEW r \in Runs, ReadOn(r) PROVE TypeInv'
<1> USE DEF TypeInv
<1> DEFINE n == reading[r].name
<1>1. /\ reading[r] # None /\ reading[r] \in Reading /\ pc[r] = "link"
      /\ n \in Objects /\ reading[r].got \in Seq(SUBSET Origins)
      /\ Len(reading[r].got) < 4
  BY DEF ReadOn, ReadFile, ReadingTypes, Reading, ReadOrder
<1>2. NextFile(r) \in FileStates
  <2>1. \A l \in 0 .. 3 : ReadOrder[l + 1] \in Kinds
    BY ONLY DEF ReadOrder, Kinds
  <2>2. Len(reading[r].got) \in 0 .. 3
    <3>1. Len(reading[r].got) \in Nat
      BY <1>1, InSequence, Zenon
    <3>2. Len(reading[r].got) < 4
      BY ONLY <1>1, Zenon
    <3>3. \A l \in Nat : l < 4 => l \in 0 .. 3
      BY ONLY TRUE
    <3> QED
      BY ONLY <3>1, <3>2, <3>3, Zenon
  <2>3. NextKind(r) \in Kinds
    BY <2>1, <2>2, Zenon DEF NextKind
  <2> QED
    BY <1>1, <2>3, Zenon DEF NextFile, FileTypes
<1>3. PICK part \in Parsed(NextKind(r), NextFile(r)) :
        LET got == Append(reading[r].got, part)
        IN  IF Len(got) < Len(ReadOrder)
              THEN reading' = [reading EXCEPT ![r].got = got] /\ UNCHANGED cache
              ELSE /\ reading' = [reading EXCEPT ![r] = None]
                   /\ Insert(r, n, Assembled(got))
  BY DEF ReadOn, ReadFile
<1>4. part \in SUBSET Origins
  <2>1. CASE NextFile(r).is = "content"
    BY <1>2, <1>3, <2>1 DEF Parsed, FileStates, Torn, Absent
  <2>2. CASE NextFile(r).is # "content"
    BY <1>3, <2>2 DEF Parsed
  <2> QED
    BY <2>1, <2>2
<1> DEFINE got == Append(reading[r].got, part)
<1>5. got \in Seq(SUBSET Origins) /\ Len(got) = Len(reading[r].got) + 1 /\ Len(ReadOrder) = 4
  BY <1>1, <1>4 DEF ReadOrder
<1>6. UNCHANGED <<writing, files, lock, unlocked, make, pc, todo, inputs, linked, toWrite,
                  native, exit>>
  BY DEF ReadOn, ReadFile, gestaltVars, disk
<1>7. FileTypes' /\ MainTypes'
  BY <1>6 DEF FileTypes, MainTypes
<1>8. CASE Len(got) < 4
  <2>1. reading' = [reading EXCEPT ![r].got = got] /\ UNCHANGED cache
    BY <1>3, <1>5, <1>8
  <2>2. reading'[r] = [name |-> n, got |-> got] /\ \A q \in Runs : q # r => reading'[q] = reading[q]
    BY <1>1, <2>1, Zenon DEF ReadingTypes, Reading
  <2>3. ReadingTypes'
    BY <1>1, <1>5, <1>6, <1>8, <2>1, <2>2, ZenonT(30) DEF ReadingTypes, Reading
  <2> QED
    BY <1>6, <1>7, <2>1, <2>3 DEF ModuleTypes, WritingTypes
<1>9. CASE Len(got) = 4
  <2>1. /\ reading' = [reading EXCEPT ![r] = None]
        /\ cache' = [cache EXCEPT ![r] = With(@, n, Assembled(got))]
    BY <1>3, <1>5, <1>9 DEF Insert
  <2>2. Assembled(got) \in PortableModules
    BY <1>5, <1>9, AssembledIsModule
  <2>3. /\ ModuleTypes'
        /\ DOMAIN cache[r] \subseteq DOMAIN cache'[r]
        /\ \A q \in Runs : q # r => cache'[q] = cache[q]
    BY <1>1, <2>1, <2>2, WithTypes DEF ModuleTypes, Names
  <2>4. ReadingTypes' /\ WritingTypes'
    BY <1>6, <2>1, <2>3 DEF ReadingTypes, WritingTypes
  <2> QED
    BY <1>7, <2>3, <2>4
<1>10. Len(got) < 4 \/ Len(got) = 4
  BY ONLY <1>1, <1>5
<1> QED
  BY ONLY <1>8, <1>9, <1>10, Zenon

LEMMA NotFoundTypes ==
    ASSUME TypeInv, NEW r \in Runs, NotFound(r) PROVE TypeInv'
  BY DEF TypeInv, ModuleTypes, ReadingTypes, WritingTypes, FileTypes, MainTypes, NotFound,
         ReadNothing, disk

LEMMA EndLinkTypes ==
    ASSUME TypeInv, NEW r \in Runs, EndLink(r) PROVE TypeInv'
<1> USE DEF TypeInv
<1>1. pc[r] = "link" /\ reading[r] = None /\ writing[r] = None
  BY DEF EndLink, Linking, WritingTypes
<1>2. PICK n : cache' = [cache EXCEPT ![r] = With(With(@, Linked, linked[r]), n, linked[r])]
               /\ n = Job(r).out
  BY DEF EndLink
<1> QED
  <2>1. n \in Objects /\ Tail(todo[r]) \in Seq(JobType)
    BY <1>1, <1>2, JobTypes DEF JobType, MainTypes
  <2>2. linked[r] \in PortableModules
    BY DEF MainTypes
  <2>3. ModuleTypes' /\ \A q \in Runs : q # r => cache'[q] = cache[q]
    <3> DEFINE f == With(cache[r], Linked, linked[r])
    <3>1. IsCache(f)
      BY <2>2, WithTypes DEF ModuleTypes, Names
    <3> HIDE DEF f
    <3>2. IsCache(With(f, n, linked[r]))
      BY <2>1, <2>2, <3>1, WithTypes DEF Names
    <3>3. cache' = [cache EXCEPT ![r] = With(f, n, linked[r])]
      BY <1>2 DEF f
    <3> QED
      BY <3>2, <3>3 DEF ModuleTypes
  <2>4. ReadingTypes' /\ WritingTypes'
    BY <1>1, <2>3 DEF ReadingTypes, WritingTypes, EndLink, Goto, MainTypes
  <2>5. FileTypes' /\ MainTypes'
    BY <2>1 DEF FileTypes, MainTypes, EndLink, Goto, Phases, disk
  <2> QED
    BY <2>3, <2>4, <2>5
\* The passes rewrite modules, they make none.
LEMMA RunPassesTypes ==
    ASSUME TypeInv, NEW r \in Runs, RunPasses(r) PROVE TypeInv'
<1> USE DEF TypeInv
<1>1. pc[r] = "passes" /\ pc' = [pc EXCEPT ![r] = "native"]
  BY DEF RunPasses, Goto
<1>2. /\ DOMAIN cache'[r] = DOMAIN cache[r]
      /\ \A n \in DOMAIN cache[r] :
           \/ cache'[r][n] = cache[r][n]
           \/ cache'[r][n] = Passed(cache[r][n], r)
      /\ \A q \in Runs : q # r => cache'[q] = cache[q]
  BY DEF RunPasses, ModuleTypes
<1>3. IsCache(cache'[r])
  <2>1. ASSUME NEW n \in DOMAIN cache[r]
        PROVE  cache'[r][n] \in PortableModules
    <3>1. cache[r][n] \in PortableModules
      BY DEF ModuleTypes, IsCache
    <3> QED
      BY <1>2, <3>1, PassedIsModule
  <2> QED
    BY <1>2, <2>1 DEF ModuleTypes, IsCache
<1>4. ModuleTypes'
  BY <1>2, <1>3 DEF ModuleTypes, RunPasses
<1>5. ReadingTypes' /\ WritingTypes'
  BY <1>1, <1>2 DEF ReadingTypes, WritingTypes, MainTypes, RunPasses
<1>6. FileTypes' /\ MainTypes'
  BY <1>1 DEF FileTypes, MainTypes, RunPasses, Phases, disk
<1> QED
  BY <1>4, <1>5, <1>6

LEMMA MainEndTypes ==
    ASSUME TypeInv, NEW r \in Runs,
           EnterCriticalSection(r) \/ Destroyed(r) \/ Exit(r)
    PROVE  TypeInv'
<1>1. PICK phase \in {"passes", "future", "exited"} : pc' = [pc EXCEPT ![r] = phase]
  BY DEF EnterCriticalSection, Destroyed, Exit, Goto
<1>2. reading[r] = None /\ writing[r] = None
  BY DEF TypeInv, ReadingTypes, WritingTypes, EnterCriticalSection, Destroyed, Exit
<1>3. MainTypes'
  BY <1>1 DEF TypeInv, MainTypes, EnterCriticalSection, Destroyed, Exit, Phases
<1>4. \A q \in Runs : pc'[q] = pc[q] \/ (q = r /\ pc'[q] # "destroy")
  BY <1>1 DEF TypeInv, MainTypes
<1> QED
  BY <1>2, <1>3, <1>4, TypeMove DEF EnterCriticalSection, Destroyed, Exit

\* ~impl starts with the entries of the cache as it is, and it stays so.
LEMMA ToDestroyTypes ==
    ASSUME TypeInv, NEW r \in Runs, NoResult(r) \/ Get(r)
    PROVE  TypeInv'
<1> USE DEF TypeInv
<1>1. /\ pc[r] \in {"jobs", "native"} /\ pc' = [pc EXCEPT ![r] = "destroy"]
      /\ toWrite' = [toWrite EXCEPT ![r] = DOMAIN cache[r] \ {Linked}]
      /\ UNCHANGED <<cacheVars, make, todo, inputs, linked, native>>
  BY DEF NoResult, Get, Goto, Destroy
<1>2. DOMAIN cache[r] \ {Linked} \in SUBSET Objects
  BY DEF ModuleTypes, IsCache, Names
<1>3. ReadingTypes' /\ WritingTypes'
  BY <1>1, <1>2 DEF ReadingTypes, WritingTypes, MainTypes, cacheVars
<1>4. exit' \in [Runs -> Codes]
  BY Zenon DEF NoResult, Get, MainTypes, Codes
<1>5. ModuleTypes' /\ FileTypes' /\ MainTypes'
  BY <1>1, <1>4, Zenon DEF ModuleTypes, FileTypes, MainTypes, Phases, cacheVars, disk
<1> QED
  BY <1>3, <1>5

LEMMA WriteTypes ==
    ASSUME TypeInv, NEW r \in Runs, NEW n \in Objects,
           WriteModule(r, n) \/ WriteModuleUnlocked(r, n)
    PROVE  TypeInv'
<1> USE DEF TypeInv
<1>1. /\ pc[r] = "destroy" /\ n \in toWrite[r]
      /\ writing' = [writing EXCEPT ![r] = [name |-> n, step |-> 0]]
      /\ toWrite' = [toWrite EXCEPT ![r] = @ \ {n}]
      /\ UNCHANGED <<cache, reading, files, make, pc, todo, inputs, linked, native, exit>>
  BY DEF WriteModule, WriteModuleUnlocked, TryLock, LockError
<1>2. [name |-> n, step |-> 0] \in Writing
  BY DEF Writing
<1>3. WritingTypes'
  BY <1>1, <1>2 DEF WritingTypes, MainTypes
<1>4. FileTypes'
  <2>1. CASE WriteModule(r, n)
    BY <1>1, <2>1, Zenon DEF FileTypes, WriteModule, TryLock
  <2>2. CASE WriteModuleUnlocked(r, n)
    BY <1>1, <2>2 DEF FileTypes, WriteModuleUnlocked, LockError
  <2> QED
    BY ONLY <2>1, <2>2, WriteModule(r, n) \/ WriteModuleUnlocked(r, n), Zenon
<1> QED
  BY <1>1, <1>3, <1>4 DEF ModuleTypes, ReadingTypes, MainTypes

LEMMA WriteOnTypes ==
    ASSUME TypeInv, NEW r \in Runs, WriteOn(r)
    PROVE  TypeInv'
<1> USE DEF TypeInv
<1> DEFINE w == writing[r]
<1>1. /\ w # None /\ w \in Writing /\ w.name \in DOMAIN cache[r] /\ w.name \in Objects
      /\ UNCHANGED <<cache, reading, unlocked, gestaltVars>>
  BY DEF WriteOn, OpenFile, FlushFile, Unlock, WritingTypes, Writing
<1>2. ModuleTypes' /\ ReadingTypes' /\ MainTypes'
  BY <1>1 DEF ModuleTypes, ReadingTypes, MainTypes, gestaltVars
<1>3. CASE OpenFile(r) \/ FlushFile(r)
  <2>1. GoesTo(r, w.step + 1) /\ UNCHANGED lock
    BY <1>3, Zenon DEF OpenFile, FlushFile, GoesTo
  <2>2. w.step \in 0 .. 7
    <3>1. w.step < 4 \/ w.step \in 4 .. 7
      BY <1>3, Zenon DEF OpenFile, FlushFile
    <3>2. w.step \in 0 .. 8
      BY ONLY <1>1 DEF Writing
    <3> QED
      BY ONLY <3>1, <3>2
  <2>3. WritingTypes'
    <3>1. PICK step \in 0 .. 8 : step = w.step + 1
      BY ONLY <2>2
    <3>2. DOMAIN writing = Runs
      BY Zenon DEF WritingTypes
    <3>3. writing[r] \in Writing /\ GoesTo(r, step)
      BY ONLY <1>1, <2>1, <3>1, Zenon
    <3>4. /\ DOMAIN writing' = Runs
          /\ writing'[r] \in Writing /\ writing'[r].name = w.name
          /\ \A q \in Runs : q # r => writing'[q] = writing[q]
      BY ONLY r \in Runs, <3>2, <3>3, StepOn
    <3> QED
      BY <1>1, <3>4, Zenon DEF WritingTypes, gestaltVars
  <2>4. PICK k \in Kinds, f \in FileStates : Puts(w.name, k, f)
    <3>1. CASE OpenFile(r)
      <4>1. \A i \in 1 .. 4 : OpenOrder[i] \in Kinds
        BY ONLY DEF OpenOrder, Kinds
      <4>2. w.step < 4
        BY <3>1, Zenon DEF OpenFile
      <4>3. w.step + 1 \in 1 .. 4
        BY ONLY <2>2, <4>2
      <4>4. OpenOrder[w.step + 1] \in Kinds /\ Torn \in FileStates
        BY ONLY <4>1, <4>3, Zenon DEF FileStates
      <4> QED
        BY <3>1, <4>4, Zenon DEF OpenFile, Puts
    <3>2. CASE FlushFile(r)
      <4> DEFINE k == FlushOrder[w.step - 3]
      <4>1. k \in Kinds
        BY <3>2 DEF FlushFile, FlushOrder, Kinds
      <4>2. cache[r][w.name][k] \in SUBSET Origins
        BY <1>1, <4>1 DEF ModuleTypes, IsCache, PortableModules
      <4>3. Content(r, cache[r][w.name][k]) \in FileStates
        BY <4>2, Zenon DEF Content, FileStates
      <4> QED
        BY <3>2, <4>1, <4>3, ZenonT(30) DEF FlushFile, Puts
    <3> QED
      BY <1>3, <3>1, <3>2, Zenon
  <2>5. FileTypes'
    <3>1. files' \in [Objects -> [Kinds -> FileStates]]
      <4>1. files \in [Objects -> [Kinds -> FileStates]]
        BY Zenon DEF FileTypes
      <4> QED
        BY ONLY k \in Kinds, f \in FileStates, <1>1, <2>4, <4>1, PutTypes
    <3> QED
      BY <1>1, <2>1, <3>1, Zenon DEF FileTypes
  <2> QED
    BY <1>2, <2>3, <2>5, Zenon
<1>4. CASE Unlock(r)
  BY <1>1, <1>2, <1>4 DEF WritingTypes, FileTypes, Unlock, gestaltVars
<1> QED
  BY <1>3, <1>4 DEF WriteOn

LEMMA DieTypes ==
    ASSUME TypeInv, NEW r \in Runs, Die(r) PROVE TypeInv'
<1> USE DEF TypeInv
<1>1. PICK phase \in {"killed", "killedInside"} : pc' = [pc EXCEPT ![r] = phase]
  BY DEF Die, Goto
<1>2. ReadingTypes' /\ WritingTypes'
  BY <1>1 DEF ReadingTypes, WritingTypes, MainTypes, Die
<1>3. MainTypes'
  BY <1>1 DEF MainTypes, Die, Phases, Codes
<1> QED
  BY <1>2, <1>3 DEF ModuleTypes, FileTypes, Die, disk

LEMMA TypeNext ==
    ASSUME TypeInv, [Next]_vars
    PROVE  TypeInv'
<1>1. CASE UNCHANGED vars
  BY <1>1, TypeMove DEF vars, gestaltVars, TypeInv, MainTypes
<1>2. ASSUME NEW r \in Runs, Step(r)
      PROVE  TypeInv'
  BY <1>2, StartTypes, NativeTypes, CompileTypes, JobsTypes, ReadOnTypes, NotFoundTypes,
     DieTypes, EndLinkTypes, LinkInputTypes, ReadInputTypes, WriteTypes, ToDestroyTypes,
     RunPassesTypes, MainEndTypes, WriteOnTypes DEF Step, BrokenTable
<1>3. ASSUME NEW r \in Runs, Fault(r)
      PROVE  TypeInv'
  BY <1>3, NativeTypes, DieTypes, WriteTypes DEF Fault, Killed, CompileError
<1> QED
  BY <1>1, <1>2, <1>3 DEF Next

LEMMA TypeInit ==
    ASSUME Init
    PROVE  TypeInv
<1>1. MainTypes
  <2>1. make.jobs \in [Runs -> Seq(JobType)]
    <3>1. make \in Makefiles
      BY DEF Init
    <3> QED
      BY <3>1, MakefilesAssumption DEF MakefilesAssumption
  <2>2. Empty \in PortableModules
    BY WholeIsModule DEF Empty
  <2> QED
    BY <2>1, <2>2 DEF Init, MainTypes, Phases, NativeStates, Codes
<1>2. FileTypes
  BY DEF Init, InitCache, FileTypes, FileStates
<1>3. ModuleTypes /\ ReadingTypes /\ WritingTypes
  BY DEF Init, InitCache, ModuleTypes, ReadingTypes, WritingTypes, IsCache
<1> QED
  BY <1>1, <1>2, <1>3 DEF TypeInv

\* The pipeline and main keep their types: no reader holds what the cache
\* has already, and no writer writes what the cache has lost.
THEOREM TypeCorrect == Spec => []TypeOK
<1>1. Init => TypeInv /\ SectionInv
  <2>1. Init => SectionInv
    BY DEF Init, SectionInv, OneRunInThePasses, Phases
  <2> QED
    BY <2>1, TypeInit
<1>2. TypeInv /\ [Next]_vars => TypeInv'
  BY TypeNext
<1>3. SectionInv /\ [Next]_vars => SectionInv'
  BY SectionNext
<1>4. TypeInv /\ SectionInv => TypeOK
  <2> SUFFICES ASSUME TypeInv, SectionInv PROVE TypeOK
    OBVIOUS
  <2> USE DEF TypeInv
  <2>1. ASSUME NEW r \in Runs
        PROVE  /\ DOMAIN cache[r] \subseteq Names
               /\ \A n \in DOMAIN cache[r] : cache[r][n] \in PortableModules
    BY DEF ModuleTypes, IsCache
  <2>2. ASSUME NEW r \in Runs
        PROVE  /\ reading[r] # None =>
                    /\ reading[r].name \in Objects \ DOMAIN cache[r]
                    /\ Len(reading[r].got) < Len(ReadOrder)
               /\ writing[r] # None =>
                    /\ writing[r].name \in DOMAIN cache[r] \cap Objects
                    /\ writing[r].step \in 0 .. 8
    BY DEF ReadingTypes, Reading, WritingTypes, Writing
  <2> QED
    BY <2>1, <2>2 DEF TypeOK, FileTypes, MainTypes, WritingTypes, SectionInv
<1> QED
  BY <1>1, <1>2, <1>3, <1>4, PTL DEF Spec
=============================================================================
