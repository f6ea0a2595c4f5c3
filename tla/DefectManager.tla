---------------------------- MODULE DefectManager ---------------------------
(***************************************************************************)
(* The defect manager of Borealis: every gestalt run collects the verdicts *)
(* of its checkers in memory and merges them, under a lock file, with      *)
(* persistentDefectData.json, which later and concurrent runs consult to   *)
(* skip loci that are already decided.                                     *)
(*                                                                         *)
(* A run is one process.  Its checkers are sequential, so a run takes one  *)
(* step at a time; runs interleave freely, may crash at any step, and the  *)
(* lock file manager may report an error instead of a lock.                *)
(***************************************************************************)
EXTENDS Naturals, FiniteSets

CONSTANTS Runs,           \* gestalt processes started in one directory
          NoRun,          \* "the lock file does not exist"
          Defects,        \* DefectInfo values: a defect type at a location
          UndefDefects,   \* those of type NDF-01, use of an undefined value
          MaxCrashes,     \* bound on the runs that die
          MaxLockErrors,  \* bound on LFS_Error answers
          MaxSyncs        \* bound on DefectManager::sync calls

ASSUME NoRunAssumption == NoRun \notin Runs
ASSUME UndefAssumption == UndefDefects \subseteq Defects
ASSUME BoundsAssumption ==
    /\ MaxCrashes \in Nat
    /\ MaxLockErrors \in Nat
    /\ MaxSyncs \in Nat

VARIABLES
    disk,           \* the json file: parsable or not, and what it lists
    lock,           \* who created the lock file
    pc,             \* where a run is
    op,             \* the file operation it is in
    trueData, falseData, falseAbsIntData,   \* this run's verdicts
    truePastData, falsePastData,            \* what it took from the file
    buf,            \* the locals tpd and fpd of sync and forceDump
    crashes, lockErrors, syncs              \* bounded counters

data == <<trueData, falseData, falseAbsIntData>>
past == <<truePastData, falsePastData>>
counters == <<crashes, lockErrors, syncs>>
vars == <<disk, lock, pc, op, data, past, buf, counters>>

Pairs == [t : SUBSET Defects, f : SUBSET Defects]
Empty == [t |-> {}, f |-> {}]
Join(a, b) == [t |-> a.t \cup b.t, f |-> a.f \cup b.f]

\* read_as_json yields null on a file that is absent, empty or cut short.
Unreadable == [ok |-> FALSE, t |-> {}, f |-> {}]
File(pair) == [ok |-> TRUE, t |-> pair.t, f |-> pair.f]
Content(file) == [t |-> file.t, f |-> file.f]

Stages == {"new", "work", "try", "wait", "body", "truncate", "write",
           "final", "done", "crashed"}
Operations == {"load", "sync", "finalize", "destroy"}
InBody == {"body", "truncate", "write"}

-----------------------------------------------------------------------------
Init ==
    /\ disk = Unreadable
    /\ lock = NoRun
    /\ pc = [r \in Runs |-> "new"]
    /\ op = [r \in Runs |-> "load"]
    /\ trueData = [r \in Runs |-> {}]
    /\ falseData = [r \in Runs |-> {}]
    /\ falseAbsIntData = [r \in Runs |-> {}]
    /\ truePastData = [r \in Runs |-> {}]
    /\ falsePastData = [r \in Runs |-> {}]
    /\ buf = [r \in Runs |-> Empty]
    /\ crashes = 0 /\ lockErrors = 0 /\ syncs = 0

hasDefect(r, d) == d \in trueData[r] \cup truePastData[r]

hasInfo(r, d) ==
    d \in trueData[r] \cup truePastData[r] \cup falsePastData[r]
            \cup falseAbsIntData[r]

-----------------------------------------------------------------------------
(* locked(): the lock file around every access to the json file            *)

Goto(r, stage) == pc' = [pc EXCEPT ![r] = stage]

\* The lock file of a dead owner is stale: LockFileManager removes it.
Available == lock \notin {r \in Runs : pc[r] # "crashed"}

LockOwned(r) ==
    /\ pc[r] = "try"
    /\ Available
    /\ lock' = r
    /\ Goto(r, "body")
    /\ UNCHANGED <<disk, op, data, past, buf, counters>>

\* Mutant: the "continue" after waitForUnlock is lost.
LockSharedEnters(r) ==
    /\ pc[r] = "try"
    /\ ~Available
    /\ Goto(r, "body")
    /\ UNCHANGED <<disk, lock, op, data, past, buf, counters>>

LockShared(r) ==
    /\ pc[r] = "try"
    /\ ~Available
    /\ Goto(r, "wait")
    /\ UNCHANGED <<disk, lock, op, data, past, buf, counters>>

\* LFS_Error is logged, and the body runs all the same.
LockError(r) ==
    /\ pc[r] = "try"
    /\ lockErrors < MaxLockErrors
    /\ lockErrors' = lockErrors + 1
    /\ Goto(r, "body")
    /\ UNCHANGED <<disk, lock, op, data, past, buf, crashes, syncs>>

\* Mutant: the wait goes on until the lock file vanishes, which that of a dead
\* owner never does.
WaitForRemoval(r) ==
    /\ pc[r] = "wait"
    /\ lock = NoRun
    /\ Goto(r, "try")
    /\ UNCHANGED <<disk, lock, op, data, past, buf, counters>>

\* Unlocked, owner died or timeout: the answer is ignored and the loop retries.
WaitForUnlock(r) ==
    /\ pc[r] = "wait"
    /\ Goto(r, "try")
    /\ UNCHANGED <<disk, lock, op, data, past, buf, counters>>

\* The LockFileManager leaves scope: only an owner removes the file.
Unlock(r) == lock' = IF lock = r THEN NoRun ELSE lock

Enter(r, operation) ==
    /\ op' = [op EXCEPT ![r] = operation]
    /\ Goto(r, "try")

-----------------------------------------------------------------------------
(* The three users of locked()                                             *)

\* First use of the static persistentDefectData: its constructor loads.
Construct(r) ==
    /\ pc[r] = "new"
    /\ Enter(r, "load")
    /\ UNCHANGED <<disk, lock, data, past, buf, counters>>

\* Mutant: the two members of the pair are read in the wrong order.
LoadSwapped(r) ==
    /\ pc[r] = "body" /\ op[r] = "load"
    /\ truePastData' = [truePastData EXCEPT ![r] = disk.f]
    /\ falsePastData' = [falsePastData EXCEPT ![r] = disk.t]
    /\ Unlock(r)
    /\ Goto(r, "work")
    /\ UNCHANGED <<disk, op, data, buf, counters>>

\* Mutant: the lock of the constructor is taken as an operation of its own.
LoadTwice(r) ==
    /\ pc[r] = "body" /\ op[r] = "load"
    /\ truePastData' = [truePastData EXCEPT ![r] = disk.t]
    /\ falsePastData' = [falsePastData EXCEPT ![r] = disk.f]
    /\ lock' = r
    /\ Goto(r, "loaded")
    /\ UNCHANGED <<disk, op, data, buf, counters>>

Load(r) ==
    /\ pc[r] = "body" /\ op[r] = "load"
    /\ truePastData' = [truePastData EXCEPT ![r] = disk.t]
    /\ falsePastData' = [falsePastData EXCEPT ![r] = disk.f]
    /\ Unlock(r)
    /\ Goto(r, "work")
    /\ UNCHANGED <<disk, op, data, buf, counters>>

\* sync moves the past out of its members and drops fpd entries of tpd.
Sync(r) ==
    LET tpd == truePastData[r] \cup trueData[r]
        fpd == (falsePastData[r] \cup falseData[r]) \ tpd
    IN /\ pc[r] = "work"
       /\ syncs < MaxSyncs
       /\ syncs' = syncs + 1
       /\ buf' = [buf EXCEPT ![r] = [t |-> tpd, f |-> fpd]]
       /\ truePastData' = [truePastData EXCEPT ![r] = {}]
       /\ falsePastData' = [falsePastData EXCEPT ![r] = {}]
       /\ Enter(r, "sync")
       /\ UNCHANGED <<disk, lock, data, crashes, lockErrors>>

\* Mutant: forceDump does not erase from falseData what is in trueData.
ForceDumpKeeps(r, operation) ==
    /\ buf' = [buf EXCEPT ![r] = [t |-> truePastData[r] \cup trueData[r],
                                  f |-> falsePastData[r] \cup falseData[r]]]
    /\ Enter(r, operation)
    /\ UNCHANGED <<disk, lock, data, past, counters>>

\* What forceDump does before it takes the lock.
ForceDump(r, operation) ==
    LET false == falseData[r] \ trueData[r]
    IN /\ falseData' = [falseData EXCEPT ![r] = false]
       /\ buf' = [buf EXCEPT ![r] = [t |-> truePastData[r] \cup trueData[r],
                                     f |-> falsePastData[r] \cup false]]
       /\ Enter(r, operation)
       /\ UNCHANGED <<disk, lock, trueData, falseAbsIntData, past, counters>>

\* doFinalization dumps, and ~DefectManager dumps once more.
Finalize(r) == pc[r] = "work" /\ ForceDump(r, "finalize")
Destroy(r) == pc[r] = "final" /\ ForceDump(r, "destroy")

\* Mutant: the file is overwritten with what this run knows.
ReadNothing(r) ==
    /\ pc[r] = "body" /\ op[r] # "load"
    /\ Goto(r, "truncate")
    /\ UNCHANGED <<disk, lock, op, data, past, buf, counters>>

\* Merge with the file as it is now.
ReadExisting(r) ==
    /\ pc[r] = "body" /\ op[r] # "load"
    /\ buf' = [buf EXCEPT ![r] = Join(@, Content(disk))]
    /\ Goto(r, "truncate")
    /\ UNCHANGED <<disk, lock, op, data, past, counters>>

\* std::ofstream out{filename} empties the file.
Truncate(r) ==
    /\ pc[r] = "truncate"
    /\ disk' = Unreadable
    /\ Goto(r, "write")
    /\ UNCHANGED <<lock, op, data, past, buf, counters>>

\* A longer text that someone else wrote since Truncate is only partly covered.
Overwrite(pair) == IF disk.ok THEN {File(pair), Unreadable} ELSE {File(pair)}

After(operation) == CASE operation = "sync"     -> "work"
                      [] operation = "finalize" -> "final"
                      [] OTHER                  -> "done"

\* Mutant: sync does not move the merged sets back into its members.
WriteForgets(r) ==
    /\ pc[r] = "write"
    /\ disk' \in Overwrite(buf[r])
    /\ buf' = [buf EXCEPT ![r] = Empty]
    /\ Unlock(r)
    /\ Goto(r, After(op[r]))
    /\ UNCHANGED <<op, data, past, counters>>

Write(r) ==
    /\ pc[r] = "write"
    /\ disk' \in Overwrite(buf[r])
    /\ buf' = [buf EXCEPT ![r] = Empty]
    /\ IF op[r] = "sync"
         THEN /\ truePastData' = [truePastData EXCEPT ![r] = buf[r].t]
              /\ falsePastData' = [falsePastData EXCEPT ![r] = buf[r].f]
         ELSE UNCHANGED past
    /\ Unlock(r)
    /\ Goto(r, After(op[r]))
    /\ UNCHANGED <<op, data, counters>>

-----------------------------------------------------------------------------
(* The checkers                                                            *)

addDefect(r, d) ==
    /\ trueData' = [trueData EXCEPT ![r] = @ \cup {d}]
    /\ UNCHANGED <<falseData, falseAbsIntData>>

addNoDefect(r, d) ==
    /\ falseData' = [falseData EXCEPT ![r] = @ \cup {d}]
    /\ UNCHANGED <<trueData, falseAbsIntData>>

addNoAbsIntDefect(r, d) ==
    /\ falseAbsIntData' = [falseAbsIntData EXCEPT ![r] = @ \cup {d}]
    /\ falseData' = [falseData EXCEPT ![r] = @ \cup {d}]
    /\ UNCHANGED trueData

Working(r) ==
    /\ pc[r] = "work"
    /\ UNCHANGED <<disk, lock, pc, op, past, buf, counters>>

\* CheckHelper::check and isReachable: a refuted or an unknown query both
\* count as "no defect".
Check(r, d) ==
    /\ Working(r)
    /\ ~hasInfo(r, d)
    /\ addDefect(r, d) \/ addNoDefect(r, d)

\* CheckHelper::alias copies the verdict of another instruction.
Alias(r, d, other) ==
    /\ Working(r)
    /\ ~hasInfo(r, d)
    /\ IF hasDefect(r, other) THEN addDefect(r, d) ELSE addNoDefect(r, d)

\* CheckUndefValuesPass asks hasDefect only, and never reports "no defect".
\* It is the only checker of its defect type.
CheckUndef(r, d) ==
    /\ Working(r)
    /\ ~hasDefect(r, d)
    /\ addDefect(r, d)

\* The abstract interpreter's checkers run before the others and ask nothing.
AbsIntRefutes(r, d) ==
    /\ Working(r)
    /\ addNoAbsIntDefect(r, d)

-----------------------------------------------------------------------------
\* A signal, an ASSERT or an out-of-memory kill, at any point of a run.
Crash(r) ==
    /\ pc[r] \notin {"done", "crashed"}
    /\ crashes < MaxCrashes
    /\ crashes' = crashes + 1
    /\ Goto(r, "crashed")
    /\ UNCHANGED <<disk, lock, op, data, past, buf, lockErrors, syncs>>

Checking(r) ==
    \/ \E d \in Defects \ UndefDefects :
           \/ Check(r, d)
           \/ \E other \in Defects \ (UndefDefects \cup {d}) : Alias(r, d, other)
           \/ AbsIntRefutes(r, d)
    \/ \E d \in UndefDefects : CheckUndef(r, d)

Locking(r) ==
    \/ LockOwned(r) \/ LockShared(r) \/ LockError(r) \/ WaitForUnlock(r)

Filing(r) ==
    \/ Construct(r) \/ Load(r) \/ Sync(r) \/ Finalize(r) \/ Destroy(r)
    \/ ReadExisting(r) \/ Truncate(r) \/ Write(r)

Step(r) == Checking(r) \/ Locking(r) \/ Filing(r)

Next == \E r \in Runs : Step(r) \/ Crash(r)

Spec == Init /\ [][Next]_vars

\* The operating system schedules every live process, and a pass over finitely
\* many instructions comes to its end.
FairSpec == Spec /\ \A r \in Runs : WF_vars(Step(r))

-----------------------------------------------------------------------------
(* Properties                                                              *)

\* Every variable has the shape its declaration in DefectManager.h gives it.
TypeOK ==
    /\ disk \in [ok : BOOLEAN, t : SUBSET Defects, f : SUBSET Defects]
    /\ lock \in Runs \cup {NoRun}
    /\ pc \in [Runs -> Stages]
    /\ op \in [Runs -> Operations]
    /\ trueData \in [Runs -> SUBSET Defects]
    /\ falseData \in [Runs -> SUBSET Defects]
    /\ falseAbsIntData \in [Runs -> SUBSET Defects]
    /\ truePastData \in [Runs -> SUBSET Defects]
    /\ falsePastData \in [Runs -> SUBSET Defects]
    /\ buf \in [Runs -> Pairs]
    /\ crashes \in 0..MaxCrashes
    /\ lockErrors \in 0..MaxLockErrors
    /\ syncs \in 0..MaxSyncs

\* What a reader that waits for the lock will find, counting a rewrite in
\* progress as done: locked() hides the truncated file of forceDump and sync.
Record ==
    IF lock # NoRun /\ pc[lock] = "write" THEN buf[lock] ELSE Content(disk)

\* As long as the lock file works, the file is a record that only a crash can
\* take from: read-merge-truncate-write inside locked() loses no update.
Recorded == INSTANCE DefectRecord WITH record <- Record, losses <- crashes
ImplementsRecord == Recorded!RecordSpec

Found == UNION {trueData[r] : r \in Runs}
Refuted == UNION {falseData[r] \cup trueData[r] : r \in Runs}

\* Nothing is on disk that no run has said, whatever crashes, lost locks and
\* torn files happened: merging in sync and forceDump never makes up a verdict.
Provenance ==
    /\ disk.t \subseteq Found
    /\ disk.f \subseteq Refuted

\* When no lock and no run was lost, whatever a finished run found is on disk,
\* also after others that never heard of it rewrote the file (forceDump merges).
FinishedIsRecorded ==
    crashes = 0 /\ lockErrors = 0 =>
        \A r \in Runs : pc[r] = "done" =>
            /\ trueData[r] \subseteq Record.t
            /\ falseData[r] \subseteq Record.f

\* A locus is listed both as defective and as sound only when two runs disagree:
\* hasInfo and the erasures in sync and forceDump keep one run consistent.
ContradictionNeedsTwoRuns ==
    \A d \in disk.t \cap disk.f :
        \E p, q \in Runs : p # q /\ d \in trueData[p] /\ d \in falseData[q]

Known(r) ==
    trueData[r] \cup truePastData[r] \cup falsePastData[r]
        \cup falseAbsIntData[r] \cup buf[r].t \cup buf[r].f

\* While it works and syncs, a run never forgets a locus it would have skipped,
\* although sync moves the past out of its members and back.
SkipsForGood ==
    [][\A r \in Runs :
         pc[r] \in {"new", "work", "try", "wait", "body", "truncate", "write"}
            /\ op[r] \in {"load", "sync"} => Known(r) \subseteq Known(r)']_vars

\* Every run gets through all its lock acquisitions, also past the stale lock
\* file of a run that died holding it: locked() retries until it owns the lock.
EveryRunEnds == \A r \in Runs : <>(pc[r] \in {"done", "crashed"})
=============================================================================
