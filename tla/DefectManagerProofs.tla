------------------------ MODULE DefectManagerProofs -------------------------
(***************************************************************************)
(* What TLAPS proves of the defect manager, for any number of runs and     *)
(* loci, and any bounds on crashes, lock errors and syncs.                 *)
(***************************************************************************)
EXTENDS DefectManager, TLAPS

-----------------------------------------------------------------------------
(* Types                                                                   *)

\* Joining two records, as the merge with the file does, gives a record.
LEMMA JoinType == ASSUME NEW a \in Pairs, NEW b \in Pairs
                  PROVE  Join(a, b) \in Pairs
BY DEF Join, Pairs

\* What a run writes, and what a torn write leaves, is a file.
LEMMA FileType ==
    /\ Unreadable \in [ok : BOOLEAN, t : SUBSET Defects, f : SUBSET Defects]
    /\ \A pair \in Pairs :
         File(pair) \in [ok : BOOLEAN, t : SUBSET Defects, f : SUBSET Defects]
<1>1. ASSUME NEW pair \in Pairs
      PROVE  pair.t \in SUBSET Defects /\ pair.f \in SUBSET Defects
  BY DEF Pairs
<1> QED BY <1>1 DEF File, Unreadable

\* Init puts every variable in its type.
LEMMA InitType == Init => TypeOK
BY BoundsAssumption
   DEF Init, TypeOK, Unreadable, Empty, Pairs, Stages, Operations

\* The lock file protocol around a body keeps the types.
LEMMA LockingType == ASSUME TypeOK, NEW r \in Runs, Locking(r)
                     PROVE  TypeOK'
<1>1. CASE LockOwned(r)
  BY <1>1 DEF LockOwned, Goto, TypeOK, Stages, data, past, counters
<1>2. CASE LockShared(r)
  BY <1>2 DEF LockShared, Goto, TypeOK, Stages, data, past, counters
<1>3. CASE LockError(r)
  BY <1>3, BoundsAssumption DEF LockError, Goto, TypeOK, Stages, data, past
<1>4. CASE WaitForUnlock(r)
  BY <1>4 DEF WaitForUnlock, Goto, TypeOK, Stages, data, past, counters
<1> QED BY <1>1, <1>2, <1>3, <1>4 DEF Locking

\* forceDump keeps the types up to the point where it asks for the lock.
LEMMA ForceDumpType ==
    ASSUME TypeOK, NEW r \in Runs, NEW operation \in Operations,
           ForceDump(r, operation)
    PROVE  TypeOK'
BY DEF ForceDump, Enter, Goto, TypeOK, Pairs, Stages, past, counters

\* The constructor, sync and forceDump keep the types.
LEMMA FilingType == ASSUME TypeOK, NEW r \in Runs, Filing(r)
                    PROVE  TypeOK'
<1>1. CASE Construct(r)
  BY <1>1 DEF Construct, Enter, Goto, TypeOK, Stages, Operations, data, past,
              counters
<1>2. CASE Load(r)
  BY <1>2 DEF Load, Unlock, Goto, TypeOK, Stages, data, counters
<1>3. CASE Sync(r)
  BY <1>3, BoundsAssumption
     DEF Sync, Enter, Goto, TypeOK, Stages, Operations, Pairs, data
<1>4. CASE Finalize(r)
  BY <1>4, ForceDumpType DEF Finalize, Operations
<1>5. CASE Destroy(r)
  BY <1>5, ForceDumpType DEF Destroy, Operations
<1>6. CASE ReadExisting(r)
  <2>1. Content(disk) \in Pairs
    BY DEF TypeOK, Content, Pairs
  <2>2. Join(buf[r], Content(disk)) \in Pairs
    BY <2>1, JoinType DEF TypeOK
  <2> QED
    BY <1>6, <2>2 DEF ReadExisting, Goto, TypeOK, Stages, data, past, counters
<1>7. CASE Truncate(r)
  BY <1>7 DEF Truncate, Unreadable, Goto, TypeOK, Stages, data, past, counters
<1>8. CASE Write(r)
  <2>1. disk' \in [ok : BOOLEAN, t : SUBSET Defects, f : SUBSET Defects]
    <3>1. buf[r] \in Pairs
      BY DEF TypeOK
    <3>2. disk' = File(buf[r]) \/ disk' = Unreadable
      BY <1>8 DEF Write, Overwrite
    <3> QED BY <3>1, <3>2, FileType
  <2>2. /\ truePastData' \in [Runs -> SUBSET Defects]
        /\ falsePastData' \in [Runs -> SUBSET Defects]
    <3>1. CASE op[r] = "sync"
      <4>1. /\ truePastData' = [truePastData EXCEPT ![r] = buf[r].t]
            /\ falsePastData' = [falsePastData EXCEPT ![r] = buf[r].f]
        BY <1>8, <3>1 DEF Write
      <4>2. buf[r].t \in SUBSET Defects /\ buf[r].f \in SUBSET Defects
        BY DEF TypeOK, Pairs
      <4> QED
        BY <4>1, <4>2 DEF TypeOK
    <3>2. CASE op[r] # "sync"
      BY <1>8, <3>2 DEF Write, TypeOK, past
    <3> QED BY <3>1, <3>2
  <2>3. pc' \in [Runs -> Stages]
    BY <1>8 DEF Write, Goto, After, TypeOK, Stages
  <2>4. buf' \in [Runs -> Pairs]
    BY <1>8 DEF Write, Empty, Pairs, TypeOK
  <2>5. lock' \in Runs \cup {NoRun}
    BY <1>8 DEF Write, Unlock, TypeOK
  <2>6. UNCHANGED <<op, trueData, falseData, falseAbsIntData, crashes,
                    lockErrors, syncs>>
    BY <1>8 DEF Write, data, counters
  <2> QED
    BY <2>1, <2>2, <2>3, <2>4, <2>5, <2>6 DEF TypeOK
<1> QED
  BY <1>1, <1>2, <1>3, <1>4, <1>5, <1>6, <1>7, <1>8 DEF Filing

\* The checkers keep the types.
LEMMA CheckingType == ASSUME TypeOK, NEW r \in Runs, Checking(r)
                      PROVE  TypeOK'
<1>1. ASSUME NEW d \in Defects, Working(r),
             \/ addDefect(r, d) \/ addNoDefect(r, d) \/ addNoAbsIntDefect(r, d)
      PROVE  TypeOK'
  BY <1>1 DEF Working, addDefect, addNoDefect, addNoAbsIntDefect, TypeOK, past,
              counters
<1> QED
  BY <1>1, UndefAssumption
     DEF Checking, Check, Alias, CheckUndef, AbsIntRefutes

\* Every step keeps the types.
LEMMA NextType == TypeOK /\ [Next]_vars => TypeOK'
<1> SUFFICES ASSUME TypeOK, [Next]_vars PROVE TypeOK'
  OBVIOUS
<1>1. ASSUME NEW r \in Runs, Step(r) PROVE TypeOK'
  BY <1>1, LockingType, FilingType, CheckingType DEF Step
<1>2. ASSUME NEW r \in Runs, Crash(r) PROVE TypeOK'
  BY <1>2, BoundsAssumption DEF Crash, Goto, TypeOK, Stages, data, past
<1>3. CASE UNCHANGED vars
  BY <1>3 DEF vars, data, past, counters, TypeOK
<1> QED BY <1>1, <1>2, <1>3 DEF Next

\* Type correctness of the defect manager, for every number of runs and loci.
THEOREM TypeCorrect == Spec => []TypeOK
<1>1. Init => TypeOK
  BY InitType
<1>2. TypeOK /\ [Next]_vars => TypeOK'
  BY NextType
<1> QED BY <1>1, <1>2, PTL DEF Spec

-----------------------------------------------------------------------------
(* Provenance                                                              *)

\* Provenance is not inductive: a verdict reaches the file from tpd and fpd,
\* and those from what was loaded earlier, so all of them must be traceable.
Traceable ==
    /\ Provenance
    /\ \A r \in Runs :
         /\ truePastData[r] \cup buf[r].t \subseteq Found
         /\ falsePastData[r] \cup buf[r].f \subseteq Refuted

\* No step takes back a verdict of any run, up to a refuted locus that was also
\* found defective.
LEMMA VerdictsStay ==
    ASSUME TypeOK, [Next]_vars
    PROVE  \A r \in Runs :
             /\ trueData[r] \subseteq trueData'[r]
             /\ falseData[r] \subseteq falseData'[r] \cup trueData'[r]
<1>1. ASSUME NEW p \in Runs, Locking(p)
      PROVE  UNCHANGED <<trueData, falseData>>
  BY <1>1 DEF Locking, LockOwned, LockShared, LockError, WaitForUnlock, data
<1>2. ASSUME NEW p \in Runs, NEW operation, ForceDump(p, operation)
      PROVE  \A r \in Runs :
               /\ trueData[r] \subseteq trueData'[r]
               /\ falseData[r] \subseteq falseData'[r] \cup trueData'[r]
  BY <1>2 DEF ForceDump, TypeOK
<1>3. ASSUME NEW p \in Runs,
             \/ Construct(p) \/ Load(p) \/ Sync(p) \/ ReadExisting(p)
             \/ Truncate(p) \/ Write(p) \/ Crash(p)
      PROVE  UNCHANGED <<trueData, falseData>>
  BY <1>3 DEF Construct, Load, Sync, ReadExisting, Truncate, Write, Crash, data
<1>4. ASSUME NEW p \in Runs, NEW d,
             \/ addDefect(p, d) \/ addNoDefect(p, d) \/ addNoAbsIntDefect(p, d)
      PROVE  \A r \in Runs :
               /\ trueData[r] \subseteq trueData'[r]
               /\ falseData[r] \subseteq falseData'[r] \cup trueData'[r]
  BY <1>4 DEF addDefect, addNoDefect, addNoAbsIntDefect, TypeOK
<1>5. ASSUME UNCHANGED vars PROVE UNCHANGED <<trueData, falseData>>
  BY <1>5 DEF vars, data
<1> QED
  BY <1>1, <1>2, <1>3, <1>4, <1>5
     DEF Next, Step, Filing, Finalize, Destroy, Checking, Check, Alias,
         CheckUndef, AbsIntRefutes

\* Hence the verdicts of all runs together only grow.
LEMMA VerdictsGrow ==
    ASSUME TypeOK, [Next]_vars
    PROVE  Found \subseteq Found' /\ Refuted \subseteq Refuted'
BY VerdictsStay DEF Found, Refuted

\* Every single run's verdicts are among them.
LEMMA VerdictsOf ==
    ASSUME NEW r \in Runs
    PROVE  /\ trueData[r] \subseteq Found
           /\ falseData[r] \subseteq Refuted
           /\ trueData[r] \subseteq Refuted
BY DEF Found, Refuted

\* Everything on its way to the file stays traceable.
LEMMA TraceableStep == TypeOK /\ Traceable /\ [Next]_vars => Traceable'
<1> SUFFICES ASSUME TypeOK, Traceable, [Next]_vars PROVE Traceable'
  OBVIOUS
<1> DEFINE Past(r) == /\ truePastData[r] \cup buf[r].t \subseteq Found
                      /\ falsePastData[r] \cup buf[r].f \subseteq Refuted
<1>1. Found \subseteq Found' /\ Refuted \subseteq Refuted'
  BY VerdictsGrow
<1>2. Provenance /\ \A r \in Runs : Past(r)
  BY DEF Traceable
<1>3. ASSUME UNCHANGED <<disk, past, buf>> PROVE Traceable'
  BY <1>1, <1>2, <1>3 DEF Traceable, Provenance, past
<1>4. ASSUME NEW p \in Runs, Load(p) PROVE Traceable'
  <2>1. disk' = disk /\ buf' = buf
    BY <1>4 DEF Load
  <2>2. truePastData'[p] = disk.t /\ falsePastData'[p] = disk.f
    BY <1>4 DEF Load, TypeOK
  <2>3. \A r \in Runs \ {p} : /\ truePastData'[r] = truePastData[r]
                             /\ falsePastData'[r] = falsePastData[r]
    BY <1>4 DEF Load, TypeOK
  <2> QED BY <1>1, <1>2, <2>1, <2>2, <2>3 DEF Traceable, Provenance
<1>5. ASSUME NEW p \in Runs, Sync(p) PROVE Traceable'
  <2>1. disk' = disk
    BY <1>5 DEF Sync
  <2>2. /\ buf'[p].t = truePastData[p] \cup trueData[p]
        /\ buf'[p].f \subseteq falsePastData[p] \cup falseData[p]
        /\ truePastData'[p] = {} /\ falsePastData'[p] = {}
    BY <1>5 DEF Sync, TypeOK
  <2>3. \A r \in Runs \ {p} : /\ truePastData'[r] = truePastData[r]
                             /\ falsePastData'[r] = falsePastData[r]
                             /\ buf'[r] = buf[r]
    BY <1>5 DEF Sync, TypeOK
  <2> QED BY <1>1, <1>2, <2>1, <2>2, <2>3, VerdictsOf DEF Traceable, Provenance
<1>6. ASSUME NEW p \in Runs, NEW operation, ForceDump(p, operation)
      PROVE  Traceable'
  <2>1. disk' = disk /\ past' = past
    BY <1>6 DEF ForceDump
  <2>2. /\ buf'[p].t = truePastData[p] \cup trueData[p]
        /\ buf'[p].f \subseteq falsePastData[p] \cup falseData[p]
    BY <1>6 DEF ForceDump, TypeOK
  <2>3. \A r \in Runs \ {p} : buf'[r] = buf[r]
    BY <1>6 DEF ForceDump, TypeOK
  <2> QED
    BY <1>1, <1>2, <2>1, <2>2, <2>3, VerdictsOf DEF Traceable, Provenance, past
<1>7. ASSUME NEW p \in Runs, ReadExisting(p) PROVE Traceable'
  <2>1. disk' = disk /\ past' = past
    BY <1>7 DEF ReadExisting
  <2>2. buf'[p].t = buf[p].t \cup disk.t /\ buf'[p].f = buf[p].f \cup disk.f
    BY <1>7 DEF ReadExisting, Join, Content, TypeOK
  <2>3. \A r \in Runs \ {p} : buf'[r] = buf[r]
    BY <1>7 DEF ReadExisting, TypeOK
  <2> QED
    BY <1>1, <1>2, <2>1, <2>2, <2>3 DEF Traceable, Provenance, past
<1>8. ASSUME NEW p \in Runs, Truncate(p) PROVE Traceable'
  BY <1>1, <1>2, <1>8 DEF Truncate, Unreadable, Traceable, Provenance, past
<1>9. ASSUME NEW p \in Runs, Write(p) PROVE Traceable'
  <2>1. disk'.t \subseteq buf[p].t /\ disk'.f \subseteq buf[p].f
    <3>1. disk' = File(buf[p]) \/ disk' = Unreadable
      BY <1>9 DEF Write, Overwrite
    <3> QED BY <3>1 DEF File, Unreadable
  <2>2. buf'[p].t = {} /\ buf'[p].f = {}
    BY <1>9 DEF Write, Empty, TypeOK
  <2>3. /\ truePastData'[p] \subseteq truePastData[p] \cup buf[p].t
        /\ falsePastData'[p] \subseteq falsePastData[p] \cup buf[p].f
    BY <1>9 DEF Write, TypeOK, past
  <2>4. \A r \in Runs \ {p} : /\ truePastData'[r] = truePastData[r]
                             /\ falsePastData'[r] = falsePastData[r]
                             /\ buf'[r] = buf[r]
    BY <1>9 DEF Write, TypeOK, past
  <2> QED BY <1>1, <1>2, <2>1, <2>2, <2>3, <2>4 DEF Traceable, Provenance
<1>10. ASSUME NEW p \in Runs, Locking(p) PROVE Traceable'
  BY <1>3, <1>10
     DEF Locking, LockOwned, LockShared, LockError, WaitForUnlock
<1>11. ASSUME NEW p \in Runs, Construct(p) \/ Crash(p) \/ Working(p)
       PROVE  Traceable'
  BY <1>3, <1>11 DEF Construct, Crash, Working
<1>12. ASSUME UNCHANGED vars PROVE Traceable'
  BY <1>3, <1>12 DEF vars
<1> QED
  BY <1>4, <1>5, <1>6, <1>7, <1>8, <1>9, <1>10, <1>11, <1>12
     DEF Next, Step, Filing, Finalize, Destroy, Checking, Check, Alias,
         CheckUndef, AbsIntRefutes

\* The file never lists a verdict that no run gave, for any number of crashes
\* and lock errors.
THEOREM NothingMadeUp == Spec => []Provenance
<1>1. Init => Traceable
  BY DEF Init, Traceable, Provenance, Unreadable, Empty
<1>2. TypeOK /\ Traceable /\ [Next]_vars => Traceable'
  BY TraceableStep
<1>3. Traceable => Provenance
  BY DEF Traceable
<1> QED BY <1>1, <1>2, <1>3, TypeCorrect, PTL DEF Spec

-----------------------------------------------------------------------------
(* The lock                                                                *)

\* What locked() and the order of steps in its bodies give as long as the lock
\* file manager reported no error, and what a file that cannot be read holds.
LockInv ==
    /\ ~disk.ok => disk = Unreadable
    /\ \A r \in Runs : pc[r] \in {"truncate", "write"} => op[r] # "load"
    /\ lockErrors = 0 =>
         \A r \in Runs :
           /\ pc[r] \in InBody => lock = r
           /\ pc[r] = "truncate" =>
                disk.t \subseteq buf[r].t /\ disk.f \subseteq buf[r].f
           /\ pc[r] = "write" => disk = Unreadable

\* A run that owns the lock is the only one in a body of locked().
LEMMA LockInvStep == TypeOK /\ LockInv /\ [Next]_vars => LockInv'
<1> SUFFICES ASSUME TypeOK, LockInv, [Next]_vars PROVE LockInv'
  OBVIOUS
<1> USE DEF InBody
<1>1. ASSUME UNCHANGED <<disk, lock, pc, op, buf, lockErrors>> PROVE LockInv'
  BY <1>1 DEF LockInv
<1>2. ASSUME NEW p \in Runs, LockOwned(p) PROVE LockInv'
  <2>1. /\ lock' = p /\ pc'[p] = "body" /\ pc[p] = "try"
        /\ \A r \in Runs \ {p} : pc'[r] = pc[r]
        /\ UNCHANGED <<disk, op, buf, lockErrors>>
    BY <1>2 DEF LockOwned, Goto, TypeOK, counters
  <2>2. lockErrors = 0 => \A r \in Runs : pc[r] \notin InBody
    BY <1>2 DEF LockOwned, Available, LockInv
  <2> QED BY <2>1, <2>2 DEF LockInv
<1>3. ASSUME NEW p \in Runs, LockShared(p) \/ WaitForUnlock(p) \/ Construct(p)
      PROVE  LockInv'
  <2>1. /\ pc'[p] \in {"try", "wait"}
        /\ \A r \in Runs \ {p} : pc'[r] = pc[r]
        /\ UNCHANGED <<disk, lock, buf, lockErrors>>
    BY <1>3 DEF LockShared, WaitForUnlock, Construct, Enter, Goto, TypeOK,
                counters
  <2>2. \A r \in Runs \ {p} : op'[r] = op[r]
    BY <1>3 DEF LockShared, WaitForUnlock, Construct, Enter, TypeOK
  <2> QED BY <2>1, <2>2 DEF LockInv
<1>4. ASSUME NEW p \in Runs, LockError(p) PROVE LockInv'
  <2>1. lockErrors' # 0
    BY <1>4 DEF LockError, TypeOK
  <2>2. /\ pc'[p] = "body"
        /\ \A r \in Runs \ {p} : pc'[r] = pc[r]
        /\ UNCHANGED <<disk, op, buf>>
    BY <1>4 DEF LockError, Goto, TypeOK
  <2> QED BY <2>1, <2>2 DEF LockInv
<1>5. ASSUME NEW p \in Runs, Load(p) PROVE LockInv'
  <2>1. /\ pc'[p] = "work" /\ pc[p] = "body"
        /\ lock' = (IF lock = p THEN NoRun ELSE lock)
        /\ \A r \in Runs \ {p} : pc'[r] = pc[r]
        /\ UNCHANGED <<disk, op, buf, lockErrors>>
    BY <1>5 DEF Load, Unlock, Goto, TypeOK, counters
  <2> QED BY <2>1 DEF LockInv
<1>6. ASSUME NEW p \in Runs, Sync(p) PROVE LockInv'
  <2>1. /\ pc'[p] = "try"
        /\ \A r \in Runs \ {p} :
             pc'[r] = pc[r] /\ op'[r] = op[r] /\ buf'[r] = buf[r]
        /\ UNCHANGED <<disk, lock, lockErrors>>
    BY <1>6 DEF Sync, Enter, Goto, TypeOK
  <2> QED BY <2>1 DEF LockInv
<1>7. ASSUME NEW p \in Runs, NEW operation, ForceDump(p, operation)
      PROVE  LockInv'
  <2>1. /\ pc'[p] = "try"
        /\ \A r \in Runs \ {p} :
             pc'[r] = pc[r] /\ op'[r] = op[r] /\ buf'[r] = buf[r]
        /\ UNCHANGED <<disk, lock, lockErrors>>
    BY <1>7 DEF ForceDump, Enter, Goto, TypeOK, counters
  <2> QED BY <2>1 DEF LockInv
<1>8. ASSUME NEW p \in Runs, ReadExisting(p) PROVE LockInv'
  <2>1. /\ pc'[p] = "truncate" /\ pc[p] = "body" /\ op[p] # "load"
        /\ \A r \in Runs \ {p} : pc'[r] = pc[r] /\ buf'[r] = buf[r]
        /\ UNCHANGED <<disk, lock, op, lockErrors>>
    BY <1>8 DEF ReadExisting, Goto, TypeOK, counters
  <2>2. disk.t \subseteq buf'[p].t /\ disk.f \subseteq buf'[p].f
    BY <1>8 DEF ReadExisting, Join, Content, TypeOK
  <2> QED BY <2>1, <2>2 DEF LockInv
<1>9. ASSUME NEW p \in Runs, Truncate(p) PROVE LockInv'
  <2>1. /\ pc'[p] = "write" /\ pc[p] = "truncate" /\ disk' = Unreadable
        /\ \A r \in Runs \ {p} : pc'[r] = pc[r]
        /\ UNCHANGED <<lock, op, buf, lockErrors>>
    BY <1>9 DEF Truncate, Goto, TypeOK, counters
  <2> QED BY <2>1 DEF LockInv
<1>10. ASSUME NEW p \in Runs, Write(p) PROVE LockInv'
  <2>1. /\ pc'[p] \in {"work", "final", "done"} /\ pc[p] = "write"
        /\ lock' = (IF lock = p THEN NoRun ELSE lock)
        /\ \A r \in Runs \ {p} : pc'[r] = pc[r] /\ buf'[r] = buf[r]
        /\ UNCHANGED <<op, lockErrors>>
    BY <1>10 DEF Write, After, Unlock, Goto, TypeOK, counters
  <2>2. ~disk'.ok => disk' = Unreadable
    BY <1>10 DEF Write, Overwrite, File
  <2>3. lockErrors = 0 => \A r \in Runs \ {p} : pc[r] \notin InBody
    BY <2>1 DEF LockInv
  <2> QED BY <2>1, <2>2, <2>3 DEF LockInv
<1>11. ASSUME NEW p \in Runs, Crash(p) PROVE LockInv'
  <2>1. /\ pc'[p] = "crashed"
        /\ \A r \in Runs \ {p} : pc'[r] = pc[r]
        /\ UNCHANGED <<disk, lock, op, buf, lockErrors>>
    BY <1>11 DEF Crash, Goto, TypeOK
  <2> QED BY <2>1 DEF LockInv
<1>12. ASSUME NEW p \in Runs, Working(p) PROVE LockInv'
  BY <1>1, <1>12 DEF Working, counters
<1>13. ASSUME UNCHANGED vars PROVE LockInv'
  BY <1>1, <1>13 DEF vars, counters
<1> QED
  BY <1>2, <1>3, <1>4, <1>5, <1>6, <1>7, <1>8, <1>9, <1>10, <1>11, <1>12, <1>13
     DEF Next, Step, Locking, Filing, Finalize, Destroy, Checking, Check, Alias,
         CheckUndef, AbsIntRefutes

\* The lock invariant holds throughout.
LEMMA LockInvariant == Spec => []LockInv
<1>1. Init => LockInv
  BY DEF Init, LockInv, InBody, Unreadable
<1>2. TypeOK /\ LockInv /\ [Next]_vars => LockInv'
  BY LockInvStep
<1> QED BY <1>1, <1>2, TypeCorrect, PTL DEF Spec

-----------------------------------------------------------------------------
(* The record                                                              *)

\* A step that touches neither the file nor the writer's locals, and that moves
\* no lock owner into or out of its write window, leaves the record alone.
LEMMA RecordUntouched ==
    ASSUME TypeOK, UNCHANGED <<disk, lock>>,
           \A r \in Runs :
             /\ pc'[r] = "write" <=> pc[r] = "write"
             /\ pc[r] = "write" => buf'[r] = buf[r]
    PROVE  Record' = Record
BY DEF Record, Content, TypeOK

\* Without lock errors every step lets the record grow or is a crash, which may
\* empty it.  The new contents count from the moment the file is truncated.
LEMMA RecordStep ==
    ASSUME TypeOK, LockInv, [Next]_vars, lockErrors' = 0
    PROVE  \/ /\ Record.t \subseteq Record'.t
              /\ Record.f \subseteq Record'.f
              /\ UNCHANGED crashes
           \/ /\ \E p \in Runs : Crash(p)
              /\ Record' \in {Record, Empty}
<1> DEFINE Grows == /\ Record.t \subseteq Record'.t
                    /\ Record.f \subseteq Record'.f
                    /\ UNCHANGED crashes
<1>1. ASSUME NEW p \in Runs, LockOwned(p) PROVE Grows
  <2>1. Record = Content(disk)
    BY <1>1 DEF LockOwned, Available, Record, TypeOK
  <2>2. Record' = Content(disk)
    BY <1>1 DEF LockOwned, Goto, Record, TypeOK, Content
  <2>3. UNCHANGED crashes
    BY <1>1 DEF LockOwned, counters
  <2> QED BY <2>1, <2>2, <2>3
<1>2. ASSUME NEW p \in Runs, LockError(p) PROVE FALSE
  BY <1>2 DEF LockError, TypeOK
<1>3. ASSUME NEW p \in Runs,
             LockShared(p) \/ WaitForUnlock(p) \/ Construct(p)
      PROVE  Grows
  <2>1. /\ UNCHANGED <<disk, lock, buf, crashes>>
        /\ pc[p] # "write" /\ pc'[p] # "write"
        /\ \A r \in Runs \ {p} : pc'[r] = pc[r]
    BY <1>3 DEF LockShared, WaitForUnlock, Construct, Enter, Goto, TypeOK,
                counters
  <2> QED BY <2>1, RecordUntouched
<1>4. ASSUME NEW p \in Runs, Load(p) PROVE Grows
  <2>1. lockErrors = 0
    BY <1>4 DEF Load, counters
  <2>2. lock = p /\ lock' = NoRun /\ pc[p] = "body"
    BY <1>4, <2>1 DEF Load, Unlock, LockInv, InBody
  <2>3. Record = Content(disk)
    BY <2>2 DEF Record
  <2>4. Record' = Content(disk)
    BY <1>4, <2>2 DEF Record, Load, Content
  <2>5. UNCHANGED crashes
    BY <1>4 DEF Load, counters
  <2> QED BY <2>3, <2>4, <2>5
<1>5. ASSUME NEW p \in Runs, NEW operation,
             \/ Sync(p)
             \/ ForceDump(p, operation) /\ pc[p] \in {"work", "final"}
      PROVE  Grows
  <2>1. /\ UNCHANGED <<disk, lock, crashes>>
        /\ pc[p] # "write" /\ pc'[p] # "write"
        /\ \A r \in Runs \ {p} : pc'[r] = pc[r] /\ buf'[r] = buf[r]
    BY <1>5 DEF Sync, ForceDump, Enter, Goto, TypeOK, counters
  <2> QED BY <2>1, RecordUntouched
<1>6. ASSUME NEW p \in Runs, ReadExisting(p) PROVE Grows
  <2>1. /\ UNCHANGED <<disk, lock, crashes>>
        /\ pc[p] # "write" /\ pc'[p] # "write"
        /\ \A r \in Runs \ {p} : pc'[r] = pc[r] /\ buf'[r] = buf[r]
    BY <1>6 DEF ReadExisting, Goto, TypeOK, counters
  <2> QED BY <2>1, RecordUntouched
<1>7. ASSUME NEW p \in Runs, Truncate(p) PROVE Grows
  <2>1. lockErrors = 0 /\ UNCHANGED <<lock, buf, crashes>>
    BY <1>7 DEF Truncate, counters
  <2>2. pc[p] = "truncate" /\ pc'[p] = "write"
    BY <1>7 DEF Truncate, Goto, TypeOK
  <2>3. lock = p /\ disk.t \subseteq buf[p].t /\ disk.f \subseteq buf[p].f
    BY <2>1, <2>2 DEF LockInv, InBody
  <2>4. Record = Content(disk) /\ Record' = buf[p]
    BY <2>1, <2>2, <2>3, NoRunAssumption DEF Record
  <2> QED BY <2>1, <2>3, <2>4 DEF Content
<1>8. ASSUME NEW p \in Runs, Write(p) PROVE Grows
  <2>1. lockErrors = 0 /\ UNCHANGED crashes /\ pc[p] = "write"
    BY <1>8 DEF Write, counters
  <2>2. lock = p /\ disk = Unreadable
    BY <2>1 DEF LockInv, InBody
  <2>3. disk' = File(buf[p]) /\ lock' = NoRun
    BY <1>8, <2>2 DEF Write, Unlock, Overwrite, Unreadable
  <2>4. Record = buf[p]
    BY <2>1, <2>2, NoRunAssumption DEF Record
  <2>5. Record'.t = buf[p].t /\ Record'.f = buf[p].f
    BY <2>3 DEF Record, Content, File
  <2> QED BY <2>1, <2>4, <2>5
<1>9. ASSUME NEW p \in Runs, Crash(p) PROVE Record' \in {Record, Empty}
  <2>1. /\ UNCHANGED <<disk, lock, buf, lockErrors>> /\ pc'[p] = "crashed"
        /\ \A r \in Runs \ {p} : pc'[r] = pc[r]
    BY <1>9 DEF Crash, Goto, TypeOK
  <2>2. CASE pc[p] = "write" /\ lock = p
    <3>1. disk = Unreadable
      BY <2>1, <2>2 DEF LockInv
    <3>2. Record' = Content(disk)
      BY <2>1, <2>2 DEF Record, Content
    <3> QED BY <3>1, <3>2 DEF Content, Unreadable, Empty
  <2>3. CASE ~(pc[p] = "write" /\ lock = p)
    <3>1. (lock # NoRun /\ pc'[lock] = "write")
             <=> (lock # NoRun /\ pc[lock] = "write")
      BY <2>1, <2>3 DEF TypeOK
    <3> QED BY <2>1, <3>1 DEF Record, Content
  <2> QED BY <2>2, <2>3
<1>10. ASSUME NEW p \in Runs, Working(p) PROVE Grows
  <2>1. UNCHANGED <<disk, lock, pc, buf, crashes>>
    BY <1>10 DEF Working, counters
  <2> QED BY <2>1, RecordUntouched
<1>11. ASSUME UNCHANGED vars PROVE Grows
  <2>1. UNCHANGED <<disk, lock, pc, buf, crashes>>
    BY <1>11 DEF vars, counters
  <2> QED BY <2>1, RecordUntouched
<1> QED
  BY <1>1, <1>2, <1>3, <1>4, <1>5, <1>6, <1>7, <1>8, <1>9, <1>10, <1>11
     DEF Next, Step, Locking, Filing, Finalize, Destroy, Checking, Check, Alias,
         CheckUndef, AbsIntRefutes

\* As long as the lock file manager never answers LFS_Error, any number of runs
\* merging their verdicts implement a record that only a crash can empty.
THEOREM RunsKeepARecord ==
    ASSUME MaxLockErrors = 0
    PROVE  Spec => ImplementsRecord
<1>1. Init => Recorded!RecordInit
  BY DEF Init, Recorded!RecordInit, Recorded!Nothing, Record, Content, Unreadable
<1>2. TypeOK /\ TypeOK' /\ LockInv /\ [Next]_vars
        => [Recorded!RecordNext]_(Recorded!recordVars)
  <2> SUFFICES ASSUME TypeOK, TypeOK', LockInv, [Next]_vars
               PROVE  Recorded!RecordNext
    OBVIOUS
  <2>1. lockErrors' = 0
    BY DEF TypeOK
  <2>2. CASE /\ Record.t \subseteq Record'.t
             /\ Record.f \subseteq Record'.f
             /\ UNCHANGED crashes
    <3>1. Record' \in Pairs
      BY DEF Record, Content, TypeOK, Pairs
    <3> QED BY <2>2, <3>1 DEF Recorded!RecordNext, Recorded!Publish, Pairs
  <2>3. ASSUME NEW p \in Runs, Crash(p), Record' \in {Record, Empty}
        PROVE  Recorded!RecordNext
    BY <2>3 DEF Crash, Recorded!RecordNext, Recorded!Lose, Recorded!Nothing, Empty
  <2> QED BY <2>1, <2>2, <2>3, RecordStep
<1> QED
  BY <1>1, <1>2, TypeCorrect, LockInvariant, PTL
     DEF Spec, ImplementsRecord, Recorded!RecordSpec

-----------------------------------------------------------------------------
(* What a finished run leaves behind                                       *)

\* From forceDump on, the locals tpd and fpd of a run cover its own verdicts.
Dumping(r) ==
    /\ op[r] \in {"finalize", "destroy"}
    /\ pc[r] \in {"try", "wait", "body", "truncate", "write"}

DumpInv ==
    \A r \in Runs :
      Dumping(r) => trueData[r] \subseteq buf[r].t /\ falseData[r] \subseteq buf[r].f

\* A step of one run leaves alone what belongs to another, and finished runs
\* take no step.
LEMMA OthersUntouched ==
    ASSUME TypeOK, NEW p \in Runs, Step(p) \/ Crash(p), NEW r \in Runs, r # p
    PROVE  /\ pc'[r] = pc[r] /\ op'[r] = op[r] /\ buf'[r] = buf[r]
           /\ trueData'[r] = trueData[r] /\ falseData'[r] = falseData[r]
<1>1. CASE Locking(p)
  BY <1>1 DEF Locking, LockOwned, LockShared, LockError, WaitForUnlock, Goto,
              TypeOK, data
<1>2. CASE Construct(p) \/ Load(p) \/ Sync(p)
  BY <1>2 DEF Construct, Load, Sync, Enter, Goto, TypeOK, data
<1>3. CASE \E operation : ForceDump(p, operation)
  BY <1>3 DEF ForceDump, Enter, Goto, TypeOK
<1>4. CASE ReadExisting(p) \/ Truncate(p) \/ Write(p)
  BY <1>4 DEF ReadExisting, Truncate, Write, Goto, TypeOK, data
<1>5. CASE Crash(p)
  BY <1>5 DEF Crash, Goto, TypeOK, data
<1>6. CASE /\ Working(p)
           /\ \E d : addDefect(p, d) \/ addNoDefect(p, d) \/ addNoAbsIntDefect(p, d)
  BY <1>6 DEF Working, addDefect, addNoDefect, addNoAbsIntDefect, TypeOK
<1> QED
  BY <1>1, <1>2, <1>3, <1>4, <1>5, <1>6
     DEF Step, Filing, Finalize, Destroy, Checking, Check, Alias, CheckUndef,
         AbsIntRefutes

\* Merging and waiting never take from tpd and fpd.
LEMMA DumpInvStep == TypeOK /\ DumpInv /\ [Next]_vars => DumpInv'
<1> SUFFICES ASSUME TypeOK, DumpInv, [Next]_vars, NEW r \in Runs, Dumping(r)'
             PROVE  trueData'[r] \subseteq buf'[r].t /\ falseData'[r] \subseteq buf'[r].f
  BY DEF DumpInv
<1>1. ASSUME NEW p \in Runs, Step(p) \/ Crash(p), p # r
      PROVE  /\ trueData'[r] \subseteq buf'[r].t
             /\ falseData'[r] \subseteq buf'[r].f
  BY <1>1, OthersUntouched DEF DumpInv, Dumping
<1>2. CASE Locking(r)
  BY <1>2 DEF Locking, LockOwned, LockShared, LockError, WaitForUnlock, Goto,
              TypeOK, data, DumpInv, Dumping
<1>3. CASE Construct(r) \/ Load(r) \/ Sync(r) \/ Write(r) \/ Crash(r)
  BY <1>3 DEF Construct, Load, Sync, Write, Crash, After, Enter, Goto, TypeOK,
              Dumping
<1>4. CASE \E operation : ForceDump(r, operation)
  BY <1>4 DEF ForceDump, TypeOK
<1>5. CASE ReadExisting(r)
  BY <1>5 DEF ReadExisting, Join, Content, TypeOK, data, DumpInv, Dumping
<1>6. CASE Truncate(r)
  BY <1>6 DEF Truncate, Goto, TypeOK, data, DumpInv, Dumping
<1>7. CASE Working(r)
  BY <1>7 DEF Working, Dumping
<1>8. CASE UNCHANGED vars
  BY <1>8 DEF vars, data, DumpInv, Dumping
<1> QED
  BY <1>1, <1>2, <1>3, <1>4, <1>5, <1>6, <1>7, <1>8
     DEF Next, Step, Filing, Finalize, Destroy, Checking, Check, Alias,
         CheckUndef, AbsIntRefutes

\* A run can only reach "done" by the write of its last dump.
LEMMA FinishedStep ==
    ASSUME TypeOK, LockInv, DumpInv, FinishedIsRecorded, [Next]_vars
    PROVE  FinishedIsRecorded'
<1> SUFFICES ASSUME crashes' = 0, lockErrors' = 0, NEW r \in Runs,
                    pc'[r] = "done"
             PROVE  /\ trueData'[r] \subseteq Record'.t
                    /\ falseData'[r] \subseteq Record'.f
  BY DEF FinishedIsRecorded
<1>1. CASE UNCHANGED vars
  <2>1. Record' = Record
    BY <1>1 DEF vars, Record, Content
  <2> QED BY <1>1, <2>1 DEF vars, data, counters, FinishedIsRecorded
<1>2. ASSUME NEW p \in Runs, Step(p) \/ Crash(p), pc[r] = "done"
      PROVE  /\ trueData'[r] \subseteq Record'.t
             /\ falseData'[r] \subseteq Record'.f
  <2>1. p # r
    BY <1>2 DEF Step, Locking, LockOwned, LockShared, LockError, WaitForUnlock,
                Filing, Construct, Load, Sync, Finalize, Destroy, ReadExisting,
                Truncate, Write, Checking, Check, Alias, CheckUndef,
                AbsIntRefutes, Working, Crash
  <2>2. trueData'[r] = trueData[r] /\ falseData'[r] = falseData[r]
    BY <1>2, <2>1, OthersUntouched
  <2>3. \A q \in Runs : ~Crash(q)
    BY DEF Crash, TypeOK
  <2>4. /\ Record.t \subseteq Record'.t /\ Record.f \subseteq Record'.f
        /\ crashes = 0
    BY <2>3, RecordStep
  <2>5. lockErrors = 0
    BY <1>2 DEF Step, Locking, LockOwned, LockShared, LockError, WaitForUnlock,
                Filing, Construct, Load, Sync, Finalize, Destroy, ForceDump,
                ReadExisting, Truncate, Write, Checking, Check, Alias,
                CheckUndef, AbsIntRefutes, Working, Crash, counters, TypeOK
  <2> QED BY <1>2, <2>2, <2>4, <2>5 DEF FinishedIsRecorded
<1>3. ASSUME Step(r) \/ Crash(r), pc[r] # "done"
      PROVE  /\ trueData'[r] \subseteq Record'.t
             /\ falseData'[r] \subseteq Record'.f
  <2>1. Write(r)
    BY <1>3 DEF Step, Locking, LockOwned, LockShared, LockError, WaitForUnlock,
                Filing, Construct, Load, Sync, Finalize, Destroy, ForceDump,
                Enter, Goto, ReadExisting, Truncate, Checking, Check, Alias,
                CheckUndef, AbsIntRefutes, Working, Crash, TypeOK
  <2>2. op[r] \notin {"sync", "finalize"}
    BY <2>1 DEF Write, After, Goto, TypeOK
  <2>3. lockErrors = 0 /\ pc[r] = "write"
    BY <2>1 DEF Write, counters
  <2>4. op[r] = "destroy"
    BY <2>2, <2>3 DEF LockInv, TypeOK, Operations
  <2>5. trueData[r] \subseteq buf[r].t /\ falseData[r] \subseteq buf[r].f
    BY <2>3, <2>4 DEF DumpInv, Dumping
  <2>6. lock = r /\ disk = Unreadable
    BY <2>3 DEF LockInv, InBody
  <2>7. disk' = File(buf[r]) /\ lock' = NoRun
    BY <2>1, <2>6 DEF Write, Unlock, Overwrite, Unreadable
  <2>8. Record'.t = buf[r].t /\ Record'.f = buf[r].f
    BY <2>7 DEF Record, Content, File
  <2>9. trueData' = trueData /\ falseData' = falseData
    BY <2>1 DEF Write, data
  <2> QED BY <2>5, <2>8, <2>9
<1>4. ASSUME NEW p \in Runs, Step(p) \/ Crash(p), p # r PROVE pc[r] = "done"
  BY <1>4, OthersUntouched
<1> QED BY <1>1, <1>2, <1>3, <1>4 DEF Next

\* Without crashes and lock errors, whatever a finished run found is in the
\* record for good, whichever runs rewrite the file after it.
THEOREM FinishedForGood == Spec => []FinishedIsRecorded
<1>1. Init => DumpInv /\ FinishedIsRecorded
  BY DEF Init, DumpInv, Dumping, FinishedIsRecorded
<1>2. TypeOK /\ LockInv /\ DumpInv /\ FinishedIsRecorded /\ [Next]_vars
        => DumpInv' /\ FinishedIsRecorded'
  BY DumpInvStep, FinishedStep
<1> QED BY <1>1, <1>2, TypeCorrect, LockInvariant, PTL DEF Spec

-----------------------------------------------------------------------------
(* A single run among others: it never contradicts itself on disk, and never *)
(* forgets what it skips.                                                    *)

\* Where locked() is waiting or running.
Locked == {"try", "wait", "body", "truncate", "write"}

-----------------------------------------------------------------------------
(* Skipping                                                                *)

\* A run has a past or locals only where the code does: nothing before it has
\* loaded, no locals while it works, and no past while it syncs.
Carried ==
    \A r \in Runs :
      /\ pc[r] = "new" => op[r] = "load"
      /\ pc[r] = "work" => op[r] \in {"load", "sync"} /\ buf[r] = Empty
      /\ op[r] = "load" /\ pc[r] \in {"new"} \cup Locked =>
           truePastData[r] = {} /\ falsePastData[r] = {} /\ buf[r] = Empty
      /\ op[r] = "sync" /\ pc[r] \in Locked =>
           truePastData[r] = {} /\ falsePastData[r] = {}

\* A step of one run leaves alone what another one carries.
LEMMA OthersCarry ==
    ASSUME TypeOK, NEW p \in Runs, Step(p) \/ Crash(p), NEW r \in Runs, r # p
    PROVE  /\ truePastData'[r] = truePastData[r]
           /\ falsePastData'[r] = falsePastData[r]
           /\ falseAbsIntData'[r] = falseAbsIntData[r]
<1>1. CASE Locking(p) \/ Crash(p)
  BY <1>1 DEF Locking, LockOwned, LockShared, LockError, WaitForUnlock, Crash,
              past, data
<1>2. CASE Filing(p)
  <2>1. CASE \E operation : ForceDump(p, operation)
    BY <2>1 DEF ForceDump, past
  <2>2. CASE Construct(p) \/ Load(p) \/ Sync(p)
    BY <2>2 DEF Construct, Load, Sync, past, data, TypeOK
  <2>3. CASE ReadExisting(p) \/ Truncate(p) \/ Write(p)
    BY <2>3 DEF ReadExisting, Truncate, Write, past, data, TypeOK
  <2> QED BY <1>2, <2>1, <2>2, <2>3 DEF Filing, Finalize, Destroy
<1>3. CASE Checking(p)
  <2>1. past' = past
    BY <1>3 DEF Checking, Check, Alias, CheckUndef, AbsIntRefutes, Working
  <2>2. \/ falseAbsIntData' = falseAbsIntData
        \/ \E d : falseAbsIntData' = [falseAbsIntData EXCEPT ![p] = @ \cup {d}]
    BY <1>3 DEF Checking, Check, Alias, CheckUndef, AbsIntRefutes, addDefect,
                addNoDefect, addNoAbsIntDefect
  <2> QED BY <2>1, <2>2 DEF past, TypeOK
<1> QED BY <1>1, <1>2, <1>3 DEF Step

\* What a run's own steps do to what it carries.
LEMMA CarriedStep == TypeOK /\ LockInv /\ Carried /\ [Next]_vars => Carried'
<1> SUFFICES ASSUME TypeOK, LockInv, Carried, [Next]_vars PROVE Carried'
  OBVIOUS
<1> DEFINE Carries(r) ==
      /\ pc[r] = "new" => op[r] = "load"
      /\ pc[r] = "work" => op[r] \in {"load", "sync"} /\ buf[r] = Empty
      /\ op[r] = "load" /\ pc[r] \in {"new"} \cup Locked =>
           truePastData[r] = {} /\ falsePastData[r] = {} /\ buf[r] = Empty
      /\ op[r] = "sync" /\ pc[r] \in Locked =>
           truePastData[r] = {} /\ falsePastData[r] = {}
<1> USE DEF Locked
<1>1. ASSUME NEW p \in Runs, Step(p) \/ Crash(p), NEW r \in Runs, r # p
      PROVE  Carries(r)'
  <2>1. /\ pc'[r] = pc[r] /\ op'[r] = op[r] /\ buf'[r] = buf[r]
        /\ truePastData'[r] = truePastData[r]
        /\ falsePastData'[r] = falsePastData[r]
    BY <1>1, OthersUntouched, OthersCarry
  <2> QED BY <2>1 DEF Carried
<1>2. ASSUME NEW r \in Runs, Step(r) \/ Crash(r) PROVE Carries(r)'
  <2>1. CASE Locking(r)
    BY <2>1 DEF Locking, LockOwned, LockShared, LockError, WaitForUnlock, Goto,
                TypeOK, past, Carried
  <2>2. CASE Construct(r)
    BY <2>2 DEF Construct, Enter, Goto, TypeOK, past, Carried
  <2>3. CASE Load(r)
    BY <2>3 DEF Load, Goto, TypeOK, Carried
  <2>4. CASE Sync(r)
    BY <2>4 DEF Sync, Enter, Goto, TypeOK
  <2>5. CASE Finalize(r) \/ Destroy(r)
    BY <2>5 DEF Finalize, Destroy, ForceDump, Enter, Goto, TypeOK
  <2>6. CASE ReadExisting(r)
    BY <2>6 DEF ReadExisting, Goto, TypeOK, past, Carried
  <2>7. CASE Truncate(r)
    BY <2>7 DEF Truncate, Goto, TypeOK, past, Carried, LockInv
  <2>8. CASE Write(r)
    <3>1. pc'[r] = After(op[r]) /\ op'[r] = op[r] /\ buf'[r] = Empty
      BY <2>8 DEF Write, Goto, TypeOK
    <3>2. op[r] # "load"
      BY <2>8 DEF Write, LockInv
    <3> QED BY <3>1, <3>2 DEF After, TypeOK, Operations
  <2>9. CASE Crash(r)
    BY <2>9 DEF Crash, Goto, TypeOK
  <2>10. CASE Checking(r)
    BY <2>10 DEF Checking, Check, Alias, CheckUndef, AbsIntRefutes, Working,
                 past, Carried
  <2> QED
    BY <1>2, <2>1, <2>2, <2>3, <2>4, <2>5, <2>6, <2>7, <2>8, <2>9, <2>10
       DEF Step, Filing
<1>3. CASE UNCHANGED vars
  BY <1>3 DEF vars, past, Carried
<1> QED BY <1>1, <1>2, <1>3 DEF Next, Carried

\* What a run carries is as Carried says throughout.
LEMMA CarriedInvariant == Spec => []Carried
<1>1. Init => Carried
  BY DEF Init, Carried, Locked
<1> QED BY <1>1, CarriedStep, TypeCorrect, LockInvariant, PTL DEF Spec

\* A run that is still at work, or syncs, keeps what it knows through a step of
\* its own.
LEMMA KnownStays ==
    ASSUME TypeOK, LockInv, Carried, NEW r \in Runs, Step(r) \/ Crash(r),
           pc[r] \in {"new", "work"} \cup Locked, op[r] \in {"load", "sync"}
    PROVE  Known(r) \subseteq Known(r)'
<1> USE DEF Known
<1>1. CASE Locking(r) \/ Construct(r) \/ Truncate(r) \/ Crash(r)
  BY <1>1 DEF Locking, LockOwned, LockShared, LockError, WaitForUnlock,
              Construct, Truncate, Crash, past, data
<1>2. CASE Load(r)
  <2>1. truePastData[r] = {} /\ falsePastData[r] = {} /\ buf[r] = Empty
    BY <1>2 DEF Load, Carried, Locked
  <2> QED BY <1>2, <2>1 DEF Load, Empty, data
<1>3. CASE Sync(r)
  <2>1. buf[r] = Empty
    BY <1>3 DEF Sync, Carried
  <2>2. /\ buf'[r].t = truePastData[r] \cup trueData[r]
        /\ falsePastData[r] \subseteq buf'[r].t \cup buf'[r].f
    BY <1>3 DEF Sync, TypeOK
  <2> QED BY <1>3, <2>1, <2>2 DEF Sync, Empty, data
<1>4. CASE Finalize(r)
  <2>1. buf[r] = Empty
    BY <1>4 DEF Finalize, Carried
  <2> QED BY <1>4, <2>1 DEF Finalize, ForceDump, Empty, past
<1>5. CASE ReadExisting(r)
  <2>1. buf[r].t \subseteq buf'[r].t /\ buf[r].f \subseteq buf'[r].f
    BY <1>5 DEF ReadExisting, Join, TypeOK
  <2> QED BY <1>5, <2>1 DEF ReadExisting, past, data
<1>6. CASE Write(r)
  <2>1. op[r] = "sync" /\ truePastData[r] = {} /\ falsePastData[r] = {}
    BY <1>6 DEF Write, LockInv, Carried, Locked
  <2>2. truePastData'[r] = buf[r].t /\ falsePastData'[r] = buf[r].f
    BY <1>6, <2>1 DEF Write, TypeOK
  <2> QED BY <1>6, <2>1, <2>2 DEF Write, data
<1>7. CASE Checking(r)
  <2>1. UNCHANGED <<truePastData, falsePastData, buf>>
    BY <1>7 DEF Checking, Check, Alias, CheckUndef, AbsIntRefutes, Working, past
  <2>2. \E d : \/ addDefect(r, d) \/ addNoDefect(r, d) \/ addNoAbsIntDefect(r, d)
    BY <1>7 DEF Checking, Check, Alias, CheckUndef, AbsIntRefutes
  <2>3. /\ trueData[r] \subseteq trueData'[r]
        /\ falseAbsIntData[r] \subseteq falseAbsIntData'[r]
    BY <2>2 DEF addDefect, addNoDefect, addNoAbsIntDefect, TypeOK
  <2> QED BY <2>1, <2>3
<1>8. ~Destroy(r)
  BY DEF Destroy, Locked
<1> QED
  BY <1>1, <1>2, <1>3, <1>4, <1>5, <1>6, <1>7, <1>8 DEF Step, Filing

\* A locus that a run would skip it will skip as long as it works, for any
\* number of syncs that move the past away and back.
THEOREM SkippingIsForGood == Spec => SkipsForGood
<1> DEFINE Keeps == \A r \in Runs :
      pc[r] \in {"new", "work", "try", "wait", "body", "truncate", "write"}
         /\ op[r] \in {"load", "sync"} => Known(r) \subseteq Known(r)'
<1>1. TypeOK /\ LockInv /\ Carried /\ [Next]_vars => [Keeps]_vars
  <2> SUFFICES ASSUME TypeOK, LockInv, Carried, Next,
                      NEW r \in Runs,
                      pc[r] \in {"new", "work"} \cup Locked,
                      op[r] \in {"load", "sync"}
               PROVE  Known(r) \subseteq Known(r)'
    BY DEF Locked
  <2>1. PICK p \in Runs : Step(p) \/ Crash(p)
    BY DEF Next
  <2>2. CASE p = r
    BY <2>1, <2>2, KnownStays
  <2>3. CASE p # r
    BY <2>1, <2>3, OthersUntouched, OthersCarry DEF Known
  <2> QED BY <2>2, <2>3
<1> QED
  BY <1>1, TypeCorrect, LockInvariant, CarriedInvariant, PTL DEF Spec, SkipsForGood

-----------------------------------------------------------------------------
(* Contradictions                                                          *)

\* Run q itself refuted d, did not find it defective, and never will: it has
\* told the file, and so knows d whenever it works.
Settled(q, d) ==
    /\ d \in falseData[q] \ trueData[q]
    /\ pc[q] # "new"
    /\ pc[q] = "work" => d \in truePastData[q] \cup falsePastData[q]
    /\ pc[q] \in Locked => /\ op[q] # "load"
                           /\ op[q] = "sync" => d \in buf[q].t \cup buf[q].f

RefutedBySome(d) == \E q \in Runs : Settled(q, d)

\* Undefined values are never refuted, and whatever is on its way to the list
\* of refuted loci was settled by some run.
RefutationInv ==
    /\ \A r \in Runs : falseData[r] \cap UndefDefects = {}
    /\ \A d \in disk.f : RefutedBySome(d)
    /\ \A r \in Runs : \A d \in falsePastData[r] \cup buf[r].f : RefutedBySome(d)

\* Settled is settled.
LEMMA SettledStays ==
    ASSUME TypeOK, LockInv, RefutationInv, [Next]_vars,
           NEW q \in Runs, NEW d, Settled(q, d)
    PROVE  Settled(q, d)'
<1>1. ASSUME NEW p \in Runs, Step(p) \/ Crash(p), p # q PROVE Settled(q, d)'
  <2>1. /\ pc'[q] = pc[q] /\ op'[q] = op[q] /\ buf'[q] = buf[q]
        /\ trueData'[q] = trueData[q] /\ falseData'[q] = falseData[q]
        /\ truePastData'[q] = truePastData[q]
        /\ falsePastData'[q] = falsePastData[q]
    BY <1>1, OthersUntouched, OthersCarry
  <2> QED BY <2>1 DEF Settled
<1>2. CASE Locking(q) \/ Truncate(q) \/ Crash(q)
  <2>1. UNCHANGED <<op, trueData, falseData, truePastData, falsePastData, buf>>
    BY <1>2 DEF Locking, LockOwned, LockShared, LockError, WaitForUnlock,
                Truncate, Crash, past, data
  <2>2. \/ pc[q] \in Locked /\ pc'[q] \in Locked
        \/ pc'[q] = "crashed"
    BY <1>2 DEF Locking, LockOwned, LockShared, LockError, WaitForUnlock,
                Truncate, Crash, Goto, TypeOK, Locked
  <2> QED BY <2>1, <2>2 DEF Settled, Locked
<1>3. CASE Construct(q) \/ Load(q)
  BY <1>3 DEF Construct, Load, Settled, Locked
<1>4. CASE Sync(q)
  <2>1. /\ UNCHANGED <<trueData, falseData>>
        /\ op'[q] = "sync" /\ pc'[q] = "try"
        /\ truePastData[q] \cup falsePastData[q] \subseteq buf'[q].t \cup buf'[q].f
    BY <1>4 DEF Sync, Enter, Goto, TypeOK, data
  <2> QED BY <1>4, <2>1 DEF Sync, Settled, Locked
<1>5. CASE Finalize(q) \/ Destroy(q)
  <2>1. /\ trueData' = trueData /\ falseData'[q] = falseData[q] \ trueData[q]
        /\ op'[q] \in {"finalize", "destroy"} /\ pc'[q] = "try"
    BY <1>5 DEF Finalize, Destroy, ForceDump, Enter, Goto, TypeOK
  <2> QED BY <2>1 DEF Settled, Locked
<1>6. CASE ReadExisting(q)
  <2>1. /\ UNCHANGED <<op, trueData, falseData>>
        /\ pc[q] = "body" /\ pc'[q] = "truncate"
        /\ buf[q].t \subseteq buf'[q].t /\ buf[q].f \subseteq buf'[q].f
    BY <1>6 DEF ReadExisting, Goto, Join, TypeOK, data
  <2> QED BY <2>1 DEF Settled, Locked
<1>7. CASE Write(q)
  <2>1. UNCHANGED <<op, trueData, falseData>> /\ pc[q] = "write"
    BY <1>7 DEF Write, data
  <2>2. CASE op[q] = "sync"
    <3>1. /\ pc'[q] = "work"
          /\ truePastData'[q] = buf[q].t /\ falsePastData'[q] = buf[q].f
      BY <1>7, <2>2 DEF Write, After, Goto, TypeOK
    <3> QED BY <2>1, <2>2, <3>1 DEF Settled, Locked
  <2>3. CASE op[q] # "sync"
    <3>1. pc'[q] \in {"final", "done"}
      BY <1>7, <2>3 DEF Write, After, Goto, TypeOK
    <3> QED BY <2>1, <3>1 DEF Settled, Locked
  <2> QED BY <2>2, <2>3
<1>8. CASE Checking(q)
  <2>1. pc[q] = "work" /\ UNCHANGED <<pc, op, truePastData, falsePastData, buf>>
    BY <1>8 DEF Checking, Check, Alias, CheckUndef, AbsIntRefutes, Working, past
  <2>2. d \notin UndefDefects
    BY DEF Settled, RefutationInv
  <2>3. d \in falseData'[q] /\ d \notin trueData'[q]
    <3>1. ASSUME NEW e, addDefect(q, e), e # d
          PROVE  d \in falseData'[q] /\ d \notin trueData'[q]
      BY <3>1 DEF addDefect, Settled, TypeOK
    <3>2. ASSUME NEW e, addNoDefect(q, e) \/ addNoAbsIntDefect(q, e)
          PROVE  d \in falseData'[q] /\ d \notin trueData'[q]
      BY <3>2 DEF addNoDefect, addNoAbsIntDefect, Settled, TypeOK
    <3>3. d \in truePastData[q] \cup falsePastData[q]
      BY <2>1 DEF Settled
    <3>4. ASSUME NEW e, ~hasInfo(q, e) PROVE e # d
      BY <3>3, <3>4 DEF hasInfo
    <3> QED
      BY <1>8, <2>2, <3>1, <3>2, <3>4
         DEF Checking, Check, Alias, CheckUndef, AbsIntRefutes
  <2> QED BY <2>1, <2>3 DEF Settled, Locked
<1>9. CASE UNCHANGED vars
  BY <1>9 DEF vars, past, data, Settled
<1> QED
  BY <1>1, <1>2, <1>3, <1>4, <1>5, <1>6, <1>7, <1>8, <1>9
     DEF Next, Step, Filing

\* Only what some run has settled gets on its way to the list of refuted loci.
LEMMA RefutationStep ==
    ASSUME TypeOK, LockInv, Carried, RefutationInv, [Next]_vars
    PROVE  RefutationInv'
<1>1. ASSUME NEW d, RefutedBySome(d) PROVE RefutedBySome(d)'
  BY <1>1, SettledStays DEF RefutedBySome
<1> DEFINE Sources == disk.f \cup UNION {falsePastData[r] \cup buf[r].f : r \in Runs}
<1>2. \A d \in Sources : RefutedBySome(d)'
  BY <1>1 DEF RefutationInv
<1> DEFINE NoneUndef == \A r \in Runs : falseData'[r] \cap UndefDefects = {}
<1>3. NoneUndef
  <2>1. ASSUME NEW p \in Runs, Checking(p) PROVE NoneUndef
    <3>1. CASE falseData' = falseData
      BY <3>1 DEF RefutationInv
    <3>2. CASE \E d \in Defects \ UndefDefects :
                 falseData' = [falseData EXCEPT ![p] = @ \cup {d}]
      BY <3>2 DEF RefutationInv, TypeOK
    <3> QED
      BY <2>1, <3>1, <3>2 DEF Checking, Check, Alias, CheckUndef, AbsIntRefutes,
                              addDefect, addNoDefect, addNoAbsIntDefect
  <2>2. ASSUME NEW p \in Runs, NEW operation, ForceDump(p, operation) PROVE NoneUndef
    BY <2>2 DEF ForceDump, RefutationInv, TypeOK
  <2>3. ASSUME falseData' = falseData PROVE NoneUndef
    BY <2>3 DEF RefutationInv
  <2> QED
    BY <2>1, <2>2, <2>3
       DEF Next, Step, Filing, Finalize, Destroy, Locking, LockOwned, LockShared,
           LockError, WaitForUnlock, Construct, Load, Sync, ReadExisting,
           Truncate, Write, Crash, vars, data
<1>4. ASSUME disk'.f \subseteq Sources,
             \A r \in Runs : falsePastData'[r] \cup buf'[r].f \subseteq Sources
      PROVE  RefutationInv'
  BY <1>2, <1>3, <1>4 DEF RefutationInv
<1>5. ASSUME UNCHANGED <<disk, past, buf>> PROVE RefutationInv'
  BY <1>4, <1>5 DEF past
<1>6. ASSUME NEW p \in Runs, Load(p) PROVE RefutationInv'
  <2>1. \A r \in Runs : falsePastData'[r] \in {falsePastData[r], disk.f}
    BY <1>6 DEF Load, TypeOK
  <2> QED BY <1>4, <1>6, <2>1 DEF Load
<1>7. ASSUME NEW p \in Runs, Sync(p) PROVE RefutationInv'
  <2>1. /\ disk' = disk /\ falseData' = falseData /\ trueData' = trueData
        /\ pc'[p] = "try" /\ op'[p] = "sync"
        /\ buf'[p].t = truePastData[p] \cup trueData[p]
        /\ buf'[p].f = (falsePastData[p] \cup falseData[p]) \ buf'[p].t
    BY <1>7 DEF Sync, Enter, Goto, TypeOK, data
  <2>2. \A r \in Runs : falsePastData'[r] \subseteq falsePastData[r]
    BY <1>7 DEF Sync, TypeOK
  <2>3. \A r \in Runs \ {p} : buf'[r] = buf[r]
    BY <1>7 DEF Sync, TypeOK
  <2>4. ASSUME NEW d \in buf'[p].f, d \notin falsePastData[p]
        PROVE  RefutedBySome(d)'
    <3>1. d \in falseData'[p] \ trueData'[p]
      BY <2>1, <2>4
    <3>2. Settled(p, d)'
      BY <2>1, <2>4, <3>1 DEF Settled, Locked
    <3> QED BY <3>2 DEF RefutedBySome
  <2> QED BY <1>2, <1>3, <2>1, <2>2, <2>3, <2>4 DEF RefutationInv
<1>8. ASSUME NEW p \in Runs, Finalize(p) \/ Destroy(p) PROVE RefutationInv'
  <2>1. /\ UNCHANGED <<disk, falsePastData, trueData>>
        /\ pc'[p] = "try" /\ op'[p] \in {"finalize", "destroy"}
        /\ falseData'[p] = falseData[p] \ trueData[p]
        /\ buf'[p].f = falsePastData[p] \cup falseData'[p]
    BY <1>8 DEF Finalize, Destroy, ForceDump, Enter, Goto, TypeOK, past
  <2>2. \A r \in Runs \ {p} : buf'[r] = buf[r]
    BY <1>8 DEF Finalize, Destroy, ForceDump, TypeOK
  <2>3. ASSUME NEW d \in falseData'[p] PROVE RefutedBySome(d)'
    <3>1. Settled(p, d)'
      BY <2>1, <2>3 DEF Settled, Locked
    <3> QED BY <3>1 DEF RefutedBySome
  <2> QED BY <1>2, <1>3, <2>1, <2>2, <2>3 DEF RefutationInv
<1>9. ASSUME NEW p \in Runs, ReadExisting(p) PROVE RefutationInv'
  <2>1. \A r \in Runs : buf'[r].f \subseteq buf[r].f \cup disk.f
    BY <1>9 DEF ReadExisting, Join, Content, TypeOK
  <2> QED BY <1>4, <1>9, <2>1 DEF ReadExisting, past
<1>10. ASSUME NEW p \in Runs, Truncate(p) PROVE RefutationInv'
  BY <1>4, <1>10 DEF Truncate, Unreadable, past
<1>11. ASSUME NEW p \in Runs, Write(p) PROVE RefutationInv'
  <2>1. disk'.f \subseteq buf[p].f
    <3>1. disk' = File(buf[p]) \/ disk' = Unreadable
      BY <1>11 DEF Write, Overwrite
    <3> QED BY <3>1 DEF File, Unreadable
  <2>2. \A r \in Runs : /\ falsePastData'[r] \subseteq falsePastData[r] \cup buf[r].f
                        /\ buf'[r].f \subseteq buf[r].f
    BY <1>11 DEF Write, Empty, TypeOK, past
  <2> QED BY <1>4, <2>1, <2>2
<1>12. ASSUME NEW p \in Runs, Locking(p) PROVE RefutationInv'
  BY <1>5, <1>12 DEF Locking, LockOwned, LockShared, LockError, WaitForUnlock
<1>13. ASSUME NEW p \in Runs, Construct(p) \/ Crash(p) \/ Working(p)
       PROVE  RefutationInv'
  BY <1>5, <1>13 DEF Construct, Crash, Working
<1>14. ASSUME UNCHANGED vars PROVE RefutationInv'
  BY <1>5, <1>14 DEF vars
<1> QED
  BY <1>6, <1>7, <1>8, <1>9, <1>10, <1>11, <1>12, <1>13, <1>14
     DEF Next, Step, Filing, Checking, Check, Alias, CheckUndef, AbsIntRefutes

\* Every refutation on disk or on its way there was settled by a run.
LEMMA RefutationInvariant == Spec => []RefutationInv
<1>1. Init => RefutationInv
  BY DEF Init, RefutationInv, Unreadable, Empty
<1>2. TypeOK /\ LockInv /\ Carried /\ RefutationInv /\ [Next]_vars => RefutationInv'
  BY RefutationStep
<1> QED BY <1>1, <1>2, TypeCorrect, LockInvariant, CarriedInvariant, PTL DEF Spec

\* A locus is on both lists of the file only when one run found it defective
\* and another one, which never did, refuted it.
THEOREM ContradictionsNeedTwoRuns == Spec => []ContradictionNeedsTwoRuns
<1>1. Provenance /\ RefutationInv => ContradictionNeedsTwoRuns
  <2> SUFFICES ASSUME Provenance, RefutationInv, NEW d \in disk.t \cap disk.f
               PROVE  \E p, q \in Runs : /\ p # q
                                         /\ d \in trueData[p] /\ d \in falseData[q]
    BY DEF ContradictionNeedsTwoRuns
  <2>1. PICK p \in Runs : d \in trueData[p]
    BY DEF Provenance, Found
  <2>2. PICK q \in Runs : d \in falseData[q] \ trueData[q]
    BY DEF RefutationInv, RefutedBySome, Settled
  <2> QED BY <2>1, <2>2
<1> QED BY <1>1, NothingMadeUp, RefutationInvariant, PTL
=============================================================================
