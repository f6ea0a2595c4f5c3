---------------------------- MODULE DefectRecord ----------------------------
(***************************************************************************)
(* What persistentDefectData.json promises to the gestalt runs that share  *)
(* a directory: a record of the loci found defective and the loci found    *)
(* sound that only ever grows, except that a run that crashes may empty it.*)
(***************************************************************************)
EXTENDS Naturals

CONSTANTS Defects,      \* loci a checker can have an opinion about
          MaxCrashes    \* how many runs may crash

VARIABLES record,       \* [t |-> loci known defective, f |-> known sound]
          losses        \* crashes so far

recordVars == <<record, losses>>

Nothing == [t |-> {}, f |-> {}]

RecordInit ==
    /\ record = Nothing
    /\ losses = 0

\* A run adds what it knows; nothing already recorded is taken away.
Publish ==
    /\ record' \in [t : SUBSET Defects, f : SUBSET Defects]
    /\ record.t \subseteq record'.t
    /\ record.f \subseteq record'.f
    /\ UNCHANGED losses

\* A run dies; if it was rewriting the file, the file is gone.
Lose ==
    /\ losses < MaxCrashes
    /\ losses' = losses + 1
    /\ record' \in {record, Nothing}

RecordNext == Publish \/ Lose

RecordSpec == RecordInit /\ [][RecordNext]_recordVars
=============================================================================
