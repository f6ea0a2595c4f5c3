--------------------------- MODULE MCDefectManager --------------------------
(* Two or three runs, two ordinary loci and one undefined-value locus.     *)
EXTENDS DefectManager, TLC

CONSTANTS r1, r2, r3, d1, d2, u1

TwoRuns == {r1, r2}
ThreeRuns == {r1, r2, r3}
OneLocus == {d1}
TwoLoci == {d1, d2}
LocusAndUndef == {d1, u1}
AllLoci == {d1, d2, u1}
Undefs == {u1}
NoUndefs == {}

Interchangeable == Permutations(TwoRuns)
InterchangeableThree == Permutations(ThreeRuns)
=============================================================================
