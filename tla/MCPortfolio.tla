----------------------------- MODULE MCPortfolio ----------------------------
(* Two or three solvers beside one compiler.                               *)
EXTENDS Portfolio, TLC

CONSTANTS z3, cvc4, boolector, clang1

TwoSolvers == {z3, cvc4}
ThreeSolvers == {z3, cvc4, boolector}
OneCompiler == {clang1}

Interchangeable == Permutations(TwoSolvers)
InterchangeableThree == Permutations(ThreeSolvers)
=============================================================================
