---------------------------- MODULE MCUnionFind ----------------------------
(* Five elements: enough for a root of rank two and paths of length two.  *)
EXTENDS UnionFind

Five == 1 .. 5
=============================================================================
