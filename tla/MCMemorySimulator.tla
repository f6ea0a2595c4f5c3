-------------------------- MODULE MCMemorySimulator -------------------------
(* Sixteen addresses in chunks of two bytes: eight for alloca, eight for   *)
(* malloc.                                                                 *)
EXTENDS MemorySimulator

ThreeBytes == {"00", "01", "02"}
TwoBytes == {"00", "01"}

Near == {0, 1, 8, 9, 10, 11, 12}
BlockStart == {8, 9, 10}
Everywhere == 0..15

Strings == {<<"01">>, <<"02", "01">>}
OneByteStrings == {<<"01">>}
=============================================================================
