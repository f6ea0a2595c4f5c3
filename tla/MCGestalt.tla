------------------------------ MODULE MCGestalt -----------------------------
(* Three runs of the wrapper in builds of two sources.                     *)
EXTENDS Gestalt

CONSTANTS r1, r2, r3, a, b, prog

ThreeRuns == {r1, r2, r3}
ThreeObjects == {a, b, prog}

Compile(n) == [op |-> "compile", out |-> n, ins |-> {}]
Assemble(n) == [op |-> "assemble", out |-> n, ins |-> {}]
Link(ins, n) == [op |-> "link", out |-> n, ins |-> ins]

Build(j1, j2, j3, after2, after3, skip) ==
    [jobs |-> [r \in ThreeRuns |-> CASE r = r1 -> j1 [] r = r2 -> j2 [] OTHER -> j3],
     after |-> [r \in ThreeRuns |-> CASE r = r1 -> {} [] r = r2 -> after2 [] OTHER -> after3],
     skipClang |-> skip]

\* Two sources compiled side by side, then linked.
Separate == Build(<<Compile(a)>>, <<Compile(b)>>, <<Link({a, b}, prog)>>, {}, {r1, r2}, TRUE)

\* The same source compiled twice at once, and a link that waits for both
\* or for one of them only.
Twice == Build(<<Compile(a)>>, <<Compile(a)>>, <<Link({a}, prog)>>, {}, {r1, r2}, TRUE)
Racing == Build(<<Compile(a)>>, <<Compile(a)>>, <<Link({a}, prog)>>, {}, {r1}, TRUE)

\* One command compiles, assembles and links; its result is linked again,
\* and a command without jobs runs beside it.
OneCommand == Build(<<Assemble(b), Compile(a), Link({a, b}, prog)>>,
                    <<Link({prog, b}, a)>>, <<>>, {r1}, {}, FALSE)

\* Two links side by side, each with the passes.
TwoPrograms == Build(<<Compile(a), Link({a}, prog)>>, <<Compile(a), Link({a}, b)>>, <<>>,
                     {}, {}, TRUE)

Builds == {Separate, Twice, Racing, OneCommand, TwoPrograms}
=============================================================================
