---------------------- MODULE MCPredicateStateAnalysis ----------------------
(* All loop-free functions of four blocks, and some of six.                *)
EXTENDS PredicateStateAnalysis

Onward(b, n) == (b + 1)..n

\* A return, a jump, a branch, or a switch with a default.
Successors(b, n) ==
    {<<>>} \cup {<<s>> : s \in Onward(b, n)}
           \cup {<<s, t>> : s, t \in Onward(b, n)}

FourBlocks ==
    {<<a, b, c, <<>>>> : a \in Successors(1, 4) \cup {<<2, 3, 4>>, <<2, 2, 4>>, <<4, 3, 2>>},
                         b \in Successors(2, 4), c \in Successors(3, 4)}

AllReachable(succ) ==
    \A b \in 2..Len(succ) : \E a \in 1..(b - 1) : b \in ToSet(succ[a])

\* As simplifycfg leaves them: a block with one successor whose only predecessor
\* it is has been merged with it.
Simplified(succ) ==
    \A b \in DOMAIN succ :
        Len(succ[b]) = 1 =>
            \E a \in DOMAIN succ \ {b} : succ[b][1] \in ToSet(succ[a])

SixBlocks ==
    {<< <<2, 3>>, <<4, 5>>, <<4, 5>>, <<6>>, <<6>>, <<>> >>,
     << <<2, 3>>, <<4>>, <<4>>, <<5, 6>>, <<6>>, <<>> >>,
     << <<2, 6>>, <<3, 5>>, <<4, 5>>, <<6>>, <<6>>, <<>> >>,
     << <<2, 3, 4>>, <<5>>, <<5, 6>>, <<6>>, <<>>, <<>> >>}

Kind(k, empty, n) == [b \in 1..n |-> IF b \in empty THEN "none" ELSE k]

Function(succ, k, empty, phi, requires, refuted) ==
    [succ |-> succ, kind |-> Kind(k, empty, Len(succ)),
     phi |-> [b \in 1..Len(succ) |-> phi],
     requires |-> requires, refuted |-> refuted]

Variants(graphs) ==
    {Function(g, k, empty, k = "call", k = "inst", {}) :
        g \in {h \in graphs : AllReachable(h) /\ Simplified(h)},
        k \in {"inst", "call", "same"}, empty \in {{}, {2, 3}}}

\* Functions of which the solver refutes one way or all of them.
Diamond == << <<2, 3>>, <<4>>, <<4>>, <<>> >>
Refuted ==
    {Function(Diamond, "inst", {}, FALSE, TRUE, refuted) :
        refuted \in {{<<"edge", 1, 1>>}, {<<"edge", 1, 1>>, <<"edge", 1, 2>>}}}

AllFunctions == Variants(FourBlocks) \cup Variants(SixBlocks) \cup Refuted

Config(mode, optimize, aggressive, inline, check) ==
    [mode |-> mode, optimize |-> optimize, aggressive |-> aggressive,
     inline |-> inline, checkUnreachable |-> check]

AllModes ==
    {Config("one-for-one", TRUE, FALSE, TRUE, TRUE),
     Config("one-for-all", FALSE, FALSE, TRUE, FALSE),
     Config("one-for-all", TRUE, TRUE, FALSE, FALSE),
     Config("one-for-all-reverse", TRUE, FALSE, FALSE, FALSE)}
=============================================================================
