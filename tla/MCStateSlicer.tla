---------------------------- MODULE MCStateSlicer ---------------------------
(* All small states over an argument p, an allocated a, a pointer w that is *)
(* computed from one of them, a global g, and integers and conditions.      *)
EXTENDS SlicedExecutions

VP == Var("p")
VA == Var("a")
VW == Var("w")
VG == Var("g")
VX == Var("x")
VY == Var("y")
VC == Var("c")
VD == Var("d")

PointerNames == {"p", "a", "w", "g"}
GlobalNames == {"g"}
Two == 1 .. 2

Assign(l, r) == Equality(0, "STATE", l, r)
Assume(t, v) == Equality(0, "PATH", t, Bool(v))
Same(l, r) == Data(<<Equality(99, "PATH", l, r)>>)
Is(t, v) == Data(<<Equality(99, "PATH", t, Num(v))>>)

\* Predicates get their ids from where they stand.
At(n, ps) == [i \in DOMAIN ps |-> [ps[i] EXCEPT !.id = n + i]]
Block(n, ps) == Data(At(n, ps))

SeqsUpTo(n, S) == UNION {[1 .. k -> S] : k \in 0 .. n}

DefinesName(q, n) == q.kind \in {"eq", "alloca", "malloc"} /\ IsState(q) /\ q.ops[1] = Var(n)
Mentions(q, n) == Var(n) \in Interesting(Operands(q))

\* A name is defined once on every path that uses it, and before it is used.
SingleAssignment(in) ==
    \A path \in Paths(Chain(in.state, in.query)) :
        \A n \in {"a", "w", "x"} \cup {r.ops[1].name : r \in {q \in PredicatesOf(in.state) : q.kind \in {"alloca", "malloc"}}} :
            LET all == {i \in DOMAIN path : Mentions(path[i], n)}
                defs == {i \in all : DefinesName(path[i], n)}
            IN  \/ all = {}
                \/ \E i \in defs : defs = {i} /\ \A j \in all : i <= j
                \/ n = "x" /\ defs = {} /\ ~\E q \in PredicatesOf(in.state) : DefinesName(q, n)

InputsOf(states, queries) ==
    {in \in {[state |-> s, query |-> q] : s \in states, q \in queries} :
       ~IsEmpty(in.state) /\ SingleAssignment(in)}

\* One block after another, on what p points to.
Memory == {Assign(VX, LoadOf(VP)), Assign(VX, LoadOf(VW)), Assign(VW, GepOf(VP)), Assign(VW, VA),
           Alloca(0, VA), Store(0, VP, VY), Store(0, VW, VY), Store(0, GepOf(VP), Num(1)), Store(0, VA, Num(2))}

StraightLines ==
    InputsOf({Link(Block(0, <<Assume(VC, True)>>), Block(10, s)) : s \in SeqsUpTo(3, Memory)},
           {Is(VX, 1), Is(LoadOf(VP), 1), Is(LoadOf(VW), 1)})

\* Pointers that are cast or chosen.
Chosen == {Assign(VW, Ternary(VC, VP, VA)), Assign(VW, CastOf(VP)), Assign(VX, LoadOf(VW)), Assign(VX, LoadOf(CastOf(VP))),
           Malloc(0, VA, VY), Store(0, VW, VY), Store(0, CastOf(VP), Num(1)), Store(0, VA, Num(2))}

\* How long the object is that p points to.
Lengths == {WriteBound(0, VP, VY), WriteBound(0, VW, Num(1)), Store(0, VP, Num(1)), Assign(VX, BoundOf(VW)),
            Assign(VW, GepOf(VP)), Assign(VW, VA), Malloc(0, VA, VY)}

Allocated ==
    InputsOf({Link(Block(0, <<Assume(VC, True)>>), Block(10, s)) : s \in SeqsUpTo(3, Chosen)},
             {Is(VX, 1), Is(LoadOf(VP), 1)})
    \cup
    InputsOf({Block(0, s) : s \in SeqsUpTo(3, Lengths)}, {Is(VX, 1), Is(BoundOf(VP), 1)})

\* A block, two ways, and a block.
Pre == {<<>>, <<Assign(VW, GepOf(VP))>>, <<GlobalVars(0, <<VG>>), Store(0, VG, VY)>>}
Ways == {Assign(VX, VY), Assign(VX, LoadOf(VP)), Store(0, VP, Num(1)), Store(0, VW, VY), Store(0, VG, Num(2)), Assume(VD, True)}
Post == {<<>>, <<Assign(VX, VC)>>, <<Assign(VX, LoadOf(VP))>>, <<Assume(VC, True)>>, <<Assign(VX, LoadOf(VG))>>, <<Store(0, VP, Num(2))>>}

Diamond(pre, l, r, post) ==
    Link(Link(Block(0, pre), Either(<<Block(10, <<Assume(VC, True)>> \o l), Block(20, <<Assume(VC, False)>> \o r)>>)),
         Block(30, post))

Diamonds ==
    InputsOf({Diamond(pre, l, r, post) : pre \in Pre, l, r \in SeqsUpTo(1, Ways), post \in Post},
           {Is(VX, 1), Is(LoadOf(VP), 1), Same(LoadOf(VP), VX)})

\* The ways of a switch, and a condition that is computed.
Switch(pre, l, r, post) ==
    Link(Link(Block(0, pre), Either(<<Block(10, <<Equality(0, "PATH", VY, Num(1))>> \o l),
                                      Block(20, <<DefaultCase(0, VY, <<Num(1)>>)>> \o r)>>)),
         Block(30, post))

Asked(pre, l, r, post) == Diamond(<<Assign(VC, Binary(VY, Num(1)))>> \o pre, l, r, post)

Switches ==
    InputsOf({Switch(pre, l, r, post) : pre \in Pre, l, r \in SeqsUpTo(1, Ways), post \in Post}
               \cup {Asked(pre, l, r, post) : pre \in Pre, l, r \in SeqsUpTo(1, Ways), post \in Post},
             {Is(VX, 1), Is(LoadOf(VP), 1)})

AllInputs == StraightLines \cup Allocated \cup Diamonds \cup Switches
=============================================================================
