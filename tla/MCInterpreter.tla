---------------------------- MODULE MCInterpreter ---------------------------
(* Small programs: two ways, a loop, a switch, a function that is called up *)
(* to three times, and one that does not return.                            *)
EXTENDS InterpretedExecutions

X == Value("x")
Y == Value("y")
Z == Value("z")
C == Value("c")
A == Value("a")

PhiOf(x, ins) == [op |-> "phi", def |-> x, ins |-> ins]
From(b, x) == [from |-> b, value |-> x]
Add(x, l, r) == [op |-> "arith", opcode |-> "ADD", def |-> x, l |-> l, r |-> r]
Sub(x, l, r) == [op |-> "arith", opcode |-> "SUB", def |-> x, l |-> l, r |-> r]
Op(opcode, x, l, r) == [op |-> "arith", opcode |-> opcode, def |-> x, l |-> l, r |-> r]
SelectOf(x, c, l, r) == [op |-> "select", def |-> x, cond |-> c, yes |-> l, no |-> r]
If(c, pred, l, r) == [op |-> "icmp", def |-> c, pred |-> pred, l |-> l, r |-> r]
Call(x, f, args) == [op |-> "call", def |-> x, callee |-> f, args |-> args]

Ret == [op |-> "ret"]
Goto(b) == [op |-> "jump", to |-> b]
Br(c, b, d) == [op |-> "br", cond |-> c, yes |-> b, no |-> d]
Case(n, b) == [n |-> n, to |-> b]
SwitchOn(x, cases, b) == [op |-> "switch", on |-> x, cases |-> cases, default |-> b]

Block(code, end) == [code |-> code, end |-> end]
Function(params, result, blocks) == [params |-> params, entry |-> "E", result |-> result, blocks |-> blocks]
Of(functions, roots) == [functions |-> functions, roots |-> roots]

Main(blocks) == [main |-> Function(<<"a">>, X, blocks)]
Procedure(blocks) == [main |-> Function(<<>>, X, blocks)]
Preds == {"EQ", "NEQ", "LT", "GE"}

\* x is a number or anything; two ways, on each of which it may change.
Start3 == {<<Add(X, Number(0), Number(n)), If(C, p, X, k)>> : n \in {0, 2}, p \in Preds, k \in {Number(0), Number(1)}}
            \cup {<<Add(X, A, n), If(C, p, X, k)>> : n \in {Number(1)}, p \in Preds, k \in {Number(0), Number(1)}}
Way == {<<>>, <<Add(Y, X, Number(1))>>, <<Sub(Y, X, Number(1))>>}

Diamonds ==
    {Of(Main([E |-> Block(s, Br(C, "T", "F")), T |-> Block(w, Goto("J")), F |-> Block(<<>>, Goto("J")),
              J |-> Block(<<PhiOf(Z, <<From("T", IF w = <<>> THEN Number(1) ELSE Y), From("F", X)>>), Add(Value("d"), Z, Number(1))>>, Ret)]),
        <<"main">>) : s \in Start3, w \in Way}

\* A loop of a header and a latch, one of a single block, and a loop that
\* asks the environment whether to go on.
Loops ==
    {Of(Main([E |-> Block(<<>>, Goto("H")),
              H |-> Block(<<PhiOf(X, <<From("E", k), From("L", v)>>), If(C, p, X, Number(2))>>, Br(C, "L", "R")),
              L |-> Block(<<s>>, Goto("H")),
              R |-> Block(<<Add(Z, X, Number(1))>>, Ret)]), <<"main">>) :
       k \in {Number(0), Number(1), A}, v \in {Y, Number(3)}, p \in Preds,
       s \in {Add(Y, X, Number(1)), Sub(Y, X, Number(1)), Add(Y, X, X)}}
    \cup
    {Of(Main([E |-> Block(<<>>, Goto("S")),
              S |-> Block(<<PhiOf(X, <<From("E", k), From("S", Y)>>), Add(Y, X, Number(1)), If(C, "LT", Y, Number(3))>>, Br(C, "S", "R")),
              R |-> Block(<<>>, Ret)]), <<"main">>) : k \in {Number(0), A}}
    \cup
    {Of(Procedure([E |-> Block(<<>>, Goto("H")),
              H |-> Block(<<PhiOf(X, <<From("E", Number(0)), From("L", v)>>), Call(Z, "input", <<>>), If(C, "EQ", Z, Number(0))>>, Br(C, "L", "R")),
              L |-> Block(w, Goto("H")),
              R |-> Block(<<>>, Ret)]), <<"main">>) : v \in {Number(1), X}, w \in {<<>>, <<Add(Y, X, Number(1))>>}}

\* Every operation on two of a few ranges, on what a loop has widened, and on
\* anything; and a select.
Ranges == {<<0, 1>>, <<1, 2>>, <<3, -2>>, <<-2, -7>>, <<0, 5>>, <<-8, -3>>, <<3, 3>>}
Operators == {"MUL", "DIV", "REM", "SHL", "ASHR", "LSHR", "AND", "OR", "XOR"}

Arithmetic ==
    {Of(Main([E |-> Block(<<If(C, "LT", A, Number(0))>>, Br(C, "T", "F")),
              T |-> Block(<<>>, Goto("J")), F |-> Block(<<>>, Goto("J")),
              J |-> Block(<<PhiOf(X, <<From("T", Number(r[1])), From("F", Number(r[2]))>>),
                            PhiOf(Y, <<From("T", Number(q[1])), From("F", Number(q[2]))>>),
                            Op(o, Z, X, Y), IF o = "REM" THEN Op(o, Value("d"), X, A) ELSE Op(o, Value("d"), A, X)>>, Ret)]), <<"main">>) :
       r, q \in Ranges, o \in Operators}
    \cup
    {Of(Main([E |-> Block(<<>>, Goto("H")),
              H |-> Block(<<PhiOf(X, <<From("E", Number(k)), From("L", Y)>>), If(C, "NEQ", X, Number(4))>>, Br(C, "L", "R")),
              L |-> Block(<<s>>, Goto("H")),
              R |-> Block(<<Op(o, Z, X, Number(n)), Op(o, Value("d"), Number(n), X)>>, Ret)]), <<"main">>) :
       s \in {Add(Y, X, Number(1)), Sub(Y, X, Number(1))}, k \in {1, 6}, n \in {-1, 2}, o \in Operators}
    \cup
    {Of(Main([E |-> Block(<<Add(X, k, Number(1)), If(C, p, X, Number(2)), SelectOf(Y, C, X, Number(3)),
                            SelectOf(Z, C, A, Y)>>, Ret)]), <<"main">>) :
       k \in {Number(1), A}, p \in Preds}

Switches ==
    {Of(Main([E |-> Block(<<i>>, SwitchOn(X, <<Case(0, "T"), Case(3, t)>>, d)),
              T |-> Block(<<Add(Y, X, Number(1))>>, Goto("J")), F |-> Block(<<>>, Goto("J")),
              J |-> Block(<<Add(Z, X, Number(1))>>, Ret)]), <<"main">>) :
       i \in {Add(X, A, Number(0)), Add(X, Number(1), Number(2)), Add(X, Number(1), Number(1)), Call(X, "input", <<>>)}, t \in {"T", "F"}, d \in {"J", "F"}}

\* f returns its argument and one, or runs a loop up to it, or calls itself.
Callees ==
    {Function(<<"a">>, Y, [E |-> Block(<<Add(Y, A, Number(1))>>, Ret)]),
     Function(<<"a">>, X, [E |-> Block(<<>>, Goto("H")),
                           H |-> Block(<<PhiOf(X, <<From("E", Number(0)), From("L", Y)>>), If(C, "LT", X, A)>>, Br(C, "L", "R")),
                           L |-> Block(<<Add(Y, X, Number(1))>>, Goto("H")),
                           R |-> Block(<<>>, Ret)]),
     Function(<<"a">>, Z, [E |-> Block(<<If(C, "LT", A, Number(1))>>, Br(C, "R", "T")),
                           T |-> Block(<<Sub(X, A, Number(1)), Call(Y, "f", <<X>>)>>, Goto("R")),
                           R |-> Block(<<PhiOf(Z, <<From("E", A), From("T", Y)>>)>>, Ret)]),
     Function(<<"a">>, Z, [E |-> Block(<<>>, Goto("S")),
                           S |-> Block(<<PhiOf(X, <<From("E", A), From("S", Y)>>), Add(Y, X, Number(1)), If(C, "LT", Y, Number(3))>>, Br(C, "S", "R")),
                           R |-> Block(<<Add(Z, Y, Number(1))>>, Ret)])}

Calls ==
    {Of([main |-> Function(<<>>, Number(0),
                           [E |-> Block(<<Call(X, "f", <<k>>), Call(Y, "f", <<m>>), Call(Z, "f", <<n>>), Add(Value("d"), X, Z)>>, Ret)]),
         f |-> f, g |-> Function(<<>>, Number(0), [E |-> Block(<<Call(X, "main", <<>>)>>, Ret)])], roots) :
       f \in Callees, k, m, n \in {Number(0), Number(1), Number(3)}, roots \in {<<"main">>, <<"g", "main">>}}

\* f has a return and never comes to it; main uses what it returns.
Spin == Function(<<"a">>, X, [E |-> Block(<<>>, Goto("H")), H |-> Block(<<>>, Goto("L")), L |-> Block(<<>>, Goto("H")),
                              R |-> Block(<<Add(X, A, Number(1))>>, Ret)])

Endless ==
    {Of([main |-> Function(<<"a">>, Z, [E |-> Block(<<Call(X, "f", <<A>>)>> \o u, e),
                                        J |-> Block(<<PhiOf(Z, <<From("E", X)>>)>>, Ret)]), f |-> Spin], <<"main">>) :
       u \in {<<>>, <<Add(Y, X, Number(1))>>, <<If(C, "LT", A, Number(1)), SelectOf(Y, C, A, X)>>, <<If(C, "LT", X, Number(1))>>, <<Call(Y, "f", <<X>>)>>},
       e \in {Goto("J"), SwitchOn(X, <<Case(0, "J")>>, "J")}}

AllPrograms == Diamonds \cup Loops \cup Arithmetic \cup Switches \cup Calls \cup Endless
=============================================================================
