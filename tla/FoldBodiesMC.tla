---------------------------- MODULE FoldBodiesMC ----------------------------
(* Programs of an entry point e(n, o, y), two subroutines g(a, p, r) and h(q, s), and a function w(z). *)
EXTENDS FoldBodies

N(s) == <<s>>
V(s) == Var(N(s))
Is(s, k) == Eq(V(s), Num(k))
Add(k) == Set(N("y"), Plus(V("y"), Num(k)))
Dummy(s, optional, out) == [name |-> N(s), optional |-> optional, out |-> out]
Proc(dummies, locals, result, body) == [dummies |-> dummies, locals |-> locals, result |-> result, body |-> body]

MCProcs == <<"e", "g", "h", "w">>
Program(e, g, h, w, targets) ==
    [entry |-> "e", targets |-> targets,
     procs |-> [e |-> Proc(<<Dummy("n", FALSE, FALSE), Dummy("o", TRUE, FALSE), Dummy("y", FALSE, TRUE)>>, {N("x"), N("i"), N("k")}, <<>>, e),
                g |-> Proc(<<Dummy("a", FALSE, FALSE), Dummy("p", TRUE, FALSE), Dummy("r", FALSE, TRUE)>>, {N("x"), N("t")}, <<>>, g),
                h |-> Proc(<<Dummy("q", TRUE, FALSE), Dummy("s", FALSE, TRUE)>>, {}, <<>>, h),
                w |-> Proc(<<Dummy("z", FALSE, FALSE)>>, {N("v")}, N("v"), w)]]
MCInputs(p) == {[x \in {N("n"), N("o"), N("y")} |-> CASE x = N("n") -> n [] x = N("o") -> o [] OTHER -> 5] :
                n \in 0 .. 2, o \in {Gone, 0, 1}}

\* Jumps: what is skipped or repeated, and the statement that jumps.
Between == {Add(10), IfS(Is("n", 2), Add(10)), If(Is("n", 0), <<Add(10), ElseIf(Is("n", 1)), Add(20), Else, Add(30)>>),
            Do(N("i"), V("n"), <<Add(10), IfS(Is("i", 1), Exit), Add(20)>>)}
Jumps(l, c) == {IfS(c, Goto(l)), If(c, <<Add(100), Goto(l), Else, Add(200)>>),
                Do(N("i"), Num(2), <<Add(100), If(Is("i", 1), <<Add(200), IfS(c, Goto(l)), Add(400)>>), Add(800)>>)}
Forward == {<<j, b, Continue("f"), Add(1)>> : j \in Jumps("f", Is("n", 1)), b \in Between}
Twice == {<<j, b, k, Add(2), Continue("f"), Add(1)>> : j \in Jumps("f", Is("n", 1)), k \in Jumps("f", Is("n", 0)), b \in {Add(10)}}
Backwards == {<<Set(N("k"), Num(0)), Continue("b"), Set(N("k"), Plus(V("k"), Num(1))), b, j, Add(1)>> :
                 j \in Jumps("b", Is("k", 1)), b \in Between}
Crossed == {<<Set(N("k"), V("n")), Continue("b"), Set(N("k"), Plus(V("k"), Num(1))), j, Add(10), c, Add(20), i, Add(1), d>> :
               j \in Jumps("f", Is("k", 2)), i \in {IfS(Is("k", 2), Goto("b")), If(Is("k", 1), <<Goto("b")>>)},
               c \in {Continue("f"), Add(40)}, d \in {Continue("f"), Add(2)}}
Labels(b) == {s.l : s \in {t \in All(b) : t.k = "cont"}}
JumpBodies == {b \in Forward \cup Twice \cup Backwards \cup Crossed :
                  /\ \A s \in All(b) : s.k = "goto" => s.l \in Labels(b)
                  /\ Cardinality({i \in DOMAIN b : b[i].k = "cont"}) = Cardinality(Labels(b))}

\* Optional and constant arguments, forwarded to h; the body may be spliced.
GBodies == {<<If(Present(N("p")), <<Set(N("x"), V("p")), Else, Set(N("x"), Num(3))>>),
              If(Is("a", 1), <<Set(N("r"), Plus(V("r"), V("x"))), ElseIf(Is("a", 2)), Set(N("r"), nine)>>)>> \o last :
             nine \in {Num(9), Plus(V("r"), Num(9))},
             last \in {<<>>, <<Call("h", <<Arg(V("p")), Arg(V("r"))>>)>>, <<Call("h", <<KwArg(N("s"), V("r")), KwArg(N("q"), V("p"))>>)>>}}
       \cup {<<Set(N("t"), Present(N("p"))), Set(N("x"), V("a")), IfS(V("t"), Set(N("x"), Num(4))), Set(N("r"), Plus(V("r"), V("x")))>>}
HBody == <<If(Present(N("q")), <<Set(N("s"), Plus(V("s"), V("q"))), Else, Set(N("s"), Plus(V("s"), Num(20)))>>)>>
CallArgs == {<<Arg(a), Arg(p), Arg(V("y"))>> : a \in {Num(1), Num(2), V("n")}, p \in {Num(7), V("o")}}
            \cup {<<Arg(a), KwArg(N("r"), V("y"))>> : a \in {Num(1), Num(2), V("n")}}
CallBodies == {<<Call("g", a), Call("g", b)>> : a \in CallArgs, b \in CallArgs} \cup {<<If(Is("n", 1), <<Call("g", a)>>)>> : a \in CallArgs}

\* What is locally constant: assignments, branches, loops, a function.
Pieces == {Set(N("x"), Num(1)), Set(N("x"), V("n")), Set(N("y"), Plus(V("y"), V("x"))), IfS(Is("n", 1), Set(N("x"), Num(2))),
           If(Is("x", 1), <<Set(N("x"), Num(2)), Else, Set(N("x"), Num(2)), Set(N("y"), V("n"))>>), If(Is("n", 1), <<Set(N("x"), Num(1))>>),
           If(And(Not(Is("x", 2)), Is("n", 1)), <<Set(N("k"), V("x")), Set(N("y"), V("k")), ElseIf(Is("x", 2)), Set(N("x"), Div(Num(-3), V("x")))>>),
           Do(N("i"), V("n"), <<Set(N("y"), Plus(V("y"), V("x"))), Set(N("x"), Num(2)), IfS(Is("y", 7), Exit), Set(N("y"), Plus(V("x"), V("i")))>>),
           Set(N("y"), Plus(Fn("w", <<Arg(V("x"))>>), V("y"))), IfS(Is("x", 1), Return),
           Assoc(N("al"), V("x"), <<Set(N("al"), Plus(V("al"), Num(1))), Set(N("y"), V("al"))>>)}
WBody == <<If(Is("z", 1), <<Set(N("v"), Num(6)), Else, Set(N("v"), V("z"))>>)>>
LocalBodies == {<<Set(N("x"), Num(1)), a, b, c>> : a \in Pieces, b \in Pieces, c \in Pieces}
\* x passed to h, which reads it or writes it, by position or by keyword, while it may be locally constant.
CallsOfH == {Call("h", <<Arg(V("n")), Arg(V("x"))>>), Call("h", <<KwArg(N("s"), V("x"))>>), Call("h", <<Arg(V("x")), Arg(V("y"))>>),
             IfS(Is("n", 1), Call("h", <<Arg(Plus(V("x"), V("n"))), Arg(V("x"))>>)), Call("h", <<KwArg(N("q"), V("x")), KwArg(N("s"), V("y"))>>)}
WritingBodies == {<<s, a, b, Set(N("y"), Plus(V("y"), V("x")))>> :
                     s \in {Set(N("x"), Num(1)), Set(N("x"), V("n"))}, a \in Pieces \cup CallsOfH, b \in CallsOfH}

Legal(p) == \A input \in MCInputs(p) : Meaning(p.procs, "e", input) # <<"stuck">>
\* g is spliced where p is omitted, and passes it on by position: the call of h is dropped.
ForwardsOmitted(p) ==
    /\ "g" \in p.targets
    /\ \E s \in All(p.procs.g.body) : s.k = "call" /\ s.args[1] = Arg(V("p"))
    /\ \E s \in All(p.procs.e.body) : s.k = "call" /\ Len(s.args) = 2
CallPrograms == {Program(b, g, HBody, <<>>, t) : b \in CallBodies, g \in GBodies, t \in {{}, {"g"}, {"g", "h"}}}
MCPrograms ==
    {p \in {Program(b, <<>>, <<>>, <<>>, {}) : b \in JumpBodies}
           \cup {p \in CallPrograms : ~ForwardsOmitted(p)}
           \cup {Program(b, <<>>, <<>>, WBody, {"w"}) : b \in LocalBodies}
           \cup {Program(b, <<>>, HBody, WBody, t) : b \in WritingBodies, t \in {{"w"}, {"h", "w"}}} : Legal(p)}
=============================================================================
