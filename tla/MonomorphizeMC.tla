--------------------------- MODULE MonomorphizeMC ---------------------------
(* Programs around a base b with arms a1 and a2, and a second base q.      *)
EXTENDS Monomorphize

LOCAL INSTANCE SequencesExt

X == <<"x">>
Y == <<"y">>
S == <<"s">>
R == <<"r">>
N == <<"n">>
V == <<"v">>
D == <<"d">>
T1 == <<"t1">>
T2 == <<"t2">>
This == <<"this">>
Decl(x, kind, t, attr) == [names |-> <<x>>, kind |-> kind, type |-> t, attr |-> attr]
Integer(x) == Decl(x, "INT", "", "")
Use(m) == [mod |-> m, only |-> {}]
Sub(f, m, dummies, decls, body) == [name |-> f, mod |-> m, uses |-> {}, dummies |-> dummies, decls |-> decls, body |-> body]
Type(t, m, parent, comps) == [name |-> t, mod |-> m, parent |-> parent, abstract |-> FALSE, deferred |-> {}, over |-> <<>>, plain |-> {},
                              generic |-> <<>>, comps |-> comps]

\* The bindings of the base: apply is deferred, run implemented by the base, gen generic.
Base(m) == [Type("b", m, "", <<Integer(N)>>) EXCEPT !.abstract = TRUE, !.deferred = {"apply"}, !.over = [run |-> <<"run">>], !.generic = [gen |-> {"apply"}]]
Arm(t, f, m) == [Type(t, m, "b", <<Integer(<<"own">>)>>) EXCEPT !.over = [apply |-> <<f>>]]
\* An arm's apply prints who it is and what its object holds, then counts.
Apply(f, t, m, i) == Sub(<<f>>, m, <<This>>, <<Decl(This, "CLASS", t, "")>>, <<Out(Num(i)), Out(Ref(<<This, N>>)), Assign(<<This, N>>, Num(10 + i))>>)
RunSub(m) == Sub(<<"run">>, m, <<This>>, <<Decl(This, "CLASS", "b", "")>>, <<Out(Num(7)), CallBound(<<This>>, "apply", <<>>), Out(Ref(<<This, N>>))>>)

\* Where the parts live: all in one module, or the base, the arms, the container and main each in their own.
Layouts == {"one", "many"}
At(l, m) == IF l = "one" THEN "m" ELSE m
Modules(l) == IF l = "one" THEN <<[name |-> "m", uses |-> {}]>>
              ELSE <<[name |-> "mb", uses |-> {}], [name |-> "ma1", uses |-> {Use("mb")}], [name |-> "ma2", uses |-> {Use("mb")}],
                     [name |-> "mc", uses |-> {[mod |-> "mb", only |-> {<<"b">>}], [mod |-> "ma1", only |-> {<<"a1">>}], [mod |-> "ma2", only |-> {<<"a2">>}]}],
                     [name |-> "mm", uses |-> {Use("mb"), Use("ma1"), Use("ma2"), Use("mc")}]>>
Types(l, comps, over) ==
    <<Base(At(l, "mb")), Arm("a1", "f1", At(l, "ma1")), Arm("a2", "f2", At(l, "ma2")), [Type("c", At(l, "mc"), "", comps) EXCEPT !.over = over]>>
Vars(l) == <<[names |-> <<<<"w">>>>, kind |-> "INT", type |-> "", attr |-> "", mod |-> At(l, "mb")],
             [names |-> <<<<"w">>>>, kind |-> "INT", type |-> "", attr |-> "", mod |-> At(l, "ma2")]>>
Program(l, types, subs) ==
    [mods |-> Modules(l), types |-> types, vars |-> IF l = "one" THEN <<>> ELSE Vars(l), err |-> FALSE,
     subs |-> <<RunSub(At(l, "mb")), Apply("f1", "a1", At(l, "ma1"), 1), Apply("f2", "a2", At(l, "ma2"), 2)>> \o subs]
Main(l, decls, body) == Sub(<<"main">>, At(l, "mm"), <<>>, decls, body)

\* A local variable, of either arm, that is dispatched on once or twice.
LocalUses == {<<CallBound(<<V>>, "apply", <<>>)>>, <<CallBound(<<V>>, "apply", <<>>), CallBound(<<V>>, "apply", <<>>)>>}
Locals2 == {Program(l, Types(l, <<>>, <<>>), <<Main(l, <<Decl(V, "CLASS", "b", "allocatable")>>, <<Allocate(t, <<<<V>>>>)>> \o u)>>) :
               l \in Layouts, t \in {"a1", "a2"}, u \in LocalUses}

\* A component, made by a factory that main asks for an arm, and what main does with it.
Make(l) == Sub(<<"make">>, At(l, "mc"), <<X, N>>, <<Decl(X, "TYPE", "c", ""), Integer(N)>>,
               <<IfThen(<<Branch(Eq(<<N>>, 1), <<Allocate("a1", <<<<X, S>>>>)>>), Branch(Eq(<<N>>, 2), <<Allocate("a2", <<<<X, S>>>>)>>)>>)>>)
SlotUses == {<<CallBound(<<X, S>>, "apply", <<>>)>>,
             <<CallBound(<<X, S>>, "run", <<>>)>>,
             <<Assign(<<X, S, N>>, Num(5)), CallBound(<<X, S>>, "apply", <<>>), Out(Ref(<<X, S, N>>))>>,
             <<IfLine(Allocated(<<X, S>>), Out(Num(3))), CallBound(<<X, S>>, "apply", <<>>)>>,
             <<Assign(<<X, S, N>>, Num(5)), IfThen(<<Branch(Eq(<<X, S, N>>, 4), <<Out(Num(4))>>), Branch(Eq(<<X, S, N>>, 5), <<CallBound(<<X, S>>, "run", <<>>)>>)>>)>>,
             <<CallBound(<<X, S>>, "apply", <<>>), IfThen(<<Branch(Eq(<<X, S, N>>, 11), <<CallBound(<<X, S>>, "run", <<>>), Out(Ref(<<X, S, N>>))>>)>>)>>,
             <<IfLine(Eq(<<X, S, N>>, 0), CallBound(<<X, S>>, "apply", <<>>)), CallBound(<<X, S>>, "apply", <<>>)>>}
\* One statement with x%s and y%s in it.
MingledUses == {<<Assign(<<X, S, N>>, Ref(<<Y, S, N>>)), Out(Ref(<<X, S, N>>))>>, <<Assign(<<Y, S, N>>, Ref(<<X, S, N>>)), CallBound(<<X, S>>, "run", <<>>)>>,
                <<IfThen(<<Branch(Eq(<<X, S, N>>, 0), <<Out(Num(6)), Out(Ref(<<Y, S, N>>))>>)>>)>>, <<IfLine(Allocated(<<X, S>>), Out(Ref(<<Y, S, N>>)))>>}
SlotComp == <<Decl(S, "CLASS", "b", "allocatable")>>
SlotMain(l, more, uses) == Main(l, <<Decl(X, "TYPE", "c", "")>> \o more, uses)
CallMake(l, x, i) == CallProc(<<"make">>, <<Ref(<<x>>), Num(i)>>)
Components1 == {Program(l, Types(l, SlotComp, <<>>),
                        <<Make(l), SlotMain(l, <<>>, <<IfLine(Allocated(<<X, S>>), Out(Num(9))), CallMake(l, X, i)>> \o u)>>) :
                   l \in Layouts, i \in 1 .. 2, u \in SlotUses}
\* The container's module, which imports only the types, uses it.
Drive(l, u) == Sub(<<"drive">>, At(l, "mc"), <<X>>, <<Decl(X, "TYPE", "c", "")>>, u)
Components3 == {Program(l, Types(l, SlotComp, <<>>),
                        <<Make(l), Drive(l, u), SlotMain(l, <<>>, <<CallMake(l, X, i), CallProc(<<"drive">>, <<Ref(<<X>>)>>)>>)>>) :
                   l \in Layouts, i \in 1 .. 2, u \in SlotUses}
\* Two containers with different arms.
Components2 == {Program(l, Types(l, SlotComp, <<>>),
                        <<Make(l), SlotMain(l, <<Decl(Y, "TYPE", "c", "")>>,
                              <<CallMake(l, X, i), CallMake(l, Y, 3 - i), CallBound(<<Y, S>>, "run", <<>>)>> \o u \o <<CallBound(<<Y, S>>, "apply", <<>>), Out(Ref(<<Y, S, N>>))>>)>>) :
                   l \in Layouts, i \in 1 .. 2, u \in SlotUses \cup MingledUses}
\* Another type has a component of the slot's name.
Namesake == {[p EXCEPT !.types = @ \o <<Type("e", p.types[4].mod, "", <<Integer(N)>>), Type("g", p.types[4].mod, "", <<Decl(S, "TYPE", "e", "")>>)>>,
                       !.subs = [i \in DOMAIN @ |-> IF @[i].name # <<"main">> THEN @[i]
                                                    ELSE [@[i] EXCEPT !.decls = Append(@, Decl(Y, "TYPE", "g", "")), !.body = <<Assign(<<Y, S, N>>, Num(8))>> \o @ \o u \o <<Out(Ref(<<Y, S, N>>))>>]]] :
                p \in Components1, u \in {<<>>} \cup MingledUses}

\* One arm: a2 is not in the program.
OneArm(p) == [p EXCEPT !.types = SelectSeq(@, LAMBDA T : T.name # "a2"), !.subs = SelectSeq(@, LAMBDA s : s.name # <<"f2">>),
                       !.mods = LET kept == SelectSeq(@, LAMBDA m : m.name # "ma2") IN [i \in DOMAIN kept |-> [kept[i] EXCEPT !.uses = {u \in @ : u.mod # "ma2"}]],
                       !.vars = SelectSeq(@, LAMBDA v : v.mod # "ma2")]
MakeOne(l) == Sub(<<"make">>, At(l, "mc"), <<X, N>>, <<Decl(X, "TYPE", "c", ""), Integer(N)>>, <<Allocate("a1", <<<<X, S>>>>)>>)
Single == {OneArm(Program(l, Types(l, SlotComp, <<>>), <<MakeOne(l), SlotMain(l, <<>>, <<CallMake(l, X, 1)>> \o u)>>)) : l \in Layouts, u \in SlotUses}
\* An object of a base, with one arm or two, that a SELECT TYPE asks.
Guards(x) == <<Guard("TYPE IS", "a1", <<Out(Num(25))>>), Guard("CLASS DEFAULT", "", <<Out(Ref(<<x, N>>))>>)>>
Asks(l) == Sub(<<"asks">>, At(l, "mc"), <<D>>, <<Decl(D, "CLASS", "b", "")>>, <<Select(D, D, Guards(D))>>)
AskedOne == {OneArm(Program(l, Types(l, SlotComp, <<>>),
                            <<MakeOne(l), Asks(l), SlotMain(l, <<>>, <<CallMake(l, X, 1), CallProc(<<"asks">>, <<Ref(<<X, S>>)>>), CallBound(<<X, S>>, "apply", <<>>)>>)>>)) :
                l \in Layouts}
AskedRun == {[p EXCEPT !.subs[1].body = Append(@, Select(This, V, Guards(V)))] :
                p \in {q \in Components1 \cup Single : \E st \in StatementSet(SubOf(q, <<"main">>).body) : st.k = "call" /\ st.f = <<"run">>}}

\* A pointer component, bound by a constructor that gets the arm as its argument, directly or through another.
PtrComp == <<Decl(S, "CLASS", "b", "pointer")>>
CtorBodies == {<<Associate(<<X, S>>, <<D>>)>>,
               <<Associate(<<X, S>>, <<D>>), CallBound(<<D>>, "apply", <<>>)>>,
               <<Select(D, D, <<Guard("TYPE IS", "a1", <<Out(Num(21))>>), Guard("CLASS DEFAULT", "", <<Out(Num(22))>>)>>), Associate(<<X, S>>, <<D>>)>>,
               <<Select(D, V, <<Guard("CLASS IS", "b", <<Out(Num(23))>>), Guard("TYPE IS", "a2", <<Out(Ref(<<V, N>>)), Out(Num(24))>>)>>), Associate(<<X, S>>, <<D>>)>>}
Ctor(l, b) == Sub(<<"ctor">>, At(l, "mc"), <<X, D>>, <<Decl(X, "CLASS", "c", ""), Decl(D, "CLASS", "b", "")>>, b)
Pass(l) == Sub(<<"pass">>, At(l, "mc"), <<X, D>>, <<Decl(X, "CLASS", "c", ""), Decl(D, "CLASS", "b", "")>>, <<CallProc(<<"ctor">>, <<Ref(<<X>>), Ref(<<D>>)>>)>>)
Helper(l) == Sub(<<"help">>, At(l, "mc"), <<D>>, <<Decl(D, "CLASS", "b", "")>>, <<CallBound(<<D>>, "apply", <<>>)>>)
CtorCalls(t) == {CallProc(<<"ctor">>, <<Ref(<<X>>), Ref(<<t>>)>>), CallProc(<<"pass">>, <<Ref(<<X>>), Ref(<<t>>)>>), CallBound(<<X>>, "cons", <<Ref(<<t>>)>>)}
PtrUses == {<<CallBound(<<X, S>>, "apply", <<>>)>>,
            <<CallBound(<<X, S>>, "gen", <<>>), CallBound(<<X, S>>, "apply", <<>>)>>,
            <<CallBound(<<X, S>>, "run", <<>>)>>,
            <<CallBound(<<X, S>>, "apply", <<>>), Out(Ref(<<X, S, N>>))>>,
            <<IfThen(<<Branch(Eq(<<X, S, N>>, 0), <<CallBound(<<X, S>>, "run", <<>>)>>)>>)>>,
            <<CallProc(<<"help">>, <<Ref(<<X, S>>)>>), Out(Ref(<<X, S, N>>))>>}
PtrDecls == <<Decl(X, "TYPE", "c", ""), Decl(T1, "TYPE", "a1", ""), Decl(T2, "TYPE", "a2", "")>>
Pointers == UNION {{Program(l, Types(l, PtrComp, [cons |-> <<"ctor">>]),
                            <<Ctor(l, b), Pass(l), Helper(l), Main(l, PtrDecls, <<c>> \o u \o (IF again THEN <<CallProc(<<"ctor">>, <<Ref(<<X>>), Ref(<<T1>>)>>)>> \o u ELSE <<>>) \o <<Out(Ref(<<t, N>>))>>)>>) :
                       l \in Layouts, b \in CtorBodies, c \in CtorCalls(t), u \in PtrUses, again \in BOOLEAN} : t \in {T1, T2}}

AskedHelp == {[p EXCEPT !.subs = [i \in DOMAIN @ |-> IF @[i].name = <<"help">> THEN [@[i] EXCEPT !.body = Append(@, Select(D, V, Guards(V)))] ELSE @[i]]] :
                p \in {q \in Pointers : \E st \in StatementSet(SubOf(q, <<"main">>).body) : st.k = "call" /\ st.f = <<"help">>}}

\* Both: an allocated solver whose setup hands a transfer on to a pointer component.
Q1 == [Type("q", "m", "", <<>>) EXCEPT !.abstract = TRUE, !.deferred = {"setup"}]
Solver(t, f) == [Type(t, "m", "q", <<Decl(R, "TYPE", "c", "")>>) EXCEPT !.over = [setup |-> <<f>>]]
Setup(f, t, i) == Sub(<<f>>, "m", <<This, D>>, <<Decl(This, "CLASS", t, ""), Decl(D, "CLASS", "b", "")>>,
                      <<Out(Num(i)), CallBound(<<This, R>>, "cons", <<Ref(<<D>>)>>), CallBound(<<This, R, S>>, "apply", <<>>)>>)
Outer == Type("o", "m", "", <<Decl(Y, "CLASS", "q", "allocatable")>>)
TwoAxes == {Program("one", Types("one", PtrComp, [cons |-> <<"ctor">>]) \o <<Q1, Solver("q1", "g1"), Solver("q2", "g2"), Outer>>,
                    <<Ctor("one", b), Helper("one"), Setup("g1", "q1", 31), Setup("g2", "q2", 32),
                      Sub(<<"start">>, "m", <<X, N, D>>, <<Decl(X, "TYPE", "o", ""), Integer(N), Decl(D, "CLASS", "b", "")>>,
                          <<IfThen(<<Branch(Eq(<<N>>, 1), <<Allocate("q1", <<<<X, Y>>>>)>>), Branch(Eq(<<N>>, 2), <<Allocate("q2", <<<<X, Y>>>>)>>)>>),
                            CallBound(<<X, Y>>, "setup", <<Ref(<<D>>)>>)>>),
                      Main("one", <<Decl(X, "TYPE", "o", ""), Decl(T1, "TYPE", "a1", ""), Decl(T2, "TYPE", "a2", "")>>,
                           <<CallProc(<<"start">>, <<Ref(<<X>>), Num(i), Ref(<<t>>)>>), Out(Ref(<<t, N>>))>>)>>) : i \in 1 .. 2, t \in {T1, T2}, b \in CtorBodies}

\* Hierarchies that are not collapsed.
Change(p, t, T) == [p EXCEPT !.types = [i \in DOMAIN @ |-> IF @[i].name = t THEN T ELSE @[i]]]
Refused == UNION {{Change(p, "a2", [TypeOf(p, "a2") EXCEPT !.abstract = TRUE]),
                   Change(p, "a2", [TypeOf(p, "a2") EXCEPT !.over = <<>>, !.plain = {"apply"}]),
                   Change(p, "b", [TypeOf(p, "b") EXCEPT !.comps = Append(@, Decl(D, "CLASS", "*", "pointer"))]),
                   [p EXCEPT !.types = Append(@, Type("k", p.types[4].mod, "a1", <<>>))]} : p \in {x \in Components1 : x.mods[1].name = "m"}}
Plain(p) == [p EXCEPT !.subs = [i \in DOMAIN @ |-> IF @[i].name = <<"f2">> THEN [@[i] EXCEPT !.name = <<"apply">>] ELSE @[i]]]
RefusedPrograms == {IF TypeOf(p, "a2").plain # {} THEN Plain(p) ELSE p : p \in Refused}

MCPrograms == Locals2 \cup Components1 \cup Components2 \cup Components3 \cup Namesake \cup Single \cup AskedOne \cup AskedRun \cup AskedHelp \cup Pointers \cup TwoAxes \cup RefusedPrograms
=============================================================================
