---------------------------- MODULE OutsideRefsMC ----------------------------
(* Module m declares w, q and v and holds the routine r and a helper h; s  *)
(* is a procedure of module n, which uses m; the program calls r and s.    *)
EXTENDS OutsideRefs

Unit(kind, name, host) == [kind |-> kind, name |-> name, host |-> host, dummies |-> <<>>, decls |-> {}, uses |-> {}, stmts |-> <<>>, bindc |-> FALSE]
Var(x) == [n |-> x, guarded |-> FALSE]
IfDef(x) == [n |-> x, guarded |-> TRUE]
NoNames == [x \in {} |-> x]
Use(m) == [m |-> m, only |-> FALSE, names |-> NoNames]
UseOnly(m, names) == [m |-> m, only |-> TRUE, names |-> names]
Rename(m, names) == [m |-> m, only |-> FALSE, names |-> names]

Set(x, reads) == [Blank EXCEPT !.k = "set", !.to = x, !.reads = reads]
Point(x, y) == [Blank EXCEPT !.k = "point", !.to = x, !.of = y]
CallOf(f, args) == [Blank EXCEPT !.k = "call", !.f = f, !.args = args]
Address(x) == [Blank EXCEPT !.k = "address", !.reads = {x}]
If(x, st) == [st EXCEPT !.cond = {x}]

\* Uses of the variable known as x.
Menu(x) == {
    <<Set(x, {"v"})>>,
    <<Set("v", {x})>>,
    <<If(x, Set("v", {}))>>,
    <<If("v", Set(x, {}))>>,
    <<[Blank EXCEPT !.reads = {x}]>>,
    <<[Blank EXCEPT !.asks = {x}]>>,
    <<[Blank EXCEPT !.k = "alloc", !.to = x]>>,
    <<[Blank EXCEPT !.k = "alloc", !.to = "v", !.reads = {x}]>>,
    <<Point("q", x)>>,
    <<Point(x, "q")>>,
    <<Point("loc", x), Set("v", {"loc"})>>,
    <<Point("q", x), Set("q", {})>>,
    <<Set("v", {"q"})>>,
    <<Set("q", {})>>,
    <<Address(x)>>,
    <<[Blank EXCEPT !.k = "nml", !.of = "m"]>>}
\* What the helper does; d is its dummy argument.
Helps == {<<Set("w", {"v"})>>, <<Set("v", {"w"})>>, <<Set("d", {})>>, <<Set("v", {"d"})>>, <<Point("q", "d")>>, <<Point("q", "w")>>, <<Address("d")>>, <<Set("q", {})>>}

ModuleM(st) == [Unit("module", "m", "") EXCEPT !.decls = {Var("w"), Var("q"), Var("v")}, !.stmts = st]
Namelist == [Blank EXCEPT !.k = "namelist", !.reads = {"w"}]
Share == [Blank EXCEPT !.k = "share", !.to = "w", !.of = "v"]
Routine(st) == [Unit("procedure", "r", "m") EXCEPT !.stmts = <<Set("w", {})>> \o st]
Helper(st, bindc) == [Unit("procedure", "h", "m") EXCEPT !.dummies = <<"d">>, !.stmts = st, !.bindc = bindc]
ModuleN(use) == [Unit("module", "n", "") EXCEPT !.uses = {use}]
Other(st, decls) == [Unit("procedure", "s", "n") EXCEPT !.decls = {Var("loc")} \cup decls, !.stmts = st]
\* Calls the procedure it is handed.
Applier == [Unit("procedure", "a", "m") EXCEPT !.dummies = <<"g", "e">>, !.stmts = <<CallOf("g", <<"e">>)>>]
Main(st) == [Unit("program", "p", "") EXCEPT !.uses = {Use("m"), Use("n")}, !.stmts = st]
Program(m, r, h, n, s, p, interfaces, types, external, guards) ==
    [scopes |-> [m |-> m, r |-> r, h |-> h, n |-> n, s |-> s, a |-> Applier, p |-> p], interfaces |-> interfaces, types |-> types,
     routine |-> "r", external |-> external, candidates |-> {<<"m", "w">>, <<"m", "q">>}, guards |-> guards]

\* How s knows w: the use of m, the name, what s declares, whether that is compiled.
Ways == {[u |-> Use("m"), x |-> "w", d |-> {}, g |-> FALSE],
         [u |-> UseOnly("m", [x |-> "w", q |-> "q", v |-> "v"]), x |-> "x", d |-> {}, g |-> FALSE],
         [u |-> Rename("m", [x |-> "w"]), x |-> "x", d |-> {}, g |-> FALSE],
         [u |-> Use("m"), x |-> "w", d |-> {Var("w")}, g |-> FALSE],
         [u |-> Use("m"), x |-> "w", d |-> {IfDef("w")}, g |-> FALSE],
         [u |-> Use("m"), x |-> "w", d |-> {IfDef("w")}, g |-> TRUE]}
RunTwice == <<CallOf("r", <<>>), CallOf("s", <<>>), CallOf("r", <<>>), CallOf("s", <<>>)>>
Names == {Program(ModuleM(m), Routine(<<>>), Helper(<<>>, FALSE), ModuleN(w.u), Other(st, w.d), Main(RunTwice), {}, {}, {}, w.g) :
             m \in {<<>>, <<Namelist>>, <<Share>>}, <<w, st>> \in UNION {{w} \X (Menu(w.x) \cup {a \o b : a \in Menu(w.x), b \in Menu(w.x)}) : w \in Ways}}

\* How the helper is reached, and by whom besides the routine.
Direct == [r |-> <<CallOf("h", <<"w">>)>>, i |-> {}, t |-> {}, e |-> {}]
Bound == [r |-> <<[CallOf("b", <<"w">>) EXCEPT !.bound = TRUE]>>, i |-> {}, t |-> {[binding |-> "b", impl |-> "h"]}, e |-> {}]
Generic == [r |-> <<CallOf("gen", <<"w">>)>>, i |-> {[name |-> "gen", operator |-> FALSE, specifics |-> {"h"}]}, t |-> {}, e |-> {}]
Passed == [r |-> <<CallOf("a", <<"h", "w">>)>>, i |-> {}, t |-> {}, e |-> {}]
Kept == [Direct EXCEPT !.e = {"h"}]
Besides == {<<Set("v", {"q"})>>, <<Set("v", {})>>, <<CallOf("h", <<"v">>)>>, <<CallOf("gen", <<"q">>)>>, <<CallOf("a", <<"h", "v">>)>>,
            <<[CallOf("b", <<"q">>) EXCEPT !.bound = TRUE]>>}
Reaches == {Program(ModuleM(<<>>), Routine(x.r), Helper(h, c), ModuleN(Use("m")), Other(st, {}), Main(RunTwice), x.i, x.t, x.e, FALSE) :
               x \in {Direct, Bound, Generic, Passed, Kept}, h \in Helps, c \in BOOLEAN, st \in Besides}
Legal(p) == \A s \in {"r", "s"} : \A i \in DOMAIN p.scopes[s].stmts :
                LET st == p.scopes[s].stmts[i]
                IN st.k = "call" => (st.f = "gen" => p.interfaces # {}) /\ (st.bound => p.types # {})
\* Calls through a binding or a generic name are not followed to a procedure that keeps a pointer to its argument.
Keeps(p) == \E st \in {p.scopes.h.stmts[i] : i \in DOMAIN p.scopes.h.stmts} : (st.k = "point" /\ st.of = "d") \/ (st.k = "address")
MCPrograms == Names \cup {p \in Reaches : Legal(p) /\ ~(Keeps(p) /\ p.interfaces \cup p.types # {})}
=============================================================================
