---------------------------- MODULE UseScopesMC ----------------------------
(* Programs of three modules A, B and C, a free procedure and the intrinsic module, entered at e in C. *)
EXTENDS UseScopes

N(s) == <<s>>
MCObjects == <<"ic", "pA", "vA", "pB", "vB", "iB", "e", "h", "loc", "free">>
MCUnits == <<"A", "B", "C", "iso", "k_module", "top">>
MCW == [free |-> "k_module"]
MCProvides == N("c") :> "ic" @@ N("d") :> "id"

Obj(home, kind, name) == [home |-> home, kind |-> kind, name |-> name, private |-> FALSE]
Ref(in, how, name, sig) == [in |-> in, how |-> how, name |-> name, sig |-> sig]
Whole(m) == [mod |-> m, whole |-> TRUE, only |-> {}]
Use(m, as, of) == [mod |-> m, whole |-> FALSE, only |-> {[as |-> N(as), of |-> N(of)]}]
Both(m, a, b) == [mod |-> m, whole |-> FALSE, only |-> {[as |-> N(a), of |-> N(a)], [as |-> N(b), of |-> N(b)]}]

\* c: the names, the USE statements and the references chosen.
Tree(c) ==
    LET drop == (IF c.iB = "-" THEN {"iB"} ELSE {}) \cup (IF c.loc = "-" THEN {"loc"} ELSE {})
        obj == [ic |-> Obj("iso", "var", N("c")), pA |-> Obj("A", "fn", N(c.pA)),
                vA |-> [Obj("A", "var", N("x")) EXCEPT !.private = c.private],
                pB |-> Obj("B", "fn", N("f")), vB |-> Obj("B", "var", N(c.vB)), iB |-> Obj("B", "iface", N(c.iB)),
                e |-> Obj("C", "fn", N("e")), h |-> Obj(c.hHome, "fn", N("h")), loc |-> Obj("e", "var", N(c.loc)),
                free |-> Obj("top", "fn", N("k"))]
        ref == 1 :> Ref("e", "call", N(c.n1), c.sig) @@ 2 :> Ref("e", "data", N(c.n2), 0)
               @@ 3 :> Ref("h", c.how3, N(c.n3), 1) @@ 4 :> Ref("h", "data", N(c.n4), 0)
               @@ 5 :> Ref("pA", "data", N("x"), 0) @@ 6 :> Ref("pB", "data", N(c.n6), 0)
               @@ 7 :> Ref("iB", "member", N("f"), 1) @@ 8 :> Ref("iB", "member", N(c.m2), 2)
               @@ 9 :> Ref("e", "call", N(c.n9), 1)
        spec == {"A", "B", "C", "iso"} \cup (IF c.eUses # <<>> \/ c.loc # "-" THEN {"e"} ELSE {})
                   \cup (IF c.hUses # <<>> \/ c.how3 = "arg" THEN {"h"} ELSE {})
        uses == [s \in {"A", "B", "C", "iso", "e", "h"} |->
                    CASE s = "B" -> c.bUses [] s = "C" -> c.cUses [] s = "e" -> c.eUses [] s = "h" -> c.hUses [] OTHER -> <<>>]
        all == [order |-> c.order, obj |-> obj, ref |-> ref, spec |-> spec, uses |-> [s \in spec |-> uses[s]]]
    IN Keep(all, DOMAIN obj \ drop)

Plain == [pA |-> "g", vB |-> "y", iB |-> "-", loc |-> "-", private |-> FALSE, hHome |-> "C", n1 |-> "f", sig |-> 1,
          n2 |-> "y", how3 |-> "call", n3 |-> "f", n4 |-> "y", n6 |-> "y", m2 |-> "g", n9 |-> "h",
          order |-> <<"C", "B", "A", "iso", "top">>, bUses |-> <<Whole("A")>>, cUses |-> <<Whole("B")>>, eUses |-> <<>>, hUses |-> <<>>]

\* Variables and procedures of one name in two modules, imported whole, one by one, renamed, or hidden by a local one.
Shadowing ==
    {[Plain EXCEPT !.pA = a, !.vB = b, !.loc = l, !.n1 = n, !.n2 = d, !.n4 = d4, !.n6 = d6, !.hHome = hh, !.bUses = bu, !.cUses = cu,
                   !.eUses = eu, !.hUses = hu] :
        a \in {"f", "g"}, b \in {"x", "y"}, l \in {"-", "y"}, n \in {"f", "q"}, d \in {"x", "y"}, d4 \in {"x", "z"},
        d6 \in {"x", "y"}, hh \in {"C", "e"}, bu \in {<<>>, <<Whole("A")>>},
        cu \in {<<Whole("B")>>, <<Use("A", "q", "f"), Both("B", "f", "y")>>, <<Both("B", "f", "x")>>},
        eu \in {<<>>, <<Use("B", "q", "f")>>}, hu \in {<<>>, <<Use("A", "z", "x")>>}}
\* A generic of B with a specific of B and one of A, called from C.
Generics ==
    {[Plain EXCEPT !.iB = "s", !.n1 = n, !.sig = g, !.n3 = n3, !.hHome = hh, !.loc = l, !.cUses = cu, !.eUses = eu] :
        n \in {"s", "f"}, g \in {1, 2, -1}, n3 \in {"s", "f", "g", "t"}, hh \in {"C", "e"}, l \in {"-", "g"},
        cu \in {<<Whole("B")>>, <<Both("B", "f", "s"), Use("B", "y", "y")>>}, eu \in {<<>>, <<Use("B", "t", "s")>>}}
\* The intrinsic module, the free procedure, a private variable, a procedure passed as an argument.
Outside ==
    {[Plain EXCEPT !.private = p, !.n4 = n4, !.how3 = w, !.n3 = n3, !.n9 = n9, !.hHome = hh, !.cUses = cu, !.eUses = eu, !.hUses = hu] :
        p \in BOOLEAN, n4 \in {"c", "d"}, w \in {"call", "arg"}, n3 \in {"f", "k"}, n9 \in {"h", "k"}, hh \in {"C", "e"},
        cu \in {<<Whole("B")>>, <<Whole("B"), Whole("iso")>>}, eu \in {<<>>, <<Use("iso", "d", "d")>>}, hu \in {<<>>, <<Whole("iso")>>}}

\* A private variable of A beside others of its name, with the module used whole, in part or not at all.
Private ==
    {[Plain EXCEPT !.private = TRUE, !.vB = b, !.loc = l, !.n2 = d, !.n4 = d4, !.n6 = d6, !.bUses = bu, !.cUses = cu, !.eUses = eu] :
        b \in {"x", "y"}, l \in {"-", "x"}, d \in {"x", "y"}, d4 \in {"x", "y"}, d6 \in {"x", "y"},
        bu \in {<<>>, <<Whole("A")>>, <<Use("A", "g", "g")>>}, cu \in {<<Whole("B")>>, <<Whole("A"), Use("B", "f", "f")>>},
        eu \in {<<>>, <<Use("B", "x", "x")>>, <<Whole("A")>>}}

Config(noop, dropped, optimize, rename) ==
    [entry |-> "e", noop |-> noop, dropped |-> dropped, optimize |-> optimize, rename |-> rename]
\* A free procedure declared EXTERNAL in one scope and called without a declaration in another is lost with the first;
\* the renaming passes lose the import of a variable under another name, and leave arguments alone.
Renamable(c) == c.hUses \in {<<>>, <<Whole("iso")>>}
Of(family, configs(_)) ==
    UNION {{[ast |-> Tree(c), cfg |-> g] : g \in configs(c)} : c \in {d \in family : Legal(Tree(d))}}
Merge == Config({}, {}, FALSE, FALSE)
MCSources ==
    Of({c \in Shadowing : c.loc = "-" \/ c.hHome = "e"} \cup Generics,
       LAMBDA c : (IF c.hHome = "C" THEN {Merge} ELSE {}) \cup {Config({}, {}, TRUE, Renamable(c))})
    \cup Of(Private, LAMBDA c : {Merge, Config({}, {}, TRUE, TRUE)})
    \cup Of({c \in Outside : c.how3 = "call" \/ c.n3 # c.n9}, LAMBDA c : {Merge, IF c.private THEN Config({"pB"}, {}, TRUE, c.how3 = "call") ELSE Config({"pB"}, {N("f")}, TRUE, FALSE)})
=============================================================================
