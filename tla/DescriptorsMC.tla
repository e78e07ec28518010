--------------------------- MODULE DescriptorsMC ---------------------------
(***************************************************************************)
(* Routines for Descriptors: one family per way of declaring, associating   *)
(* or naming an array, crossed with lower bounds, extents and the kind of   *)
(* call.  Each routine is legal Fortran.                                    *)
(***************************************************************************)
EXTENDS Descriptors

A == <<"a">>
P == <<"p">>
Q == <<"q">>
I == <<"i">>
J == <<"j">>
N == <<"n">>
W == <<"w">>
Ix == <<"ix">>
K == <<"k">>

Ints(s) == [d \in DOMAIN s |-> Lit(s[d])]
Decl(n, form) ==
    [n |-> n, form |-> form, lb |-> << >>, ext |-> << >>, src |-> NoName, sec |-> << >>, init |-> << >>, written |-> FALSE,
     intent |-> IF form \in {"local", "constant", "inlined", "pointer", "remap"} THEN "" ELSE "inout", dtype |-> "real",
     pairs |-> FALSE, opaque |-> FALSE, role |-> "array"]
Arr(n, form, lb, ext) == [Decl(n, form) EXCEPT !.lb = lb, !.ext = ext]
SymArg(n) == [Decl(n, "explicit") EXCEPT !.intent = "in", !.role = "symbol"]
ScalarArg(n, intent) == [Decl(n, "explicit") EXCEPT !.intent = intent, !.role = "scalar"]
Local(n, role) == [Decl(n, "local") EXCEPT !.role = role]
Of(n, form, src, sec) == [Decl(n, form) EXCEPT !.src = src, !.sec = sec]

Stmt(op, n, ix, v, e, how) == [op |-> op, n |-> n, ix |-> ix, v |-> v, e |-> e, how |-> how]
PutS(n, ix, v) == Stmt("put", n, ix, v, Lit(0), "value")
GetS(n, ix) == Stmt("get", n, ix, 0, Lit(0), "value")
SizeS(n, d) == Stmt("size", n, << >>, d, Lit(0), "value")
SetS(n, e) == Stmt("set", n, << >>, 0, e, "value")
AssocS(n) == Stmt("assoc", n, << >>, 0, Lit(0), "value")
ObjectS(n, target, how) == Stmt("object", n, << >>, 0, Sym(target), how)
SinkS(n) == Stmt("sink", n, << >>, 0, Lit(0), "value")

Routine(decls, body, actual, sc) ==
    [decls |-> decls, dups |-> << >>, body |-> body, actual |-> actual, sc |-> sc, plan |-> << >>, source |-> FALSE, objects |-> << >>,
     mode |-> "binding", unsupported |-> FALSE]
Direct(p) == [p EXCEPT !.mode = "direct"]
Both(p) == {p, Direct(p)}
Actual(lb, ext, from) ==
    [lb |-> lb, ext |-> ext, data |-> [i \in 1 .. FoldLeft(LAMBDA x1, y : x1 * y, 1, ext) |-> from + i]]

(***************************************************************************)
(* Arrays of each form                                                      *)
(***************************************************************************)

\* First and last element, one in between and the extents, in a 2 x 3 array.
Corners(n, lb) ==
    <<PutS(n, <<Lit(lb[1]), Lit(lb[2])>>, 7), GetS(n, <<Lit(lb[1] + 1), Lit(lb[2] + 1)>>),
      GetS(n, <<Plus(Sym(N), Lit(lb[1])), Lit(lb[2] + 2)>>), GetS(n, <<Lit(lb[1]), Lit(lb[2])>>), SizeS(n, 1), SizeS(n, 2)>>
Bases == {<<1, 1>>, <<0, 1>>, <<1, -1>>, <<3, -2>>}

DeclaredArrays ==
    UNION {Both(Routine(<<SymArg(N), Arr(A, form, Ints(lb), Ints(<<2, 3>>))>>, Corners(A, lb),
                        A :> Actual(lb, <<2, 3>>, 20), N :> 1)) :
             lb \in Bases, form \in {"explicit", "assumed"}}
    \cup UNION {Both(Routine(<<SymArg(N), SymArg(J), Arr(A, form, <<Sym(N), Lit(1)>>, <<Sym(J), Lit(3)>>)>>,
                             Corners(A, <<1, 1>>), A :> Actual(<<1, 1>>, <<2, 3>>, 20), N :> 1 @@ J :> 2)) :
                  form \in {"explicit", "assumed"}}
    \cup {Routine(<<SymArg(N), Arr(A, "deferred", << >>, Ints(<<2, 3>>))>>, Corners(A, lb),
                  A :> Actual(lb, <<2, 3>>, 20), N :> 1) : lb \in Bases}
    \cup {Direct(Routine(<<SymArg(N), Arr(A, "deferred", << >>, Ints(<<2, 3>>))>>, Corners(A, lb),
                         A :> Actual(lb, <<2, 3>>, 20), N :> 1)) : lb \in Bases \ {<<3, -2>>}}
    \cup UNION {Both(Routine(<<SymArg(N), Arr(A, "local", Ints(lb), <<Plus(Sym(N), Lit(1)), Lit(3)>>)>>, Corners(A, lb),
                             << >>, N :> 1)) : lb \in Bases}

(***************************************************************************)
(* Dummies of inlined callees and pointers, over a 3 x 4 array              *)
(***************************************************************************)

At(e) == [at |-> e]
Sec(lo, hi) == [lo |-> lo, hi |-> hi, st |-> Lit(1), full |-> FALSE]
Every(lo, hi, st) == [lo |-> lo, hi |-> hi, st |-> st, full |-> FALSE]
Full(lb, ext) == [lo |-> Lit(lb), hi |-> Lit(lb + ext - 1), st |-> Lit(1), full |-> TRUE]

\* An array whose extents come from nobody.
Orphan == {[Direct(Routine(<<Arr(W, "deferred", << >>, Ints(<<3, 2>>))>>, <<PutS(W, Ints(<<2, 2>>), 7)>>, << >>, << >>))
              EXCEPT !.unsupported = TRUE]}

\* Elements (1) and (m) of a vector p, and its extent.
Ends(n, lb, m) == <<PutS(n, <<Lit(lb)>>, 7), GetS(n, <<Lit(lb + m - 1)>>), GetS(n, <<Lit(lb)>>), SizeS(n, 1)>>
\* The four corners of an m1 x m2 array p.
Corners4(n, m1, m2) ==
    <<PutS(n, <<Lit(1), Lit(1)>>, 7), GetS(n, <<Lit(m1), Lit(1)>>), GetS(n, <<Lit(1), Lit(m2)>>), PutS(n, Ints(<<m1, m2>>), 8),
      GetS(n, <<Lit(1), Lit(1)>>), SizeS(n, 1), SizeS(n, 2)>>

SourceDecl(form, lb) == IF form = "deferred" THEN Arr(A, form, << >>, Ints(<<3, 4>>)) ELSE Arr(A, form, Ints(lb), Ints(<<3, 4>>))
SectionRoutine(form, lb, d, body) ==
    Routine(<<SymArg(J), SymArg(N), SourceDecl(form, lb), d>>, <<AssocS(P)>> \o body, A :> Actual(lb, <<3, 4>>, 20),
            J :> lb[2] + 1 @@ N :> lb[2] + 2)
WithLb(d, lb) == [d EXCEPT !.lb = Ints(lb)]
WithExt(d, ext) == [d EXCEPT !.ext = Ints(ext), !.lb = [i \in DOMAIN ext |-> Lit(1)]]
Opaque(d) == [d EXCEPT !.opaque = TRUE]

SectionForms(form, lb) ==
    LET in(sec) == Of(P, "inlined", A, sec)
        ptr(sec) == Of(P, "pointer", A, sec)
        rows == Full(lb[1], 3)
        cols == Full(lb[2], 4)
    IN {SectionRoutine(form, lb, in(<<rows, At(Sym(J))>>), Ends(P, 1, 3)),
        SectionRoutine(form, lb, WithLb(in(<<At(Lit(lb[1] + 1)), Sec(Sym(J), Sym(N))>>), <<0>>), Ends(P, 0, 2)),
        SectionRoutine(form, lb, in(<<At(Lit(lb[1] + 1)), cols>>), Ends(P, 1, 4)),
        SectionRoutine(form, lb, in(<<rows, Sec(Sym(J), Sym(N))>>), Corners4(P, 3, 2)),
        SectionRoutine(form, lb, in(<<Sec(Lit(lb[1] + 1), Lit(lb[1] + 2)), Sec(Sym(J), Sym(N))>>), Corners4(P, 2, 2)),
        SectionRoutine(form, lb, in(<<Every(Lit(lb[1]), Lit(lb[1] + 2), Lit(2)), cols>>), Corners4(P, 2, 4)),
        SectionRoutine(form, lb, WithExt(in(<<At(Lit(lb[1])), At(Sym(J))>>), <<3>>), Ends(P, 1, 3)),
        SectionRoutine(form, lb, WithExt(in(<<At(Lit(lb[1])), At(Sym(J))>>), <<3, 2>>), Corners4(P, 3, 2)),
        SectionRoutine(form, lb, WithExt(in(<< >>), <<12>>), Ends(P, 1, 12)),
        SectionRoutine(form, lb, WithExt(in(<< >>), <<2, 2, 3>>),
                       <<PutS(P, Ints(<<2, 1, 2>>), 7), GetS(P, Ints(<<1, 2, 3>>)), SizeS(P, 3)>>),
        SectionRoutine(form, lb, WithExt(in(<<rows, Sec(Sym(J), Sym(N))>>), <<6>>), Ends(P, 1, 6)),
        SectionRoutine(form, lb, Opaque(in(<<rows, Sec(Sym(J), Sym(N))>>)), Corners4(P, 3, 2)),
        SectionRoutine(form, lb, Opaque(in(<<At(Lit(lb[1] + 1)), Sec(Sym(J), Sym(N))>>)), Ends(P, 1, 2)),
        SectionRoutine(form, lb, ptr(<<rows, At(Sym(J))>>), Ends(P, 1, 3)),
        SectionRoutine(form, lb, WithLb(ptr(<<rows, At(Sym(J))>>), <<0>>), Ends(P, 0, 3)),
        SectionRoutine(form, lb, ptr(<<Sec(Lit(lb[1] + 1), Lit(lb[1] + 2)), cols>>), Corners4(P, 2, 4))}

Sections == {SectionRoutine(form, <<1, 1>>, Of(P, "pointer", A, << >>), Corners4(P, 3, 4)) : form \in {"explicit", "assumed", "deferred"}}
            \cup UNION {SectionForms(form, lb) : form \in {"explicit", "assumed"}, lb \in {<<1, 1>>, <<0, 2>>}}
            \cup SectionForms("deferred", <<1, 1>>)

\* A section of a section, a remapped pointer, pairs of reals over a complex array, a pointer to a scalar.
Nested ==
    {Routine(<<SymArg(J), SourceDecl("assumed", lb), Of(P, "inlined", A, <<Full(1, 3), At(Sym(J))>>),
               Of(Q, "inlined", P, <<Sec(Lit(1), Lit(2))>>)>>,
             <<AssocS(P), AssocS(Q)>> \o Ends(Q, 1, 2) \o <<GetS(P, <<Lit(3)>>)>>, A :> Actual(lb, <<3, 4>>, 20), J :> 2) :
       lb \in {<<1, 1>>, <<1, 0>>}}
\* Section bounds the routine computes before the call.
Computed ==
    {Routine(<<SourceDecl("assumed", lb), Local(K, "symbol"), Opaque(Of(P, "inlined", A, <<Full(lb[1], 3), Sec(Sym(K), Lit(4))>>))>>,
             <<SetS(K, Minus(Elem(A, <<Lit(lb[1] + 1), Lit(lb[2])>>), Lit(20))), AssocS(P)>> \o Corners4(P, 3, 3),
             A :> Actual(lb, <<3, 4>>, 20), << >>) : lb \in {<<1, 1>>, <<0, 1>>}}
Remapped ==
    {Routine(<<SymArg(J), Arr(A, "explicit", <<Lit(lb)>>, <<Lit(6)>>),
               [Of(P, "remap", A, <<Sec(Sym(J), Plus(Sym(J), Lit(3)))>>) EXCEPT !.ext = Ints(<<2, 2>>), !.lb = Ints(<<1, 1>>)]>>,
             <<AssocS(P)>> \o Corners4(P, 2, 2), A :> Actual(<<lb>>, <<6>>, 20), J :> lb + 1) : lb \in {1, 0}}
Pairs ==
    {Routine(<<SymArg(J), [Arr(A, "explicit", Ints(<<lb, 1>>), Ints(<<3, 4>>)) EXCEPT !.dtype = "complex"],
               [WithExt(Of(P, "inlined", A, <<At(Lit(lb)), At(Sym(J))>>), <<2>> \o ext) EXCEPT !.pairs = TRUE]>>,
             <<AssocS(P), PutS(P, <<Lit(1)>> \o Ints(ext), 7), PutS(P, <<Lit(2)>> \o Ints(ext), 8),
               GetS(P, <<Lit(1)>> \o Ints(ext)), GetS(A, <<Lit(lb), Sym(J)>>)>>,
             A :> Actual(<<lb, 1>>, <<3, 4>>, 20), J :> 2) : lb \in {1, 0}, ext \in {<<3>>, <<3, 2>>}}
ScalarPointer ==
    {Routine(<<[d EXCEPT !.n = W], Of(P, "pointer", W, << >>)>>,
             <<SetS(W, Lit(4)), AssocS(P), GetS(P, << >>), PutS(P, << >>, 7), GetS(W, << >>)>>, << >>,
             IF d.intent = "" THEN << >> ELSE W :> 3) :
       d \in {Local(W, "scalar"), ScalarArg(W, "inout")}}

(***************************************************************************)
(* Data set at entry                                                        *)
(***************************************************************************)

Init4 == <<31, 32, 33, 34>>
Initialised ==
    {Routine(<<SymArg(N), [Arr(W, form, Ints(lb), Ints(<<2, 2>>)) EXCEPT !.init = Init4, !.written = w]>>,
             <<GetS(W, <<Lit(lb[1] + 1), Lit(lb[2])>>), GetS(W, <<Plus(Lit(lb[1]), Sym(N)), Lit(lb[2] + 1)>>)>>
             \o (IF w THEN <<PutS(W, Ints(lb), 9), GetS(W, Ints(lb))>> ELSE << >>), << >>, N :> 0) :
       lb \in {<<1, 1>>, <<0, 2>>}, form \in {"local"}, w \in BOOLEAN}
    \cup {Routine(<<[Local(W, "scalar") EXCEPT !.init = <<35>>, !.written = TRUE]>>,
                  <<GetS(W, << >>), SetS(W, Lit(9)), GetS(W, << >>)>>, << >>, << >>)}
    \cup {Routine(<<Arr(W, "local", <<Lit(1)>>, <<Lit(2)>>)>>, <<GetS(W, <<Lit(1)>>)>>, << >>, << >>)}

(***************************************************************************)
(* Indirect subscripts, bounds read from arrays, scalars                    *)
(***************************************************************************)

IxData == <<3, 1, 2>>
IxArg(form, lb) == Arr(Ix, form, <<Lit(lb)>>, <<Lit(3)>>)
WithIx(lb) == Ix :> [lb |-> <<lb>>, ext |-> <<3>>, data |-> IxData] @@ A :> Actual(<<0>>, <<5>>, 20)
AArg == Arr(A, "explicit", <<Lit(0)>>, <<Lit(5)>>)
Indirect ==
    UNION {Both(Routine(<<SymArg(J), IxArg("assumed", lb), AArg>>,
                   <<PutS(A, <<Elem(Ix, <<Sym(J)>>)>>, 7),
                     GetS(A, <<Plus(Elem(Ix, <<Plus(Elem(Ix, <<Sym(J)>>), Lit(lb - 1))>>), Lit(1))>>),
                     PutS(Ix, <<Sym(J)>>, 2), GetS(A, <<Elem(Ix, <<Sym(J)>>)>>)>>,
                   WithIx(lb), J :> lb + 1)) : lb \in {1, 0}}
    \cup {Routine(<<SymArg(J), IxArg("explicit", 1), AArg, Of(P, "inlined", Ix, sec)>>,
                   <<AssocS(P), GetS(A, <<Elem(P, <<Lit(1)>>)>>), GetS(A, <<Elem(P, <<Elem(P, <<Lit(2)>>)>>)>>)>>,
                   WithIx(1), J :> 1) : sec \in {<<Full(1, 3)>>, <<Sec(Sym(J), Lit(3))>>}}
    \cup {Routine(<<AArg, [Arr(Ix, "constant", <<Lit(1)>>, <<Lit(3)>>) EXCEPT !.init = IxData]>>,
                   <<GetS(A, <<Elem(Ix, <<Elem(Ix, <<Lit(1)>>)>>)>>)>>, A :> Actual(<<0>>, <<5>>, 20), << >>)}

\* Automatic arrays bounded by an element of ix; with a lower bound, the builder refuses a routine that writes ix.
Entries(lb, w) ==
    [Routine(<<IxArg("explicit", 1), AArg, Arr(W, "local", <<lb, Lit(1)>>, <<Elem(Ix, <<Lit(1)>>), Lit(2)>>)>>,
             (IF w THEN <<PutS(Ix, <<Lit(1)>>, 1)>> ELSE << >>)
             \o <<PutS(W, <<Lit(3), Lit(1)>>, 7), GetS(W, <<Lit(3), Lit(2)>>), GetS(W, <<Lit(3), Lit(1)>>), SizeS(W, 1)>>,
             WithIx(1), << >>) EXCEPT !.unsupported = w /\ lb.k = "elem"]
Automatic == {Entries(lb, w) : lb \in {Lit(1), Elem(Ix, <<Lit(1)>>)}, w \in BOOLEAN}

Scalars ==
    {Routine(<<ScalarArg(W, intent), Local(K, role), AArg>>,
             <<SetS(K, Plus(Sym(W), Elem(A, <<Lit(0)>>))), SetS(K, Minus(Sym(K), Lit(20))), GetS(A, <<Sym(K)>>),
               PutS(A, <<Sym(K)>>, 7)>>,
             A :> Actual(<<0>>, <<5>>, 20), W :> 2) : intent \in {"in", "inout"}, role \in {"symbol"}}
    \cup {Routine(<<ScalarArg(W, "inout"), Local(K, "scalar")>>,
                   <<SetS(K, Plus(Sym(W), Lit(1))), SetS(W, Times(Sym(K), Lit(2))), GetS(W, << >>), GetS(K, << >>)>>, << >>, W :> 2)}

(***************************************************************************)
(* Names                                                                    *)
(***************************************************************************)

S == <<"s">>
T == <<"t">>
O == <<"o">>
X == <<"x">>
Member(o, lb) == Arr(o \o X, "assumed", <<Lit(lb)>>, <<Lit(3)>>)
MemberData(o, lb, from) == o \o X :> Actual(<<lb>>, <<3>>, from)
Uses(n) == <<GetS(n, <<Lit(1)>>), PutS(n, <<Lit(2)>>, 7), GetS(n, <<Lit(2)>>)>>
ObjectRoutine(body) ==
    Routine(<<Member(S, 1), Member(S \o T, 0)>>, body, MemberData(S, 1, 20) @@ MemberData(S \o T, 0, 40), << >>)
Subscript == <<GetS(A, <<Elem(O \o X, <<Lit(1)>>)>>)>>
IndexMembers(owners) ==
    Routine(SetToSeq({[Member(o, 1) EXCEPT !.dtype = "int"] : o \in owners}) \o <<AArg>>, <<ObjectS(O, S, "lost")>> \o Subscript,
            A :> Actual(<<0>>, <<5>>, 20) @@ Merge({(o \o X) :> [lb |-> <<1>>, ext |-> <<3>>, data |-> IF o = S THEN IxData ELSE <<4, 4, 4>>] :
                                                     o \in owners}), << >>)
Objects ==
    {ObjectRoutine(<<ObjectS(O, S, "object")>> \o Uses(O \o X)),
     ObjectRoutine(<<ObjectS(O, S, "object"), ObjectS(Q, O, "object")>> \o Uses(Q \o X) \o Uses(O \o X)),
     ObjectRoutine(<<ObjectS(O, S \o T, "component")>> \o Uses(O \o X)),
     [ObjectRoutine(<<ObjectS(O, S \o T, "lost")>> \o Uses(O \o X)) EXCEPT !.source = TRUE],
     [ObjectRoutine(<<ObjectS(O, S, "lost")>> \o Uses(O \o X)) EXCEPT !.unsupported = TRUE],
     [ObjectRoutine(<<ObjectS(O, T, "object")>> \o Uses(O \o X)) EXCEPT !.objects = T :> S, !.plan = S :> {X}],
     IndexMembers({S}),
     [IndexMembers({S, T}) EXCEPT !.unsupported = TRUE],
     [IndexMembers({S}) EXCEPT !.objects = O :> S, !.body = Subscript],
     ObjectRoutine(<<SinkS(Q \o X), SinkS(Q \o T)>> \o Uses(S \o X)),
     [ObjectRoutine(<<SinkS(Q \o X)>> \o Uses(S \o X)) EXCEPT !.unsupported = TRUE]}

\* Names declared twice, and names the symbolic parser would misread.
Test == <<"test">>
Limit == <<"limit">>
Denom == <<"denom">>
Collisions ==
    {[Routine(<<AArg, Of(P, "inlined", A, <<Sec(Lit(1), Lit(3))>>)>>, <<AssocS(P)>> \o Ends(P, 1, 3) \o <<GetS(A, <<Lit(1)>>)>>,
              A :> Actual(<<0>>, <<5>>, 20), << >>) EXCEPT !.dups = dups] :
       dups \in {<<Local(A, "scalar")>>, <<Local(A, "symbol")>>, <<Arr(P, "explicit", <<Lit(0)>>, <<Lit(3)>>)>>}}
ReservedNames ==
    {Routine(<<SymArg(Limit), Arr(Test, form, <<Lit(0), Lit(1)>>, <<Sym(Limit), Lit(2)>>)>>,
             <<PutS(Test, <<Lit(0), Lit(2)>>, 7), GetS(Test, <<Minus(Sym(Limit), Lit(1)), Lit(1)>>), GetS(Test, <<Lit(0), Lit(2)>>),
               SizeS(Test, 1)>>,
             Test :> Actual(<<0, 1>>, <<3, 2>>, 20), Limit :> 3) : form \in {"explicit", "assumed"}}
    \cup {Direct(Routine(<<SymArg(Limit), Arr(Test, "explicit", <<Lit(0), Lit(1)>>, <<Sym(Limit), Lit(2)>>)>>,
             <<PutS(Test, <<Lit(0), Lit(2)>>, 7), GetS(Test, <<Minus(Sym(Limit), Lit(1)), Lit(1)>>), GetS(Test, <<Lit(0), Lit(2)>>)>>,
             Test :> Actual(<<0, 1>>, <<3, 2>>, 20), Limit :> 3))}
    \cup {Routine(<<AArg, Arr(Denom, "local", <<Lit(0)>>, <<Lit(3)>>), Of(P, "inlined", Denom, <<Sec(Lit(1), Lit(2))>>)>>,
                   <<PutS(Denom, <<Lit(2)>>, 7), AssocS(P), GetS(P, <<Lit(2)>>), PutS(P, <<Lit(1)>>, 1),
                     GetS(A, <<Elem(Denom, <<Lit(1)>>)>>)>>, A :> Actual(<<0>>, <<5>>, 20), << >>)}

DeclaredMC == DeclaredArrays \cup Orphan \cup Sections \cup Nested \cup Computed \cup Remapped \cup Pairs \cup ScalarPointer \cup Initialised
              \cup Indirect \cup Automatic \cup Scalars \cup Objects \cup Collisions \cup ReservedNames
=============================================================================
