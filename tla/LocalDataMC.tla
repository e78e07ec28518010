---------------------------- MODULE LocalDataMC ----------------------------
EXTENDS LocalData

LOCAL INSTANCE SequencesExt

in == <<"in">>
out == <<"out">>
dims == <<"dims">>
w == <<"w">>            \* a module array
c == <<"c">>            \* a local scalar
t == <<"t">>            \* a local array
n == Sym("n")
m == Sym("m")
i == Sym("i")
j == Sym("j")
k == Sym("k")
N(x) == Num(x)
Add(e, x) == Plus(e, Num(x))

At(e) == <<<<e, e>>>>
To(e, f) == <<<<e, f>>>>
Put(id, a, box, reads) == [id |-> id, a |-> a, box |-> box, reads |-> reads, dyn |-> FALSE, wcr |-> FALSE]
Of(a, box) == [a |-> a, box |-> box]
Do(op) == State(<<Tasklets(<<op>>)>>)
Across(lo, hi, op) == State(<<Map("k", lo, hi, <<op>>)>>)
If(s, x, b) == [c |-> [on |-> "symbol", s |-> <<s>>, n |-> x], b |-> b]
IfCell(a, box, b) == [c |-> [on |-> "cell", a |-> a, box |-> box], b |-> b]
Else(b) == [c |-> [on |-> "else"], b |-> b]

Input(a, b, coin) == [sy |-> (<<"n">> :> a) @@ (<<"m">> :> a) @@ (<<"l">> :> 1), cells |-> (<<dims, <<0>>>> :> b), coin |-> coin, down |-> ~coin]
Sizes == (in :> 4) @@ (out :> 4) @@ (dims :> 1) @@ (w :> 3) @@ (c :> 1) @@ (t :> 2)

-----------------------------------------------------------------------------
(* What a call writes of the module array and reads of it, in all kinds of *)
(* shapes and orders.                                                      *)

PutW(e) == Put(1, w, At(e), <<Of(in, At(N(0)))>>)
AllOfW == Put(2, w, To(N(0), N(2)), <<>>)
First == {
    Across(N(0), N(2), PutW(k)),
    Across(N(0), m, PutW(k)),
    Do([AllOfW EXCEPT !.wcr = TRUE]),
    Loop("a", "i", N(0), N(1), 1, <<Do(PutW(i))>>),
    Loop("a", "i", N(0), N(2), 2, <<Do(PutW(i))>>),
    Across(N(0), Add(n, -1), Put(3, w, To(k, Add(k, 1)), <<>>)),
    Loop("a", "i", N(1), N(2), 1, <<Across(N(0), i, PutW(k))>>),
    Edge("m", Add(n, -1))}
Writers == {
    Across(N(0), Add(n, -1), PutW(k)),
    Do(PutW(N(2))),
    Do([AllOfW EXCEPT !.dyn = TRUE]),
    Loop("a", "i", Add(n, -1), N(0), -1, <<Do(PutW(i))>>),
    Loop("a", "i", N(0), N(2), 1, <<Cond(<<IfCell(in, At(i), <<Break>>)>>), Do(PutW(i))>>),
    Cond(<<If("n", 1, <<Do(AllOfW)>>), Else(<<Across(N(0), N(2), PutW(k))>>)>>),
    Cond(<<If("n", 1, <<Do(AllOfW)>>)>>),
    Cond(<<If("n", 1, <<Edge("m", N(0))>>), Else(<<Edge("m", N(2)), Do(AllOfW)>>)>>),
    EdgeFrom("m", in, At(N(1))),
    EdgeFrom("m", dims, At(N(0)))}
Get(e, f) == Put(4, out, At(e), <<Of(w, At(f))>>)
Readers == {
    Across(N(0), N(2), Get(k, k)),
    Across(N(0), Add(n, -1), Get(k, k)),
    Across(N(0), m, Get(k, k)),
    Across(N(0), n, Get(k, k)),
    Do(Get(N(0), N(1))),
    Do(Put(5, out, At(N(0)), <<Of(w, To(N(0), n))>>)),
    EdgeFrom("m", w, At(N(0))),
    Loop("b", "i", N(0), N(1), 1, <<Do(Get(i, Add(i, 1)))>>),
    Loop("b", "i", N(0), N(2), 1, <<Do(PutW(i)), Do(Get(i, i))>>),
    Loop("b", "i", N(0), N(2), 1, <<Do(Get(i, i)), Do(PutW(i))>>),
    Loop("b", "i", N(0), Add(n, -1), 1, <<Across(N(0), i, Get(k, k))>>),
    Loop("b", "i", N(0), N(1), 1, <<EdgeFrom("m", dims, At(N(0))), Across(N(0), m, PutW(k)), Do(Put(7, dims, At(N(0)), <<>>)), Across(N(0), m, Get(k, k))>>),
    State(<<Map("k", N(0), N(2), <<PutW(k), Get(k, k)>>)>>),
    State(<<Map("k", N(0), N(2), <<PutW(k)>>), Map("k", N(0), m, <<Get(k, k)>>)>>)}
CallProgram(r, cases) ==
    [r |-> r, size |-> Sizes, module |-> {w}, local |-> {}, cases |-> cases,
     inputs |-> {Input(a, b, coin) : a \in 0 .. 2, b \in {1, 2}, coin \in {TRUE, FALSE}}]
Recorded == {(<<"dims", "0", "0">> :> x) : x \in {1, 2}}
Calls == {CallProgram(<<a, b, r, Across(N(0), m, Put(6, out, At(Add(k, 1)), <<>>))>>, Recorded) : a \in First \cup Writers, b \in Writers, r \in Readers}

-----------------------------------------------------------------------------
(* Loops that use a local array or a local scalar.                         *)

PutOut(box) == Put(4, out, At(i), <<box>>)
SetT(id, box) == Put(id, t, box, <<Of(in, At(i))>>)
WithT == {
    <<Do(SetT(1, To(N(0), N(1)))), Do(PutOut(Of(t, To(N(0), N(1)))))>>,
    <<Do(SetT(1, At(N(0)))), Do(SetT(2, At(N(1)))), Do(PutOut(Of(t, At(Sym("l")))))>>,
    <<Do(SetT(1, At(N(0)))), Do(PutOut(Of(t, To(N(0), N(1)))))>>,
    <<Do(SetT(1, At(N(0)))), EdgeFrom("m", t, At(N(0))), Cond(<<If("m", 1, <<Do(PutOut(Of(t, At(N(0)))))>>)>>)>>,
    <<Cond(<<If("n", 1, <<Do(SetT(1, To(N(0), N(1))))>>), Else(<<Across(N(0), N(1), SetT(2, At(k)))>>)>>), Do(PutOut(Of(t, At(N(1)))))>>,
    <<Cond(<<If("n", 1, <<Do(SetT(1, To(N(0), N(1))))>>)>>), Cond(<<If("n", 1, <<Do(PutOut(Of(t, At(N(1)))))>>)>>)>>,
    <<Do(SetT(1, To(N(0), N(1)))), Cond(<<IfCell(t, At(N(0)), <<Do(PutOut(Of(t, At(N(1)))))>>)>>)>>,
    <<Do(PutOut(Of(t, At(N(0))))), Do(SetT(1, To(N(0), N(1))))>>,
    <<Do(SetT(1, At(N(1)))), Loop("in", "j", N(0), i, 1, <<Do([PutOut(Of(t, At(N(1)))) EXCEPT !.wcr = TRUE])>>)>>,
    <<Loop("in", "j", N(0), N(1), 1, <<Do(SetT(1, At(N(0)))), Do([PutOut(Of(t, At(N(0)))) EXCEPT !.wcr = TRUE])>>)>>,
    <<State(<<Map("k", N(0), N(1), <<SetT(1, At(k))>>), Map("k", N(0), N(1), <<Put(3, out, At(k), <<Of(t, At(k))>>)>>)>>)>>,
    <<State(<<Map("k", N(0), N(1), <<SetT(1, At(k)), Put(3, out, At(k), <<Of(t, At(k))>>)>>)>>)>>,
    <<Do([SetT(1, To(N(0), N(1))) EXCEPT !.dyn = TRUE]), Do(PutOut(Of(t, At(N(0)))))>>,
    <<Do([SetT(1, At(N(0))) EXCEPT !.wcr = TRUE]), Do(PutOut(Of(t, At(N(0)))))>>}
SetC(id) == Put(id, c, At(N(0)), <<Of(in, At(i))>>)
GetC == PutOut(Of(c, At(N(0))))
WithC == {
    <<Do(SetC(1)), Do(GetC)>>,
    <<State(<<Tasklets(<<SetC(1), GetC>>)>>)>>,
    <<State(<<Tasklets(<<GetC, SetC(1)>>)>>)>>,
    <<Cond(<<If("n", 1, <<Do(SetC(1))>>), Else(<<Do(SetC(2))>>)>>), Do(GetC)>>,
    <<Cond(<<If("n", 1, <<Do(SetC(1))>>)>>), Cond(<<If("n", 1, <<Do(GetC)>>)>>)>>,
    <<Cond(<<IfCell(in, At(i), <<Do(SetC(1)), Do(GetC)>>)>>)>>,
    <<Cond(<<IfCell(in, At(i), <<Do(SetC(1)), EdgeFrom("m", c, At(N(0))), Cond(<<If("m", 1, <<Do(GetC)>>)>>)>>)>>)>>,
    <<Do(SetC(1)), EdgeFrom("m", c, At(N(0))), Cond(<<If("m", 1, <<Do(GetC)>>)>>)>>,
    <<Do(SetC(1)), Loop("in", "j", N(0), N(1), 1, <<Do([GetC EXCEPT !.wcr = TRUE]), Do(SetC(2))>>)>>,
    <<Do(SetC(1)), Cond(<<IfCell(in, At(i), <<Break>>)>>), Do(GetC)>>,
    <<Loop("in", "j", N(0), N(1), 1, <<Do(SetC(1)), Do([GetC EXCEPT !.wcr = TRUE])>>)>>,
    <<Loop("in", "j", N(1), i, 1, <<Do(SetC(1))>>), Do(GetC)>>,
    <<Loop("in", "j", N(0), N(1), 1, <<Do([GetC EXCEPT !.wcr = TRUE]), Do(SetC(1))>>)>>}
Over1(b) == Loop("a", "i", N(0), N(2), 1, b)
Over2(b) == Loop("b", "i", Add(n, -1), N(0), -1, b)
Around(x, y, before) == {
    <<Over1(x), Over2(y)>>,
    <<before, Over1(x)>>,
    <<before, Over2(x), Over1(y)>>,
    <<Cond(<<If("n", 1, <<Over1(x)>>), Else(<<Over2(y)>>)>>)>>,
    <<Cond(<<If("n", 1, <<Over1(x)>>)>>), Cond(<<If("n", 2, <<Over2(y)>>)>>)>>,
    <<Edge("m", n), Cond(<<If("m", 1, <<Over1(x)>>)>>), Cond(<<If("n", 2, <<Over2(y)>>)>>)>>}
LoopProgram(r) ==
    [r |-> r, size |-> Sizes, module |-> {w}, local |-> {c, t}, cases |-> Recorded,
     inputs |-> {Input(a, 1, coin) : a \in 0 .. 2, coin \in {TRUE, FALSE}}]
LoopRegions == UNION {Around(x, y, Do(Put(7, t, To(N(0), N(1)), <<>>))) : x \in WithT, y \in WithT}
               \cup UNION {Around(x, y, Do(Put(7, w, To(N(0), N(1)), <<>>))) : x \in WithC, y \in WithC}
Loops == {LoopProgram(r) : r \in LoopRegions}

MCPrograms == Calls \cup Loops
=============================================================================
