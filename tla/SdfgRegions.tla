---------------------------- MODULE SdfgRegions ----------------------------
(***************************************************************************)
(* Structured SDFGs and what the code DaCe generates from them computes.   *)
(*                                                                         *)
(* A region is a sequence of blocks:                                       *)
(*   state   the parts it runs in dataflow order; a part is a map scope    *)
(*           (over: its parameters, empty outside a map) with tasklets,    *)
(*           each reading some subsets and writing one (dyn: perhaps not,  *)
(*           wcr: combined with what is there)                             *)
(*   edge    an interstate edge that assigns a symbol                      *)
(*   cond    branches with conditions; the last may have none (ELSE)       *)
(*   loop    a variable from lo to hi by step, under a label               *)
(*   break                                                                 *)
(* Bounds and indices are linear: functions from names to coefficients,    *)
(* the constant under <<>>.  A subset is a box, a pair of bounds for every *)
(* dimension.                                                              *)
(***************************************************************************)
EXTENDS Integers, Sequences, FiniteSets, TLC

LOCAL INSTANCE SequencesExt
LOCAL INSTANCE FiniteSetsExt

Num(n) == IF n = 0 THEN <<>> ELSE <<>> :> n
Sym(s) == <<s>> :> 1
Coef(e, x) == IF x \in DOMAIN e THEN e[x] ELSE 0
Plus(e, f) == [x \in {y \in DOMAIN e \cup DOMAIN f : Coef(e, y) + Coef(f, y) # 0} |-> Coef(e, x) + Coef(f, x)]
Times(n, e) == IF n = 0 THEN Num(0) ELSE [x \in DOMAIN e |-> n * e[x]]
Minus(e, f) == Plus(e, Times(-1, f))
Symbols(e) == DOMAIN e \ {<<>>}
Subst(e, sub) ==
    MapThenFoldSet(Plus, Num(0), LAMBDA x : Times(e[x], IF x \in DOMAIN sub THEN sub[x] ELSE x :> 1), LAMBDA S : CHOOSE x \in S : TRUE, DOMAIN e)

State(parts) == [k |-> "state", parts |-> parts]
Tasklets(ops) == [over |-> <<>>, ops |-> ops]
Map(v, lo, hi, ops) == [over |-> <<[v |-> <<v>>, lo |-> lo, hi |-> hi]>>, ops |-> ops]
Edge(s, e) == [k |-> "edge", s |-> <<s>>, e |-> e, from |-> <<>>]
EdgeFrom(s, a, box) == [k |-> "edge", s |-> <<s>>, e |-> Num(0), from |-> <<[a |-> a, box |-> box]>>]
Cond(branches) == [k |-> "cond", branches |-> branches]
Loop(label, v, lo, hi, step, b) == [k |-> "loop", label |-> label, v |-> <<v>>, lo |-> lo, hi |-> hi, step |-> step, b |-> b]
Break == [k |-> "break"]

\* The regions inside a block, and the blocks inside a region.
Inner(b) == CASE b.k = "loop" -> <<b.b>> [] b.k = "cond" -> [i \in DOMAIN b.branches |-> b.branches[i].b] [] OTHER -> <<>>
RECURSIVE Blocks(_)
Blocks(r) == UNION {{r[i]} \cup UNION {Blocks(Inner(r[i])[j]) : j \in DOMAIN Inner(r[i])} : i \in DOMAIN r}
OfKind(r, k) == {b \in Blocks(r) : b.k = k}

-----------------------------------------------------------------------------
(* Execution.  S has the values of the symbols and arrays, whether the     *)
(* dynamic writes happen (coin), the order the threads of a map run in     *)
(* (down), the arrays an iteration of a loop finds uninitialised (fresh:   *)
(* pairs of a loop's label and an array) and whether a loop is being left. *)

Modulus == 1009
Junk == 777
Value(S, e) == MapThenSumSet(LAMBDA x : e[x] * (IF x = <<>> THEN 1 ELSE S.sy[x]), DOMAIN e)
Cells(S, a, box) == {x \in DOMAIN S.mem[a] : \A d \in DOMAIN box : Value(S, box[d][1]) <= x[d] /\ x[d] <= Value(S, box[d][2])}
Contents(S, a, box) == MapThenSumSet(LAMBDA x : S.mem[a][x] * (3 + x[1]), Cells(S, a, box))
Element(S, a, box) == MapThenSumSet(LAMBDA x : S.mem[a][x], Cells(S, a, box)) % 3

DoOp(S, op) ==
    LET v == 31 * op.id + 7 * FoldLeft(LAMBDA n, r : 5 * n + Contents(S, r.a, r.box), 0, op.reads)
        to == Cells(S, op.a, op.box)
    IN IF op.dyn /\ ~S.coin THEN S
       ELSE [S EXCEPT !.mem[op.a] = [x \in DOMAIN @ |-> IF x \in to THEN (v + x[1] + (IF op.wcr THEN 11 * @[x] ELSE 0)) % Modulus ELSE @[x]]]

RECURSIVE RunScope(_, _, _)
RunScope(S, over, ops) ==
    IF over = <<>> THEN FoldLeft(DoOp, S, ops)
    ELSE LET lo == Value(S, over[1].lo)
             hi == Value(S, over[1].hi)
             at(k) == IF S.down THEN hi + 1 - k ELSE lo - 1 + k
         IN FoldLeft(LAMBDA T, k : RunScope([T EXCEPT !.sy = (over[1].v :> at(k)) @@ @], Tail(over), ops), S, [k \in 1 .. hi - lo + 1 |-> k])

Holds(S, c) == CASE c.on = "else" -> TRUE [] c.on = "symbol" -> S.sy[c.s] = c.n [] c.on = "cell" -> Element(S, c.a, c.box) % 2 = 1

Start(S, b) == [S EXCEPT !.mem = [a \in DOMAIN @ |-> IF <<b.label, a>> \in S.fresh THEN [x \in DOMAIN @[a] |-> Junk] ELSE @[a]]]

RECURSIVE Run(_, _), RunLoop(_, _)
RunBlock(S, b) ==
    CASE b.k = "state" -> FoldLeft(LAMBDA T, p : RunScope(T, p.over, p.ops), S, b.parts)
      [] b.k = "edge" -> [S EXCEPT !.sy = (b.s :> IF b.from = <<>> THEN Value(S, b.e) ELSE Element(S, b.from[1].a, b.from[1].box)) @@ @]
      [] b.k = "cond" -> LET taken == {i \in DOMAIN b.branches : Holds(S, b.branches[i].c)}
                         IN IF taken = {} THEN S ELSE Run(S, b.branches[CHOOSE i \in taken : \A j \in taken : i <= j].b)
      [] b.k = "loop" -> [RunLoop([S EXCEPT !.sy = (b.v :> Value(S, b.lo)) @@ @], b) EXCEPT !.leaving = FALSE]
      [] b.k = "break" -> [S EXCEPT !.leaving = TRUE]
\* The condition of a loop is evaluated before every iteration.
RunLoop(S, b) ==
    LET v == S.sy[b.v]
        hi == Value(S, b.hi)
    IN IF S.leaving \/ (b.step > 0 /\ v > hi) \/ (b.step < 0 /\ v < hi) THEN S
       ELSE LET T == Run(Start(S, b), b.b) IN RunLoop([T EXCEPT !.sy = (b.v :> @[b.v] + b.step) @@ @], b)
Run(S, r) == FoldLeft(LAMBDA T, b : IF T.leaving THEN T ELSE RunBlock(T, b), S, r)
=============================================================================
