------------------------------ MODULE LocalData ------------------------------
(***************************************************************************)
(* Which data of an SDFG is local, and to what.                            *)
(*                                                                         *)
(* make_substitute.py turns module arrays that take no value into a call   *)
(* and give none out of it into transients (infer_scratch, on the analysis *)
(* of incall_scratch.py); the optimisation pipeline then gives every loop  *)
(* a copy of the transients that are local to its iterations               *)
(* (loop_privatization.py, loop_scalar_fission.py), for LoopToMap to run   *)
(* the iterations in parallel.  All three rest on a proof that a read      *)
(* finds what the same call, or the same iteration, wrote.                 *)
(*                                                                         *)
(* An array's name is a tuple of strings; the copy for a loop has the      *)
(* loop's label behind it.  Regions are sequences of blocks, so the graph  *)
(* of a region is a path.  Nested SDFGs, views, library nodes and the      *)
(* contents of constant arrays are left out.                               *)
(***************************************************************************)
EXTENDS SdfgRegions

LOCAL INSTANCE SequencesExt
LOCAL INSTANCE FiniteSetsExt

CONSTANT Programs       \* [r: region, size: array -> elements, module, local: arrays, cases: recorded symbol values, inputs]

VARIABLES code,         \* the program
          region,       \* its region as the passes leave it
          transient,    \* the arrays that are not the caller's
          private,      \* pairs of a loop's label and an array every iteration may have for itself
          stage
vars == <<code, region, transient, private, stage>>

None == <<>>            \* an unknown bound or value; a known one is <<e>>
One(x) == <<x>>

-----------------------------------------------------------------------------
(* incall_scratch.py: comparisons over the ranges in scope.  Facts: the    *)
(* ranges, outermost first, and the values the other symbols can take.     *)

WithRange(f, v, lo, hi) == [f EXCEPT !.ranges = Append(@, [v |-> v, lo |-> lo, hi |-> hi])]

\* e at the end of every range where it is least; None where there is none.
Least(f, e) ==
    FoldRight(LAMBDA r, x : IF x = None \/ r.v \notin Symbols(x[1]) THEN x
                            ELSE LET end == IF Coef(x[1], r.v) > 0 THEN r.lo ELSE r.hi
                                 IN IF end = None THEN None ELSE One(Subst(x[1], r.v :> end[1])),
              f.ranges, One(e))
\* A number that is not negative, or one in all the cases.
Decided(f, x) ==
    /\ x # None
    /\ \/ Symbols(x[1]) = {} /\ Coef(x[1], <<>>) >= 0
       \/ /\ Symbols(x[1]) # {} /\ f.cases # {}
          /\ \A c \in f.cases : /\ Symbols(x[1]) \subseteq DOMAIN c
                                /\ Coef(Subst(x[1], [s \in Symbols(x[1]) |-> Num(c[s])]), <<>>) >= 0
Nonneg(f, e) == Decided(f, Least(f, e))
Le(f, a, b) == Nonneg(f, Minus(b, a))
Lt(f, a, b) == Nonneg(f, Minus(Minus(b, a), Num(1)))

Mentions(box, syms) == \E d \in DOMAIN box : (Symbols(box[d][1]) \cup Symbols(box[d][2])) \cap syms # {}
BoxOf(box, sub) == [d \in DOMAIN box |-> <<Subst(box[d][1], sub), Subst(box[d][2], sub)>>]

\* r without w in boxes; None when a comparison is undecided.  x: what is left to cut (cur), in one
\* dimension after the other, the pieces cut off, and whether all was decided.
CutDimension(f, x, d, r, w, below, above) ==
    [ok |-> /\ x.ok
            /\ below => Lt(f, r[1], w[1])
            /\ above => Lt(f, w[2], r[2]),
     pieces |-> x.pieces \o (IF below THEN <<[x.cur EXCEPT ![d] = <<r[1], Minus(w[1], Num(1))>>]>> ELSE <<>>)
                         \o (IF above THEN <<[x.cur EXCEPT ![d] = <<Plus(w[2], Num(1)), r[2]>>]>> ELSE <<>>),
     cur |-> [x.cur EXCEPT ![d] = <<IF below THEN w[1] ELSE r[1], IF above THEN w[2] ELSE r[2]>>]]
Pieces(x) == IF x.ok THEN One(x.pieces) ELSE None
Subtract(f, r, w) ==
    IF \E d \in DOMAIN w : Lt(f, r[d][2], w[d][1]) \/ Lt(f, w[d][2], r[d][1]) THEN One(<<r>>)
    ELSE Pieces(FoldLeft(LAMBDA x, d : CutDimension(f, x, d, x.cur[d], w[d], ~Le(f, w[d][1], x.cur[d][1]), ~Le(f, x.cur[d][2], w[d][2])),
                         [ok |-> TRUE, pieces |-> <<>>, cur |-> r], [d \in DOMAIN w |-> d]))

OrWhole(b, diff) == IF diff = None THEN <<b>> ELSE diff[1]
SubtractAll(f, boxes, written) ==
    FoldLeft(LAMBDA rem, w : SelectSeq(FlattenSeq([i \in DOMAIN rem |-> OrWhole(rem[i], Subtract(f, rem[i], w))]),
                                       LAMBDA b : ~\E d \in DOMAIN b : Lt(f, b[d][2], b[d][1])),
             boxes, written)

\* The smallest box holding `box' for every value of the range r.
Extreme(e, r, low) == IF r.v \in Symbols(e) THEN Subst(e, r.v :> IF (Coef(e, r.v) > 0) = low THEN r.lo[1] ELSE r.hi[1]) ELSE e
Hull(box, r) == [d \in DOMAIN box |-> <<Extreme(box[d][1], r, TRUE), Extreme(box[d][2], r, FALSE)>>]

\* Does the union of the boxes `written' provably hold r?  What the boxes of the same iteration leave
\* is widened over the ranges, from the innermost out, and compared with the boxes that do not depend on them.
Widen(f, g, x, outer) == [x EXCEPT !.written = outer, !.rem = SubtractAll(f, [i \in DOMAIN x.rem |-> Hull(x.rem[i], g)], outer)]
Covered(f, r, written) ==
    FoldRight(LAMBDA g, x : IF x.lost \/ ~\E i \in DOMAIN x.rem : Mentions(x.rem[i], {g.v}) THEN x
                            ELSE IF g.lo = None \/ g.hi = None THEN [x EXCEPT !.lost = TRUE]
                            ELSE Widen(f, g, x, SelectSeq(x.written, LAMBDA w : ~Mentions(w, {g.v}))),
              f.ranges, [rem |-> SubtractAll(f, <<r>>, written), written |-> written, lost |-> FALSE]).rem = <<>>

\* The union of `box' over v from lo to hi when that is exactly a box.
Over(box, v) == {d \in DOMAIN box : v \in Symbols(box[d][1]) \cup Symbols(box[d][2])}
Spread(box, v, lo, hi, over) ==
    LET end(d, e) == Subst(box[d][e], v :> IF (Coef(box[d][1], v) = 1) = (e = 1) THEN lo[1] ELSE hi[1])
    IN One([d \in DOMAIN box |-> IF d \in over THEN <<end(d, 1), end(d, 2)>> ELSE box[d]])
\* No holes: v in one dimension, moving both bounds by one, and every iteration writes something.
Gapless(f, box, v, over) ==
    /\ Cardinality(over) = 1
    /\ \A d \in over : /\ Coef(box[d][1], v) = Coef(box[d][2], v)
                       /\ Coef(box[d][1], v) \in {1, -1}
                       /\ Le(f, Subst(box[d][1], v :> Num(0)), Subst(box[d][2], v :> Num(0)))
\* With a range that may be empty.
WriteUnionOfAny(f, box, v, lo, hi) ==
    IF Over(box, v) = {} THEN One(box)
    ELSE IF lo # None /\ hi # None /\ Gapless(f, box, v, Over(box, v)) THEN Spread(box, v, lo, hi, Over(box, v))
    ELSE None
WriteUnion(f, box, v, lo, hi) ==
    IF Over(box, v) = {} THEN One(box)
    ELSE IF lo # None /\ hi # None /\ Le(f, lo[1], hi[1]) /\ Gapless(f, box, v, Over(box, v)) THEN Spread(box, v, lo, hi, Over(box, v))
    ELSE None

-----------------------------------------------------------------------------
(* What holds at a point: the boxes written on every path, the symbols'    *)
(* values, a version of every array that changes with each write; and the  *)
(* arrays with a read that is not covered.                                 *)

Env0 == [written |-> [a \in {} |-> <<>>], defs |-> [s \in {} |-> None], versions |-> [a \in {} |-> <<>>], bad |-> {}]
BoxesOf(env, a) == IF a \in DOMAIN env.written THEN env.written[a] ELSE <<>>
VersionOf(env, a) == IF a \in DOMAIN env.versions THEN env.versions[a] ELSE <<"0">>
DefOf(env, s) == IF s \in DOMAIN env.defs THEN env.defs[s] ELSE None
Known(env) == {s \in DOMAIN env.defs : env.defs[s] # None}
Values(env, subs) == [s \in Known(env) |-> env.defs[s][1]] @@ subs

Bump(env, arrays, label) == [env EXCEPT !.versions = [a \in arrays |-> label] @@ @]
AddBox(env, f, a, box) ==
    IF Covered(f, box, BoxesOf(env, a)) THEN env ELSE [env EXCEPT !.written = (a :> Append(BoxesOf(env, a), box)) @@ @]
Forget(env, syms) ==
    [env EXCEPT !.written = [a \in DOMAIN @ |-> SelectSeq(@[a], LAMBDA b : ~Mentions(b, syms))],
                !.defs = [s \in DOMAIN @ |-> IF s \in syms \/ (@[s] # None /\ Symbols(@[s][1]) \cap syms # {}) THEN None ELSE @[s]]]

\* The boxes every environment covers, the values and versions they agree on.
Meet(f, envs, label) ==
    LET E == {envs[i] : i \in DOMAIN envs}
        agree(v(_)) == Cardinality({v(e) : e \in E}) = 1
    IN [written |-> [a \in DOMAIN envs[1].written |-> SelectSeq(envs[1].written[a], LAMBDA b : \A e \in E : Covered(f, b, BoxesOf(e, a)))],
        defs |-> [s \in UNION {DOMAIN e.defs : e \in E} |-> IF agree(LAMBDA e : DefOf(e, s)) THEN DefOf(envs[1], s) ELSE None],
        versions |-> [a \in UNION {DOMAIN e.versions : e \in E} |-> IF agree(LAMBDA e : VersionOf(e, a)) THEN VersionOf(envs[1], a) ELSE label],
        bad |-> UNION {e.bad : e \in E}]

\* A read of `box' of a, found in the boxes `written'.
CheckRead(env, f, a, box, written) == IF Covered(f, box, written) THEN env ELSE [env EXCEPT !.bad = @ \cup {a}]
CodeRead(env, f, subs, r) == CheckRead(env, f, r.a, BoxOf(r.box, Values(env, subs)), BoxesOf(env, r.a))

\* An interstate edge: a symbol takes the value of an expression, or of an array's element, which has a
\* name of its own until the array is written again.
ElementName(env, r) == <<r.a[1], ToString(Coef(r.box[1][1], <<>>))>> \o VersionOf(env, r.a)
EdgeStep(b, env, f, subs) ==
    LET after == IF b.from = <<>> THEN env ELSE CodeRead(env, f, subs, b.from[1])
        known == b.from = <<>> \/ Symbols(b.from[1].box[1][1]) = {}
        val == IF b.from = <<>> THEN Subst(b.e, Values(env, subs)) ELSE ElementName(env, b.from[1]) :> 1
        out == Forget(after, {b.s})
    IN [out EXCEPT !.defs = (b.s :> IF known THEN One(val) ELSE None) @@ @]

WrittenArrays(r) == UNION {{s.parts[i].ops[j].a : j \in DOMAIN s.parts[i].ops} : <<s, i>> \in {<<t, k>> \in OfKind(r, "state") \X (1 .. 4) : k \in DOMAIN t.parts}}

-----------------------------------------------------------------------------
(* A state.  The parameters of a map get names of their own.               *)

ParamName(p, v) == Append(v, ToString(p))
\* The facts and the substitution inside the scope of part p.
Scope(st, p, f, vals) ==
    FoldLeft(LAMBDA x, r : [f |-> WithRange(x.f, ParamName(p, r.v), One(Subst(r.lo, x.subs)), One(Subst(r.hi, x.subs))),
                            subs |-> (r.v :> (ParamName(p, r.v) :> 1)) @@ x.subs],
             [f |-> f, subs |-> vals], st.parts[p].over)

\* The exact union of a write over the parameters of its scope, the innermost first.
Expand(st, p, sc, box) ==
    FoldRight(LAMBDA r, x : IF x = None THEN None
                            ELSE LET g == CHOOSE g \in {sc.f.ranges[i] : i \in DOMAIN sc.f.ranges} : g.v = ParamName(p, r.v)
                                 IN WriteUnion(sc.f, x[1], g.v, g.lo, g.hi),
              st.parts[p].over, One(box))

StateStep(st, env, f, subs, label) ==
    LET vals == Values(env, subs)
        sc == [p \in DOMAIN st.parts |-> Scope(st, p, f, vals)]
        op(p, j) == st.parts[p].ops[j]
        places == FlattenSeq([p \in DOMAIN st.parts |-> [j \in DOMAIN st.parts[p].ops |-> <<p, j>>]])
        certain(w) == ~op(w[1], w[2]).dyn /\ ~op(w[1], w[2]).wcr
        box(w) == BoxOf(op(w[1], w[2]).box, sc[w[1]].subs)
        \* Written earlier in this state: in the same scope by this iteration, in another by all of it.
        available(a, p, j) ==
            LET before == SelectSeq(places, LAMBDA w : certain(w) /\ op(w[1], w[2]).a = a /\ (w[1] < p \/ (w[1] = p /\ w[2] < j)))
                parts == [i \in DOMAIN before |-> IF before[i][1] = p THEN One(box(before[i])) ELSE Expand(st, before[i][1], sc[before[i][1]], box(before[i]))]
            IN FlattenSeq(parts)
        reads(w) == LET o == op(w[1], w[2]) IN o.reads \o (IF o.wcr THEN <<[a |-> o.a, box |-> o.box]>> ELSE <<>>)
        read(w, e, r) == CheckRead(e, sc[w[1]].f, r.a, BoxOf(r.box, sc[w[1]].subs), BoxesOf(env, r.a) \o available(r.a, w[1], w[2]))
        checked == FoldLeft(LAMBDA e, w : FoldLeft(LAMBDA e2, r : read(w, e2, r), e, reads(w)), env, places)
        add(e, w) == LET ex == IF certain(w) THEN Expand(st, w[1], sc[w[1]], box(w)) ELSE None
                     IN IF ex = None THEN e ELSE AddBox(e, f, op(w[1], w[2]).a, ex[1])
    IN FoldLeft(add, Bump(checked, WrittenArrays(<<st>>), label), places)

-----------------------------------------------------------------------------
(* Control flow.  label: where the block stands.                           *)

RECURSIVE RegionStep(_, _, _, _, _)
\* The branches one after the other, and the path around a conditional without ELSE.
CondStep(b, env, f, subs, label) ==
    LET hasElse == \E i \in DOMAIN b.branches : b.branches[i].c.on = "else"
        read(e, br) == IF br.c.on = "cell" THEN CodeRead(e, f, subs, br.c) ELSE e
        outs == [i \in DOMAIN b.branches |-> RegionStep(b.branches[i].b, env, f, subs, Append(label, ToString(i)))]
        after == Meet(f, IF hasElse THEN outs ELSE Append(outs, env), label)
    IN [after EXCEPT !.bad = @ \cup FoldLeft(read, env, b.branches).bad]

LoopStep(b, env, f, subs, label) ==
    LET assigned == {b.v} \cup {e.s : e \in OfKind(b.b, "edge")}
        changed == WrittenArrays(b.b)
        vals == Values(env, subs)
        start == Subst(b.lo, vals)
        end == Subst(b.hi, vals)
        lo == One(IF b.step > 0 THEN start ELSE end)
        hi == One(IF b.step > 0 THEN end ELSE start)
        inner == Append(b.v, "in")
        g == WithRange(f, inner, lo, hi)
        body == Bump(Forget(env, assigned), changed, Append(label, "in"))
        out == RegionStep(b.b, body, g, (b.v :> (inner :> 1)) @@ subs, Append(label, "body"))
        left == [Bump(Forget(env, assigned), changed, Append(label, "out")) EXCEPT !.bad = out.bad]
        \* What every iteration writes, over all iterations.
        add(e, a) == FoldLeft(LAMBDA e2, box :
                          LET u == WriteUnion(g, box, inner, lo, hi)
                          IN IF u = None \/ Mentions(u[1], {inner}) THEN e2 ELSE AddBox(e2, f, a, u[1]),
                      e, SelectSeq(out.written[a], LAMBDA x : x \notin {BoxesOf(body, a)[i] : i \in DOMAIN BoxesOf(body, a)} /\ ~Mentions(x, assigned)))
    IN IF OfKind(b.b, "break") # {} \/ b.step \notin {1, -1} \/ ~Le(f, lo[1], hi[1]) THEN left
       ELSE FoldLeft(add, left, SetToSeq(DOMAIN out.written))

BlockStep(b, env, f, subs, label) ==
    CASE b.k = "state" -> StateStep(b, env, f, subs, label)
      [] b.k = "edge" -> EdgeStep(b, env, f, subs)
      [] b.k = "cond" -> CondStep(b, env, f, subs, label)
      [] b.k = "loop" -> LoopStep(b, env, f, subs, label)
      [] b.k = "break" -> env
\* A region that ends in a break is not left normally.
LeftNormally(r, env, out) == IF r # <<>> /\ Last(r).k = "break" THEN [env EXCEPT !.bad = out.bad] ELSE out
RegionStep(r, env, f, subs, label) ==
    LeftNormally(r, env, FoldLeft(LAMBDA e, i : BlockStep(r[i], e, f, subs, Append(label, ToString(i))), env, [i \in DOMAIN r |-> i]))

UncoveredReads(r, cases) == RegionStep(r, Env0, [ranges |-> <<>>, cases |-> cases], [s \in {} |-> Num(0)], <<>>).bad
-----------------------------------------------------------------------------
(* loop_privatization.py and loop_scalar_fission.py: who touches an array. *)

OpReads(st) == UNION {UNION {{o.reads[i].a : i \in DOMAIN o.reads} : o \in {st.parts[p].ops[j] : j \in DOMAIN st.parts[p].ops}} : p \in DOMAIN st.parts}
EdgeReads(e) == {e.from[i].a : i \in DOMAIN e.from}
Touches(b, a) == (b.k = "state" /\ a \in OpReads(b) \cup WrittenArrays(<<b>>)) \/ (b.k = "edge" /\ a \in EdgeReads(b))
Touching(r, a) == {b \in Blocks(r) : Touches(b, a)}

\* The blocks of a region that are in no loop, and the outermost loops, in order.
RECURSIVE Flat(_)
Flat(r) == FlattenSeq([i \in DOMAIN r |-> <<r[i]>> \o (IF r[i].k = "cond" THEN FlattenSeq([j \in DOMAIN r[i].branches |-> Flat(r[i].branches[j].b)]) ELSE <<>>)])
OutermostLoops(r) == SelectSeq(Flat(r), LAMBDA b : b.k = "loop")
Users(r, a) == SelectSeq(OutermostLoops(r), LAMBDA b : Touching(b.b, a) # {})
Outside(r) == {b \in {Flat(r)[i] : i \in DOMAIN Flat(r)} : b.k # "loop"}

\* A region with a renamed to new, in states, edges and conditions.
RECURSIVE Renamed(_, _, _)
Renamed(r, a, new) ==
    LET to(x) == IF x = a THEN new ELSE x
        reads(s) == [i \in DOMAIN s |-> [s[i] EXCEPT !.a = to(@)]]
        op(o) == [o EXCEPT !.a = to(@), !.reads = reads(@)]
        cond(c) == IF c.on = "cell" THEN [c EXCEPT !.a = to(@)] ELSE c
        block(b) == CASE b.k = "state" -> [b EXCEPT !.parts = [p \in DOMAIN @ |-> [@[p] EXCEPT !.ops = [j \in DOMAIN @ |-> op(@[j])]]]]
                      [] b.k = "edge" -> [b EXCEPT !.from = reads(@)]
                      [] b.k = "cond" -> [b EXCEPT !.branches = [i \in DOMAIN @ |-> [c |-> cond(@[i].c), b |-> Renamed(@[i].b, a, new)]]]
                      [] b.k = "loop" -> [b EXCEPT !.b = Renamed(@, a, new)]
                      [] OTHER -> b
    IN [i \in DOMAIN r |-> block(r[i])]
\* The same in the outermost loops with these labels only; copy[label] is the loop's name for a.
RECURSIVE WithCopies(_, _, _)
WithCopies(r, a, copy) ==
    [i \in DOMAIN r |->
        CASE r[i].k = "loop" /\ r[i].label \in DOMAIN copy -> [r[i] EXCEPT !.b = Renamed(@, a, copy[r[i].label])]
          [] r[i].k = "cond" -> [r[i] EXCEPT !.branches = [j \in DOMAIN @ |-> [@[j] EXCEPT !.b = WithCopies(@, a, copy)]]]
          [] OTHER -> r[i]]

-----------------------------------------------------------------------------
(* Loops that never both run.                                              *)

\* The way down to the loop with this label: pairs of a block's position and the branch taken.
RECURSIVE PathTo(_, _)
PathTo(r, label) ==
    LET i == CHOOSE i \in DOMAIN r : \E b \in Blocks(<<r[i]>>) : b.k = "loop" /\ b.label = label
        into == {j \in DOMAIN r[i].branches : \E b \in OfKind(r[i].branches[j].b, "loop") : b.label = label}
    IN IF r[i].k = "loop" THEN <<<<i, 0>>>>
       ELSE LET j == CHOOSE j \in into : TRUE IN <<<<i, j>>>> \o PathTo(r[i].branches[j].b, label)

\* A symbol assigned once in the program stands for its expression.
Definition(r, s) ==
    LET of == {e \in OfKind(r, "edge") : e.s = s}
    IN IF Cardinality(of) = 1 /\ (CHOOSE e \in of : TRUE).from = <<>> THEN (CHOOSE e \in of : TRUE).e ELSE s :> 1
BranchesContradict(top, r, c, d) ==
    /\ c.on = "symbol" /\ d.on = "symbol"
    /\ LET x == Definition(top, c.s)
           y == Definition(top, d.s)
       IN /\ x = y /\ c.n # d.n
          /\ {e.s : e \in OfKind(r, "edge")} \cap Symbols(x) = {}
RECURSIVE Exclusive(_, _, _, _)
Exclusive(top, r, p, q) ==
    LET b == r[p[1][1]]
        c == r[q[1][1]]
    IN IF p[1] = q[1] THEN Len(p) > 1 /\ Exclusive(top, b.branches[p[1][2]].b, Tail(p), Tail(q))
       ELSE \/ p[1][1] = q[1][1]
            \/ /\ Len(p) > 1 /\ Len(q) > 1
               /\ BranchesContradict(top, r, b.branches[p[1][2]].c, c.branches[q[1][2]].c)
MutuallyExclusive(top, loops) ==
    \A i, j \in DOMAIN loops : i < j => Exclusive(top, top, PathTo(top, loops[i].label), PathTo(top, loops[j].label))

-----------------------------------------------------------------------------
(* Arrays local to an iteration.  `written': the elements some path of the *)
(* iteration has written; ok: every read so far is covered.                *)

Constant(box) == \A d \in DOMAIN box : Symbols(box[d][1]) \cup Symbols(box[d][2]) = {}
Elements(box) == IF Constant(box) THEN One({x \in [DOMAIN box -> 0 .. 4] : \A d \in DOMAIN box : Coef(box[d][1], <<>>) <= x[d] /\ x[d] <= Coef(box[d][2], <<>>)}) ELSE None
CoversElements(whole, written, elems) == IF elems = None THEN whole \subseteq written ELSE elems[1] \subseteq written

\* The memlet outside a map scope is the hull of the one inside.
OuterBox(part, box) == FoldRight(LAMBDA g, x : Hull(x, [v |-> g.v, lo |-> One(g.lo), hi |-> One(g.hi)]), part.over, box)
StateCovered(st, a, whole, x) ==
    LET writes(o) == o.a = a
        reads(o) == \E i \in DOMAIN o.reads : o.reads[i].a = a
        write(y, o, elems) ==
            [ok |-> y.ok /\ (o.wcr => CoversElements(whole, y.written, elems)),
             written |-> IF o.dyn \/ elems = None THEN y.written ELSE y.written \cup elems[1]]
        \* A value written earlier in the same map scope is read in that scope; an array has a node there
        \* only then, and what the whole map writes counts behind it.
        producer(p, j) == writes(p.ops[j]) /\ \E k \in j + 1 .. Len(p.ops) : reads(p.ops[k])
        inScope(p, j) == p.over # <<>> /\ \E k \in 1 .. j - 1 : writes(p.ops[k])
        read(y, p, j, r) == [y EXCEPT !.ok = @ /\ CoversElements(whole, y.written, Elements(IF inScope(p, j) THEN r.box ELSE OuterBox(p, r.box)))]
        inside(y, p, j) ==
            LET z == FoldLeft(LAMBDA u, r : IF r.a = a THEN read(u, p, j, r) ELSE u, y, p.ops[j].reads)
            IN IF writes(p.ops[j]) /\ (p.over = <<>> \/ producer(p, j)) THEN write(z, p.ops[j], Elements(p.ops[j].box)) ELSE z
        behind(y, p, o) == IF p.over # <<>> /\ writes(o) THEN write(y, o, Elements(OuterBox(p, o.box))) ELSE y
        part(y, p) == FoldLeft(LAMBDA z, o : behind(z, p, o), FoldLeft(LAMBDA z, j : inside(z, p, j), y, [j \in DOMAIN p.ops |-> j]), p.ops)
    IN FoldLeft(part, x, st.parts)

RECURSIVE WrittenAfter(_, _, _, _)
WrittenAfter(r, a, whole, x) ==
    LET cond(y, b) ==
            LET outs == {WrittenAfter(b.branches[i].b, a, whole, y) : i \in DOMAIN b.branches}
            IN [ok |-> /\ \A o \in outs : o.ok
                       /\ \A i \in DOMAIN b.branches : b.branches[i].c.on = "cell" /\ b.branches[i].c.a = a => CoversElements(whole, y.written, None),
                written |-> y.written \cup UNION {o.written : o \in outs}]
        block(y, b) ==
            CASE b.k = "state" -> StateCovered(b, a, whole, y)
              [] b.k = "cond" -> cond(y, b)
              [] b.k = "loop" -> WrittenAfter(b.b, a, whole, y)
              [] b.k = "edge" -> [y EXCEPT !.ok = @ /\ \A i \in DOMAIN b.from : b.from[i].a = a => CoversElements(whole, y.written, Elements(b.from[i].box))]
              [] b.k = "break" -> [y EXCEPT !.ok = FALSE]
    IN FoldLeft(block, x, r)

\* The innermost loop of L that holds every access of a.
InnermostLoop(L, a) ==
    LET holds == {M \in {L} \cup OfKind(L.b, "loop") : Touching(L.b, a) \subseteq Blocks(M.b)}
    IN CHOOSE M \in holds : OfKind(M.b, "loop") \cap holds = {}
IterationLocal(L, a, whole) == WrittenAfter(InnermostLoop(L, a).b, a, whole, [ok |-> TRUE, written |-> {}]).ok

-----------------------------------------------------------------------------
(* Scalars dead on entry.  x: whether the reads so far are defined, and    *)
(* whether the scalar is.                                                  *)

RECURSIVE Scan(_, _, _)
BlockExit(b, a, entry) ==
    CASE b.k = "state" ->
            LET ops == FlattenSeq([p \in DOMAIN b.parts |-> b.parts[p].ops])
                reads(j) == \E i \in DOMAIN ops[j].reads : ops[j].reads[i].a = a
                uncovered == \E j \in DOMAIN ops : reads(j) /\ \A k \in 1 .. j - 1 : ops[k].a # a
            IN [ok |-> ~uncovered \/ entry, defined |-> entry \/ a \in WrittenArrays(<<b>>)]
      [] b.k = "cond" ->
            LET outs == {Scan(b.branches[i].b, a, entry) : i \in DOMAIN b.branches}
                hasElse == \E i \in DOMAIN b.branches : b.branches[i].c.on = "else"
            IN [ok |-> \A o \in outs : o.ok, defined |-> (hasElse \/ entry) /\ \A o \in outs : o.defined]
      [] b.k = "loop" ->    \* again with what an iteration leaves
            LET first == Scan(b.b, a, entry)
                later == entry \/ first.defined
            IN [ok |-> IF later = entry THEN first.ok ELSE Scan(b.b, a, later).ok, defined |-> later]
      [] b.k = "edge" -> [ok |-> a \in EdgeReads(b) => entry, defined |-> entry]
      [] b.k = "break" -> [ok |-> TRUE, defined |-> entry]
Scan(r, a, entry) ==
    FoldLeft(LAMBDA x, b : LET y == BlockExit(b, a, x.defined) IN [ok |-> x.ok /\ y.ok, defined |-> y.defined],
             [ok |-> TRUE, defined |-> entry], r)

\* An edge directly in an outermost loop counts as outside every loop.
OutsideEdges(r, a) ==
    \E b \in Outside(r) \cup UNION {Outside(OutermostLoops(r)[i].b) \cap {OutermostLoops(r)[i].b[j] : j \in DOMAIN OutermostLoops(r)[i].b} : i \in DOMAIN OutermostLoops(r)} :
        b.k = "edge" /\ a \in EdgeReads(b)
OutsideStates(r, a) == \E b \in Outside(r) : b.k = "state" /\ Touches(b, a)

-----------------------------------------------------------------------------
(* The passes.                                                             *)

Init ==
    /\ code \in Programs
    /\ region = code.r
    /\ transient = code.local
    /\ private = {}
    /\ stage = "built"

Accessed(r) == UNION {OpReads(b) \cup WrittenArrays(<<b>>) : b \in OfKind(r, "state")} \cup UNION {EdgeReads(e) : e \in OfKind(r, "edge")}

\* make_substitute.py infer_scratch, make_scratch_transient: module arrays nothing reads outside.
InferScratch ==
    /\ stage = "built"
    /\ transient' = transient \cup ((code.module \cap Accessed(region)) \ UncoveredReads(region, code.cases))
    /\ stage' = "scratch"
    /\ UNCHANGED <<code, region, private>>

SizeOf(a) == code.size[<<a[1]>>]      \* of a copy: that of its array
WholeOf(a) == {<<i>> : i \in 0 .. SizeOf(a) - 1}

\* x: the region, the transients and the private arrays so far.
PrivatizeOne(x, a) ==
    LET loops == Users(x.r, a)
        readOutside == \E b \in Outside(x.r) : (b.k = "state" /\ a \in OpReads(b)) \/ (b.k = "edge" /\ a \in EdgeReads(b))
        writtenOutside == \E b \in Outside(x.r) : b.k = "state" /\ a \in WrittenArrays(<<b>>)
        exclusive == ~writtenOutside /\ MutuallyExclusive(x.r, loops)
        split == IF writtenOutside THEN loops ELSE Tail(loops)
        copy == [l \in {split[i].label : i \in DOMAIN split} |-> Append(a, l)]
        name(L) == IF L.label \in DOMAIN copy THEN copy[L.label] ELSE a
    IN IF \/ loops = <<>> \/ readOutside \/ (Len(loops) < 2 /\ ~writtenOutside)
          \/ (~exclusive /\ \E i \in DOMAIN loops : ~IterationLocal(loops[i], a, WholeOf(a)))
       THEN x
       ELSE [r |-> WithCopies(x.r, a, copy),
             transient |-> x.transient \cup {copy[l] : l \in DOMAIN copy},
             private |-> x.private \cup (IF exclusive THEN {} ELSE {<<InnermostLoop(loops[i], a).label, name(loops[i])>> : i \in DOMAIN loops})]
PrivatizeLoopLocalArrays ==
    /\ stage = "scratch"
    /\ \E x \in {FoldLeft(PrivatizeOne, [r |-> region, transient |-> transient, private |-> private], SetToSeq(transient))} :
           region' = x.r /\ transient' = x.transient /\ private' = x.private
    /\ stage' = "privatised"
    /\ UNCHANGED code

FissionOne(x, a) ==
    LET loops == Users(x.r, a)
        copy == [l \in {loops[i].label : i \in DOMAIN loops} |-> Append(Append(a, "f"), l)]
    IN IF \/ SizeOf(a) # 1 \/ loops = <<>> \/ OutsideStates(x.r, a) \/ OutsideEdges(x.r, a)
          \/ \E i \in DOMAIN loops : ~Scan(loops[i].b, a, FALSE).ok
       THEN x
       ELSE [r |-> WithCopies(x.r, a, copy),
             transient |-> (x.transient \ {a}) \cup {copy[l] : l \in DOMAIN copy},
             private |-> {p \in x.private : p[2] # a} \cup {<<l, copy[l]>> : l \in DOMAIN copy}]
FissionLoopLocalScalars ==
    /\ stage = "privatised"
    /\ \E x \in {FoldLeft(FissionOne, [r |-> region, transient |-> transient, private |-> private], SetToSeq(transient))} :
           region' = x.r /\ transient' = x.transient /\ private' = x.private
    /\ stage' = "done"
    /\ UNCHANGED code

Next == InferScratch \/ PrivatizeLoopLocalArrays \/ FissionLoopLocalScalars
Spec == Init /\ [][Next]_vars

-----------------------------------------------------------------------------
(* An input: the values of the free symbols, of the elements and of what   *)
(* the run leaves open.  Transients hold anything.                         *)

Arrays == DOMAIN code.size
Memory(arrays, trans, in) ==
    [a \in arrays |-> [x \in WholeOf(a) |-> IF a \in trans THEN Junk ELSE IF <<a, x>> \in DOMAIN in.cells THEN in.cells[<<a, x>>] ELSE 100 + code.size[a] * 7 + 17 * x[1]]]
StateOf(arrays, trans, fresh, in) ==
    [sy |-> in.sy, mem |-> Memory(arrays, trans, in), coin |-> in.coin, down |-> in.down, fresh |-> fresh, leaving |-> FALSE]
Observed == Arrays \ (code.module \cup code.local)
Outputs(r, arrays, trans, fresh, in) ==
    LET S == Run(StateOf(arrays, trans, fresh, in), r) IN [a \in Observed |-> S.mem[a]]

\* A region whose loops are taken for branches that may not run.
RECURSIVE Branching(_)
Branching(r) ==
    [i \in DOMAIN r |->
        CASE r[i].k = "loop" -> Cond(<<[c |-> [on |-> "loop"], b |-> Branching(r[i].b)]>>)
          [] r[i].k = "cond" -> [r[i] EXCEPT !.branches = [j \in DOMAIN @ |-> [@[j] EXCEPT !.b = Branching(@)]]]
          [] OTHER -> r[i]]
\* No scalar counts as defined in an iteration only because an inner loop, which may not run, or an earlier
\* iteration of one, writes it.  The scan takes it for defined behind the loop (loop_scalar_fission.py:134)
\* and forgets that the loop's first iteration reads it (131-139).
NoInnerLoopDefines ==
    \A i \in DOMAIN OutermostLoops(code.r), a \in code.local :
        LET b == OutermostLoops(code.r)[i].b
        IN SizeOf(a) = 1 /\ Scan(b, a, FALSE).ok => Scan(Branching(b), a, FALSE).ok

\* What the caller sees of a call does not depend on what its transients hold when the call starts, nor on
\* what a private array holds when an iteration starts: module arrays made transient take no value in
\* (incall_scratch.py), and iterations of a loop exchange nothing through a copy
\* (loop_privatization.py, loop_scalar_fission.py).
SameOutputs ==
    NoInnerLoopDefines =>
    \A in \in code.inputs :
        Outputs(region, Arrays \cup transient, transient, private, in) = Outputs(code.r, Arrays, code.local, {}, in)
=============================================================================
