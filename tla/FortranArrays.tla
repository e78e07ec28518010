--------------------------- MODULE FortranArrays ---------------------------
(***************************************************************************)
(* What Fortran says an array reference designates.  A declaration gets a   *)
(* dope vector: the storage it lives in, the offset of its first element,   *)
(* one stride, lower bound and extent per dimension.  Entry builds those of *)
(* the arguments, locals and globals; Associate those of an inlined         *)
(* callee's dummy or of a pointer, from the section it is bound to, with    *)
(* the subscripts' values at that moment.                                   *)
(*                                                                          *)
(* A declaration is [n, form, lb, ext, src, sec, ...]; a section has one    *)
(* entry per dimension of its source: [at |-> e] or [lo, hi, st |-> e...].  *)
(* A cell is <<storage, offset, component>>; the component is 1 or 2 in a   *)
(* complex array seen as pairs of reals, 1 elsewhere.                       *)
(***************************************************************************)
EXTENDS ArrayExpr

RECURSIVE FVal(_, _), FCell(_, _, _)
FVal(e, f) ==
    CASE e.k = "int" -> e.n
      [] e.k = "sym" -> Get(f.mem, FCell(e.s, << >>, f))
      [] e.k = "plus" -> FVal(e.l, f) + FVal(e.r, f)
      [] e.k = "times" -> FVal(e.l, f) * FVal(e.r, f)
      [] e.k = "elem" -> Get(f.mem, FCell(e.a, e.ix, f))
FCell(n, ix, f) ==
    LET v == f.dope[n]
        at == IF v.pairs THEN Tail(ix) ELSE ix
    IN <<v.base,
         v.start + SumFunction([d \in DOMAIN at |-> (FVal(at[d], f) - v.lb[d]) * v.str[d]]),
         IF v.pairs THEN FVal(ix[1], f) ELSE 1>>

FVals(es, f) == [d \in DOMAIN es |-> FVal(es[d], f)]
IntStrides(ext) == [d \in DOMAIN ext |-> FoldLeft(LAMBDA x, y : x * y, 1, SubSeq(ext, 1, d - 1))]
Whole(n, lb, ext) ==
    [base |-> n, start |-> 0, str |-> IntStrides(ext), lb |-> lb, ext |-> ext, pairs |-> FALSE]

IsRange(s) == "lo" \in DOMAIN s
Ranges(sec) == SelectSeq([d \in DOMAIN sec |-> d], LAMBDA d : IsRange(sec[d]))

\* The dope vector of declaration d once it is bound to its source.
Bound(d, f) ==
    LET s == f.dope[d.src]
        first(i) == IF IsRange(d.sec[i]) THEN FVal(d.sec[i].lo, f) ELSE FVal(d.sec[i].at, f)
        start == s.start + SumFunction([i \in DOMAIN d.sec |-> (first(i) - s.lb[i]) * s.str[i]])
        rs == Ranges(d.sec)
        st(j) == FVal(d.sec[rs[j]].st, f)
        dims(es) == IF d.pairs THEN Tail(es) ELSE es
        own == FVals(dims(d.ext), f)
    IN IF d.ext # << >>      \* explicit shape: sequence association
       THEN [base |-> s.base, start |-> start, str |-> IntStrides(own), lb |-> FVals(dims(d.lb), f),
             ext |-> own, pairs |-> d.pairs]
       ELSE IF d.sec = << >> THEN [s EXCEPT !.lb = IF d.lb = << >> THEN s.lb ELSE FVals(d.lb, f)]
       ELSE [base |-> s.base, start |-> start, str |-> [j \in DOMAIN rs |-> s.str[rs[j]] * st(j)],
             lb |-> IF d.lb = << >> THEN [j \in DOMAIN rs |-> 1] ELSE FVals(d.lb, f),
             ext |-> [j \in DOMAIN rs |->
                        (FVal(d.sec[rs[j]].hi, f) - FVal(d.sec[rs[j]].lo, f) + st(j)) \div st(j)],
             pairs |-> FALSE]
Associate(d, f) == [f EXCEPT !.dope = (d.n :> Bound(d, f)) @@ @]

\* A pointer, or an inlined callee's dummy, of derived type: its members are the members of its target.
AssociateObject(n, target, f) ==
    LET members == {r \in DOMAIN f.dope : IsMember(target, r)}
    IN [f EXCEPT !.dope = [q \in {n \o MemberOf(target, r) : r \in members} |-> @[target \o MemberOf(n, q)]] @@ @]

\* Storage order cells of an array of the given size, holding data.
Cells(n, data) == [c \in {<<n, i - 1, 1>> : i \in DOMAIN data} |-> data[c[2] + 1]]

Declare(p, d, f) ==
    LET passed == d.n \in DOMAIN p.actual /\ d.form \in {"assumed", "deferred"}
        data == IF d.n \in DOMAIN p.actual THEN p.actual[d.n].data
                ELSE IF d.n \in DOMAIN p.sc THEN <<p.sc[d.n]>> ELSE d.init
        lb == IF passed /\ d.form = "deferred" THEN p.actual[d.n].lb ELSE FVals(d.lb, f)
        ext == IF passed THEN p.actual[d.n].ext ELSE FVals(d.ext, f)
    IN IF d.src # NoName THEN f
       ELSE [mem |-> Cells(d.n, data) @@ f.mem, dope |-> (d.n :> Whole(d.n, lb, ext)) @@ f.dope]

\* The routine's state at entry: bounds of explicit-shape and automatic arrays are evaluated here, once.
Entry(p) ==
    FoldLeft(LAMBDA acc, n : AssociateObject(n, p.objects[n], acc),
             FoldLeft(LAMBDA acc, d : Declare(p, d, acc), [mem |-> << >>, dope |-> << >>], p.decls),
             SetToSeq(DOMAIN p.objects))

\* One statement: the new state, the cell it accesses and the value it reads or stores.
Result(f, c, v) == [f |-> f, c |-> c, v |-> v]
NoCell == <<NoName, 0, 0>>
Execute(p, s, f) ==
    CASE s.op = "put" -> Result([f EXCEPT !.mem = Put(@, FCell(s.n, s.ix, f), s.v)], FCell(s.n, s.ix, f), s.v)
      [] s.op = "get" -> Result(f, FCell(s.n, s.ix, f), Get(f.mem, FCell(s.n, s.ix, f)))
      [] s.op = "size" -> Result(f, NoCell, f.dope[s.n].ext[s.v])
      [] s.op = "set" -> Result([f EXCEPT !.mem = Put(@, FCell(s.n, << >>, f), FVal(s.e, f))], FCell(s.n, << >>, f),
                                FVal(s.e, f))
      [] s.op = "assoc" -> Result(Associate(CHOOSE d \in Range(p.decls) : d.n = s.n, f), NoCell, 0)
      [] s.op = "object" -> Result(AssociateObject(s.n, s.e.s, f), NoCell, 0)
      [] s.op = "sink" -> Result(f, NoCell, 0)
=============================================================================
