----------------------------- MODULE ArrayExpr -----------------------------
(***************************************************************************)
(* Names and integer expressions shared by the Fortran side and the SDFG    *)
(* side of the descriptor model.  A name is the sequence of its parts       *)
(* between underscores, so that the builder's name[:len(prefix) + 1] tests  *)
(* are prefix tests on sequences.                                           *)
(***************************************************************************)
EXTENDS Integers, Sequences, FiniteSets, SequencesExt, Functions, TLC

Undef == -1000                     \* a cell nothing has defined
NoValue == -5000                   \* the value of a symbol nothing has bound
NoName == << >>

Lit(n) == [k |-> "int", n |-> n]
Sym(s) == [k |-> "sym", s |-> s]
Plus(x, y) == [k |-> "plus", l |-> x, r |-> y]
Times(x, y) == [k |-> "times", l |-> x, r |-> y]
\* a(ix) inside a subscript or a bound; in an SDFG expression, a container read
Elem(a, ix) == [k |-> "elem", a |-> a, ix |-> ix]
\* What the bridge renders for an operand it could not trace.
Unknown == [k |-> "?"]

Minus(x, y) == Plus(x, Times(Lit(-1), y))

RECURSIVE Subexprs(_)
Subexprs(e) ==
    {e} \cup CASE e.k \in {"plus", "times"} -> Subexprs(e.l) \cup Subexprs(e.r)
               [] e.k = "elem" -> UNION {Subexprs(e.ix[d]) : d \in DOMAIN e.ix}
               [] OTHER -> {}

SymsOf(e) == {x.s : x \in {y \in Subexprs(e) : y.k = "sym"}}
ArraysOf(e) == {x.a : x \in {y \in Subexprs(e) : y.k = "elem"}}
SymsOfAll(es) == UNION {SymsOf(es[d]) : d \in DOMAIN es}

\* e with every name of DOMAIN m replaced: a symbol by its expression, a container by the name that is.
NewName(n, m) == IF n \in DOMAIN m /\ m[n].k = "sym" THEN m[n].s ELSE n
RECURSIVE Subst(_, _)
Subst(e, m) ==
    CASE e.k = "sym" /\ e.s \in DOMAIN m -> m[e.s]
      [] e.k \in {"plus", "times"} -> [e EXCEPT !.l = Subst(e.l, m), !.r = Subst(e.r, m)]
      [] e.k = "elem" -> Elem(NewName(e.a, m), [d \in DOMAIN e.ix |-> Subst(e.ix[d], m)])
      [] OTHER -> e
SubstAll(es, m) == [d \in DOMAIN es |-> Subst(es[d], m)]

\* Column-major strides of a shape: 1, d0, d0 * d1, ...
ColumnMajor(dims) ==
    [d \in DOMAIN dims |->
        FoldLeft(LAMBDA x, y : Times(x, y), Lit(1), SubSeq(dims, 1, d - 1))]

Get(mem, c) == IF c \in DOMAIN mem THEN mem[c] ELSE Undef
Put(mem, c, v) == (c :> v) @@ mem

\* Symbol names the bridge mints for an array's extents and lower bounds.
D == <<"d0", "d1", "d2">>
DimName(n, d) == Append(n, D[d])
OffsetName(n, d) == <<"offset">> \o Append(n, D[d])
IsMember(base, n) == IsPrefix(base, n) /\ Len(n) > Len(base)
MemberOf(base, n) == SubSeq(n, Len(base) + 1, Len(n))
=============================================================================
