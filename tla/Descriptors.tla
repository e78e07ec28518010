---------------------------- MODULE Descriptors ----------------------------
(***************************************************************************)
(* From the bridge's VarInfo records to an SDFG whose memlets address the   *)
(* caller's memory: SDFGBuilder._classify and build() with                  *)
(* builder/descriptors.py, builder/access.py and the clean-up passes of the *)
(* builder package, then one call of the built SDFG, through a generated    *)
(* binding or directly (AutoDimSDFG), in lock step with the Fortran         *)
(* routine.                                                                 *)
(*                                                                          *)
(* prog is the routine: its declarations, statements and actual arguments.  *)
(* b is the builder, g the SDFG, f the Fortran routine's state, x the       *)
(* SDFG's: symbol values and container cells.                               *)
(***************************************************************************)
EXTENDS FortranArrays

CONSTANT Programs

VARIABLES prog, phase, b, g, f, x, pc, seen
vars == <<prog, phase, b, g, f, x, pc, seen>>

(***************************************************************************)
(* The bridge's records                                                     *)
(***************************************************************************)

DeclOf(p, n) == CHOOSE d \in Range(p.decls) : d.n = n
IsAssociated(d) == d.src # NoName

\* Smallest literal subscript below 1 the body uses in a dimension of n ("" when there is none).
Floor(p, n, d) ==
    LET low == {s.ix[d].n : s \in {t \in Range(p.body) : /\ t.op \in {"put", "get"} /\ t.n = n
                                                       /\ t.ix[d].k = "int" /\ t.ix[d].n < 1}}
    IN IF low = {} THEN Undef ELSE CHOOSE m \in low : \A y \in low : m <= y

ValueSymbol(e) == <<"sym">> \o e.a \o <<ToString(e.ix)>>
ValueSymbols(p) ==
    {[sym |-> ValueSymbol(e), arr |-> e.a, ix |-> e.ix] :
        e \in {y \in UNION {UNION {Subexprs(z) : z \in Range(d.lb) \cup Range(d.ext)} : d \in Range(p.decls)} :
               y.k = "elem"}}
RenderExtent(e) == IF e.k = "elem" THEN Sym(ValueSymbol(e)) ELSE e
RenderLowerBound(e) == IF e.k = "elem" THEN Sym(ValueSymbol(e)) ELSE IF e.k \in {"int", "sym"} THEN e ELSE Unknown

Plain(n) == [n |-> n, role |-> "array", shape |-> << >>, lbs |-> << >>, floors |-> << >>, source |-> NoName,
             subset |-> << >>, whole |-> FALSE, dimmap |-> << >>, data |-> << >>, written |-> FALSE,
             intent |-> "", dtype |-> "real", baked |-> FALSE, remap |-> FALSE]

\* Section entry of an inlined dummy, 0-based from the source's declared lower bound.
SubsetEntry(src, i, s) ==
    LET lb == IF src.form = "deferred" \/ src.lb = << >> THEN Lit(1) ELSE src.lb[i]
    IN IF ~IsRange(s) THEN [at |-> Minus(s.at, lb)]
       ELSE IF src.form = "deferred" /\ s.full THEN [full |-> TRUE]
       ELSE [lo |-> Minus(s.lo, lb), hi |-> Plus(Minus(s.hi, lb), Lit(1)), st |-> s.st]
IsTrivial(src, s) ==
    ~IsRange(s) \/ (s.st = Lit(1) /\ (s.lo = Lit(1) \/ (src.form = "deferred" /\ s.full)))
DimMapEntry(sec, i) == IF IsRange(sec[i]) THEN [dim |-> Cardinality({j \in 1 .. i : IsRange(sec[j])})]
                                          ELSE [at |-> sec[i].at]
Extent(s) == IF s.st = Lit(1) THEN Plus(Minus(s.hi, s.lo), Lit(1))
             ELSE [k |-> "int", n |-> (s.hi.n - s.lo.n + s.st.n) \div s.st.n]

AssociatedVar(p, d) ==
    LET src == DeclOf(p, d.src)
        rs == Ranges(d.sec)
        own == d.ext # << >>
        shape == IF own THEN [i \in DOMAIN d.ext |-> RenderExtent(d.ext[i])]
                 ELSE [j \in DOMAIN rs |-> IF d.opaque THEN Sym(DimName(d.n, j)) ELSE Extent(d.sec[rs[j]])]
        v == [Plain(d.n) EXCEPT !.source = d.src, !.shape = shape, !.dtype = IF d.pairs THEN "real" ELSE src.dtype,
                                !.lbs = IF d.lb = << >> THEN [j \in DOMAIN shape |-> Lit(1)] ELSE d.lb]
    IN IF d.sec = << >>      \* whole array: reinterpreted, or a pointer to all of it
       THEN [v EXCEPT !.role = "view_alias", !.whole = TRUE,
                      !.shape = IF own THEN shape ELSE IF src.ext = << >> THEN <<Lit(1)>>
                                ELSE [i \in 1 .. Len(src.ext) |-> Sym(DimName(d.n, i))],
                      !.lbs = IF own THEN @ ELSE << >>]
       ELSE IF d.form = "remap"
       THEN [v EXCEPT !.role = "array", !.remap = TRUE, !.subset = [i \in DOMAIN d.sec |-> SubsetEntry(src, i, d.sec[i])]]
       ELSE IF d.form = "inlined" /\ Len(rs) = Len(shape) /\ (\A i \in DOMAIN d.sec : IsTrivial(src, d.sec[i]))
       THEN [v EXCEPT !.role = "section_alias", !.dimmap = [i \in DOMAIN d.sec |-> DimMapEntry(d.sec, i)]]
       ELSE [v EXCEPT !.role = "view_alias", !.subset = [i \in DOMAIN d.sec |-> SubsetEntry(src, i, d.sec[i])]]

DeclaredVar(p, d) ==
    LET dims == 1 .. Len(d.ext)
        known == d.form \notin {"assumed", "deferred"}
    IN [Plain(d.n) EXCEPT
          !.role = IF dims # {} THEN "array" ELSE d.role,
          !.shape = [i \in dims |-> IF known THEN RenderExtent(d.ext[i]) ELSE Sym(DimName(d.n, i))],
          !.lbs = [i \in dims |-> IF d.form = "deferred" THEN Unknown ELSE RenderLowerBound(d.lb[i])],
          !.floors = [i \in dims |-> IF d.form = "deferred" THEN Floor(p, d.n, i) ELSE Undef],
          !.data = d.init, !.written = d.written, !.intent = d.intent, !.dtype = d.dtype,
          !.baked = d.form \in {"local", "constant"}]

VarInfo(p, d) == IF IsAssociated(d) THEN AssociatedVar(p, d) ELSE DeclaredVar(p, d)
Variables(p) == [i \in DOMAIN (p.decls \o p.dups) |-> VarInfo(p, (p.decls \o p.dups)[i])]

(***************************************************************************)
(* Classification and whole-object pointer aliases                          *)
(***************************************************************************)

ArrayRoles == {"array", "view_alias", "section_alias"}
LastOf(vs, ix) == vs[CHOOSE i \in ix : \A j \in ix : j <= i]
NamesOf(vs, roles) == {v.n : v \in {w \in Range(vs) : w.role \in roles}}

\* An alias keeps its name against a plain array of the same name, whichever comes last.
ArrayNamed(vs, n) ==
    LET named(roles) == {i \in DOMAIN vs : vs[i].n = n /\ vs[i].role \in roles}
        aliases == named(ArrayRoles \ {"array"})
    IN LastOf(vs, IF aliases # {} THEN aliases ELSE named({"array"}))

IsComponentAlias(v, vs) ==
    /\ v.role = "view_alias" /\ v.dtype = "real" /\ v.shape # << >> /\ v.shape[1] = Lit(2)
    /\ \E w \in Range(vs) : w.n = v.source /\ w.dtype = "complex"

Classified(vs) ==
    LET arrays == NamesOf(vs, ArrayRoles)
        symbols == NamesOf(vs, {"symbol"}) \ arrays
        scalars == NamesOf(vs, {"scalar"}) \ (arrays \cup symbols)
        of(n) == LastOf(vs, {i \in DOMAIN vs : vs[i].n = n /\ vs[i].role \notin ArrayRoles})
        add(seq, v) == IF v.role \in ArrayRoles /\ v.n \notin Range(seq) THEN Append(seq, v.n) ELSE seq
    IN [vars |-> vs,
        order |-> FoldLeft(add, << >>, vs),
        arrays |-> [n \in arrays |-> ArrayNamed(vs, n)],
        symbols |-> [n \in symbols |-> of(n)],
        scalars |-> [n \in scalars |-> of(n)],
        pairs |-> {n \in arrays : IsComponentAlias(ArrayNamed(vs, n), vs)},
        aliases |-> << >>, defs |-> {}, members |-> << >>, shapes |-> << >>, extents |-> << >>,
        offsets |-> << >>, floors |-> << >>]

Known(bd) == DOMAIN bd.arrays \cup DOMAIN bd.scalars \cup DOMAIN bd.symbols

\* Follows object_aliases from src until it leaves them or comes back.
RECURSIVE Chase(_, _, _)
Chase(aliases, src, visited) ==
    IF src \in DOMAIN aliases /\ aliases[src] \notin visited
    THEN Chase(aliases, aliases[src], visited \cup {aliases[src]}) ELSE src

resolve_object_member(bd, n) ==
    LET bases == {p \in DOMAIN bd.aliases : IsMember(p, n)}
        base == CHOOSE p \in bases : \A q \in bases : Len(q) <= Len(p)
        member == MemberOf(base, n)
        cand == Chase(bd.aliases, base, {base}) \o member
    IN IF n \in Known(bd) \/ bases = {} THEN NoName
       ELSE IF cand \in Known(bd) THEN cand
       ELSE IF member \in DOMAIN bd.members /\ bd.members[member] \in Known(bd) THEN bd.members[member]
       ELSE NoName

\* Bare member symbols of an aliased object, in an expression.
resolve_object_member_expr(bd, e) ==
    LET real(s) == resolve_object_member(bd, s)
        hits == {s \in SymsOf(e) : s \notin Known(bd) /\ real(s) \in DOMAIN bd.symbols}
    IN Subst(e, [s \in hits |-> Sym(real(s))])

IndexReads(p) == UNION {UNION {ArraysOf(s.ix[d]) : d \in DOMAIN s.ix} : s \in Range(p.body)}
UsedNames(p) == IndexReads(p) \cup {s.n : s \in Range(p.body)} \cup UNION {SymsOf(s.e) \cup ArraysOf(s.e) : s \in Range(p.body)}
Owners(n) == {SubSeq(n, 1, i) : i \in 1 .. Len(n) - 1}

\* A prefix no array has, whose members read in subscripts all exist under exactly one other prefix.
infer_component_aliases(bd, p) ==
    LET unresolved == {n \in IndexReads(p) : n \notin Known(bd) /\ Len(n) > 1}
        phantoms == UNION {Owners(n) : n \in unresolved}
        owners(suffix) == {SubSeq(r, 1, Len(r) - Len(suffix)) :
                             r \in {q \in DOMAIN bd.arrays : IsSuffix(suffix, q) /\ Len(q) > Len(suffix)}}
        common(pre) == {o \in UNION {owners(MemberOf(pre, n)) : n \in unresolved} :
                          \A n \in unresolved : IsMember(pre, n) => o \in owners(MemberOf(pre, n))}
        hits == {pre \in phantoms : Cardinality(common(pre)) = 1 /\ \A r \in DOMAIN bd.arrays : ~IsMember(pre, r)}
    IN [pre \in hits |-> CHOOSE o \in common(pre) : TRUE]

pointer_aliases_from_source(bd, p) ==
    LET assocs == {s \in Range(p.body) : s.op = "object" /\ p.source}
        useful == {s \in assocs : /\ \E r \in DOMAIN bd.arrays : IsMember(s.e.s, r)
                                  /\ \A r \in DOMAIN bd.arrays : ~IsMember(s.n, r)}
    IN [n \in {s.n : s \in useful} |-> (CHOOSE s \in useful : s.n = n).e.s]

\* Members that flatten under exactly one object of the flatten plan.
FlatMembers(plan) ==
    LET under(m) == {r \o m : r \in {q \in DOMAIN plan : m \in plan[q]}}
        unique == {m \in UNION Range(plan) : Cardinality(under(m)) = 1}
    IN [m \in unique |-> CHOOSE n \in under(m) : TRUE]

\* Owners of two or more member sinks without a descriptor: structs the flattening left opaque.
OpaqueSinks(bd, targets) ==
    LET sinks == {t \in targets : Len(t) > 1 /\ resolve_object_member(bd, t) = NoName}
        owners == {o \in UNION {Owners(t) : t \in sinks} :
                     o \notin Known(bd) /\ Cardinality({t \in sinks : IsMember(o, t)}) >= 2}
    IN {t \in sinks : \E o \in owners : t = o \/ IsMember(o, t)}

synth_view_alias(src, n) == [src EXCEPT !.n = n, !.role = "view_alias", !.source = src.n, !.whole = TRUE]

scan_object_aliases(bd, p) ==
    LET stores == {s \in Range(p.body) : s.op \in {"object", "sink"} /\ s.how # "lost" /\ s.n \notin Known(bd)}
        rebinds == {s \in stores : s.op = "object"}
        edges == {s \in rebinds : CASE s.how = "object" -> s.e.s \notin Known(bd)
                                    [] s.how = "component" -> \E r \in DOMAIN bd.arrays : IsMember(s.e.s, r)}
        direct == [n \in {s.n : s \in edges} |-> (CHOOSE s \in edges : s.n = n).e.s]
        recovered == pointer_aliases_from_source(bd, p) @@ infer_component_aliases(bd, p)
        with == [bd EXCEPT !.aliases = recovered @@ direct, !.members = FlatMembers(p.plan)]
        phantom == {pr \in UNION {{<<q, r>> : r \in {a \in DOMAIN bd.arrays : IsMember(recovered[q], a)}} :
                                    q \in DOMAIN recovered} :
                      pr[1] \o MemberOf(recovered[pr[1]], pr[2]) \in UsedNames(p) \ Known(bd)}
        name(pr) == pr[1] \o MemberOf(recovered[pr[1]], pr[2])
        synth == [n \in {name(pr) : pr \in phantom} |->
                    synth_view_alias(bd.arrays[(CHOOSE pr \in phantom : name(pr) = n)[2]], n)]
    IN [with EXCEPT !.arrays = @ @@ synth,
                    !.order = @ \o SetToSeq(DOMAIN synth),
                    !.defs = {s.n : s \in rebinds} \cup OpaqueSinks([with EXCEPT !.arrays = @ @@ synth], {s.n : s \in stores})]

(***************************************************************************)
(* Descriptors                                                              *)
(***************************************************************************)

\* The extents of array n: a whole-array view of the same rank has its source's.
ShapeOf(bd, n) ==
    LET v == bd.arrays[n]
        same == v.role = "view_alias" /\ v.whole /\ v.source \in DOMAIN bd.arrays
                /\ Len(bd.arrays[v.source].shape) = Len(v.shape)
        own == IF same THEN bd.arrays[v.source].shape ELSE v.shape
    IN [d \in DOMAIN own |->
          resolve_object_member_expr(bd, IF own[d] = Unknown THEN Sym(DimName(n, d)) ELSE own[d])]

\* <n>_d<i> stands for the declared extent where that is a name; for an alias dummy, also where it is an expression.
ExtentAliasesOf(bd, n, shape) ==
    LET stands(d) == /\ shape[d] # Sym(DimName(n, d))
                     /\ shape[d].k = "sym" \/ bd.arrays[n].role # "array"
    IN SelectSeq([d \in DOMAIN shape |-> IF stands(d) THEN <<DimName(n, d), shape[d]>> ELSE << >>],
                 LAMBDA a : a # << >>)

AddShapes(bd) ==
    LET shapes == [n \in DOMAIN bd.arrays |-> ShapeOf(bd, n)]
    IN [bd EXCEPT !.shapes = shapes,
                  !.extents = FlattenSeq([i \in DOMAIN bd.order |->
                                            ExtentAliasesOf(bd, bd.order[i], shapes[bd.order[i]])])]

ShapeSymbols(bd) ==
    DOMAIN bd.symbols \cup
    ({e.s : e \in {y \in UNION {Range(bd.shapes[n]) : n \in DOMAIN bd.shapes} : y.k = "sym"}}
     \ {v.n : v \in Range(bd.vars)})

PackedStrides(bd, v, dims) == ColumnMajor(dims)          \* mutant: every view is packed

\* Strides of a view over a section: the source's, times the section's, for the dimensions that survive; a section
\* the dummy flattens or reshapes is taken to be contiguous.
ViewStrides(bd, v, dims) ==
    LET src == ColumnMajor(bd.shapes[v.source])
        kept == SelectSeq([d \in DOMAIN v.subset |-> d], LAMBDA d : "at" \notin DOMAIN v.subset[d])
        step(d) == IF "st" \in DOMAIN v.subset[d] THEN v.subset[d].st ELSE Lit(1)
        usable == ~v.whole /\ Len(src) > 1 /\ Len(v.subset) = Len(src) /\ Len(kept) = Len(dims)
    IN IF usable THEN [j \in DOMAIN kept |-> Times(src[kept[j]], step(kept[j]))] ELSE ColumnMajor(dims)

Descriptor(kind, shape, strides, transient) ==
    [kind |-> kind, shape |-> shape, str |-> strides, transient |-> transient]

ArrayDescriptor(bd, v, dims) ==
    LET transient == v.intent = "" /\ v.baked
    IN CASE v.n \in bd.pairs -> Descriptor("view", Tail(dims), ColumnMajor(Tail(dims)), TRUE)
         [] v.remap -> Descriptor("view", dims, ColumnMajor(dims), TRUE)
         [] ~v.remap /\ v.n \notin bd.pairs /\ v.role = "view_alias" ->
              Descriptor("view", dims, ViewStrides(bd, v, dims), TRUE)
         [] OTHER -> IF transient /\ dims = <<Lit(1)>> THEN Descriptor("scalar", <<Lit(1)>>, <<Lit(1)>>, TRUE)
                     ELSE Descriptor("array", dims, ColumnMajor(dims), transient)

\* Length-1 arrays for what the caller must see written, for a complex input and for the target of a scalar pointer.
ScalarDescriptor(bd, v) ==
    LET viewed == \E a \in Range(bd.arrays) : a.role = "view_alias" /\ a.source = v.n
    IN IF viewed \/ v.intent \in {"out", "inout"} \/ (v.intent = "in" /\ v.dtype = "complex")
       THEN Descriptor("array", <<Lit(1)>>, <<Lit(1)>>, v.intent = "")
       ELSE Descriptor("scalar", <<Lit(1)>>, <<Lit(1)>>, v.intent = "")

\* The value of offset_<n>_d<i>: a literal, a symbol of the SDFG or a value-symbol; Unknown leaves it free.
OffsetValue(lb, symbols) == IF lb.k = "int" \/ (lb.k = "sym" /\ lb.s \in symbols) THEN lb ELSE Unknown

OffsetsOf(bd, v, symbols) ==
    LET lbs == IF v.n \in bd.pairs THEN Tail(v.lbs) ELSE v.lbs
        rank == Len(bd.shapes[v.n]) - (IF v.n \in bd.pairs THEN 1 ELSE 0)
    IN [o \in {OffsetName(v.n, d) : d \in 1 .. rank} |->
          LET d == CHOOSE i \in 1 .. rank : OffsetName(v.n, i) = o
          IN OffsetValue(IF v.remap \/ d > Len(lbs) THEN Lit(1) ELSE lbs[d], symbols)]

FloorsOf(v, offsets) ==
    LET low == {d \in DOMAIN v.floors : v.floors[d] # Undef /\ offsets[OffsetName(v.n, d)] = Unknown}
    IN [o \in {OffsetName(v.n, d) : d \in low} |-> v.floors[CHOOSE d \in low : OffsetName(v.n, d) = o]]

Merge(fs) == FoldLeft(LAMBDA acc, h : h @@ acc, << >>, SetToSeq(fs))
DescribedArrays(bd) == {n \in DOMAIN bd.arrays : bd.arrays[n].role # "section_alias"}

AddOffsets(bd, symbols) ==
    LET offsets == Merge({OffsetsOf(bd, bd.arrays[n], symbols) : n \in DescribedArrays(bd)})
    IN [bd EXCEPT !.offsets = offsets, !.floors = Merge({FloorsOf(bd.arrays[n], offsets) : n \in DescribedArrays(bd)})]

\* The complex slab a pair-of-reals dummy covers: its base element, extended over the dummy's other extents.
cc_alias_slab(v) ==
    [d \in DOMAIN v.subset |->
       IF d < Len(v.shape)
       THEN [lo |-> v.subset[d].at, hi |-> Plus(v.subset[d].at, v.shape[d + 1]), st |-> Lit(1)]
       ELSE v.subset[d]]

AllLinks(bd) ==                                          \* mutant: links for dummies without a descriptor too
    [n \in {m \in DOMAIN bd.arrays : bd.arrays[m].source # NoName} |->
        [src |-> bd.arrays[n].source, subset |-> bd.arrays[n].subset]]

Links(bd) ==
    [n \in {m \in DescribedArrays(bd) : bd.arrays[m].role = "view_alias" \/ bd.arrays[m].remap} |->
        LET v == bd.arrays[n]
        IN [src |-> v.source, subset |-> IF n \in bd.pairs THEN cc_alias_slab(v) ELSE v.subset]]

AddDescriptors(bd) ==
    LET scalars == DOMAIN bd.scalars \ (DOMAIN bd.arrays \cup ShapeSymbols(bd))
    IN [arrays |-> [n \in DescribedArrays(bd) |-> ArrayDescriptor(bd, bd.arrays[n], bd.shapes[n])]
                   @@ [n \in scalars |-> ScalarDescriptor(bd, bd.scalars[n])],
        symbols |-> ShapeSymbols(bd) \cup DOMAIN bd.offsets,
        links |-> Links(bd), linked |-> {}, user |-> << >>, consts |-> << >>, seeds |-> << >>, init |-> << >>, zero |-> {},
        code |-> << >>]

(***************************************************************************)
(* Constants and values set at entry                                        *)
(***************************************************************************)

\* Read-only initialised data no caller can bind, attached in storage order.
RegisterConstants(bd, sd) ==
    LET baked == {v \in Range(bd.vars) : v.data # << >> /\ ~v.written /\ v.baked /\ v.n \in DOMAIN sd.arrays}
    IN [sd EXCEPT !.consts = [n \in {v.n : v \in baked} |-> (CHOOSE v \in baked : v.n = n).data]]

\* Each array-element value-symbol, read once on the edge out of the empty start state (1-based element read).
SeedValueSymbols(sd, values) ==
    LET known == {vs \in values : vs.arr \in DOMAIN sd.arrays}
        read(vs) == Elem(vs.arr, [d \in DOMAIN vs.ix |-> Minus(vs.ix[d], Lit(1))])
    IN [sd EXCEPT !.symbols = @ \cup {vs.sym : vs \in known},
                  !.seeds = SetToSeq({[sym |-> vs.sym, arr |-> vs.arr, e |-> read(vs)] : vs \in known})]

\* Subscripts of the i-th element of an array of the given extents, column by column.
Unflatten(ext, i) == [d \in DOMAIN ext |-> ((i - 1) \div IntStrides(ext)[d]) % ext[d]]

\* Initialised data the routine writes becomes a transient, filled element by element in the entry state.
SeedWrittenInits(bd, sd) ==
    LET inits == {v \in Range(bd.vars) : v.written /\ v.data # << >> /\ v.n \in DOMAIN sd.arrays}
        ext(v) == [d \in DOMAIN v.shape |-> v.shape[d].n]
        stores(v) == {[n |-> v.n, ix |-> IF v.shape = << >> THEN <<0>> ELSE Unflatten(ext(v), i), v |-> v.data[i]] :
                        i \in DOMAIN v.data}
    IN [sd EXCEPT !.init = UNION {stores(v) : v \in inits},
                  !.arrays = [n \in DOMAIN @ |-> IF \E v \in inits : v.n = n /\ v.shape # << >>
                                                 THEN [@[n] EXCEPT !.transient = TRUE] ELSE @[n]]]

(***************************************************************************)
(* Emission of accesses                                                     *)
(***************************************************************************)

\* The storage an access through a dummy of an inlined callee names, and its subscripts there (still Fortran's).
RECURSIVE resolve_section_alias(_, _, _)
resolve_section_alias(bd, n, ix) ==
    LET real == resolve_object_member(bd, n)
        v == bd.arrays[n]
        splice == [d \in DOMAIN v.dimmap |->
                     IF "dim" \in DOMAIN v.dimmap[d] THEN ix[v.dimmap[d].dim] ELSE v.dimmap[d].at]
    IN IF real # NoName THEN [n |-> real, ix |-> ix]
       ELSE IF n \notin DOMAIN bd.arrays \/ v.role # "section_alias" THEN [n |-> n, ix |-> ix]
       ELSE resolve_section_alias(bd, v.source, splice)

Relative(bd, n, ix) ==
    [d \in DOMAIN ix |-> Minus(ix[d], IF n \in DOMAIN bd.arrays THEN Sym(OffsetName(n, d)) ELSE Lit(1))]

\* Indirect subscripts read into a symbol of their own, the innermost first.
AtSymbol(e) == e.a \o <<"at", ToString(e)>>
RECURSIVE Interned(_)
Interned(e) ==
    CASE e.k = "elem" -> Sym(AtSymbol(e))
      [] e.k \in {"plus", "times"} -> [e EXCEPT !.l = Interned(e.l), !.r = Interned(e.r)]
      [] OTHER -> e
InternedAll(ix) == [d \in DOMAIN ix |-> Interned(ix[d])]

indirect_to_dace(bd, e) ==
    LET r == resolve_section_alias(bd, e.a, InternedAll(e.ix))
    IN Elem(r.n, Relative(bd, r.n, r.ix))

collect_indirect(bd, ix) ==
    LET elems == {e \in UNION {Subexprs(ix[d]) : d \in DOMAIN ix} : e.k = "elem"}
        inner == SetToSortSeq(elems, LAMBDA e, h : Cardinality(Subexprs(e)) < Cardinality(Subexprs(h)))
    IN [i \in DOMAIN inner |-> [sym |-> AtSymbol(inner[i]), e |-> indirect_to_dace(bd, inner[i])]]

\* A scalar assignment lifted to an interstate edge: every array read in offset form, a length-1 array by its element.
RECURSIVE array_read_to_dace_expr(_, _, _)
array_read_to_dace_expr(bd, sd, e) ==
    CASE e.k = "sym" -> IF e.s \in DOMAIN sd.arrays THEN Elem(e.s, <<Lit(0)>>) ELSE resolve_object_member_expr(bd, e)
      [] e.k \in {"plus", "times"} -> [e EXCEPT !.l = array_read_to_dace_expr(bd, sd, e.l),
                                                !.r = array_read_to_dace_expr(bd, sd, e.r)]
      [] e.k = "elem" -> LET r == resolve_section_alias(bd, e.a, e.ix)
                             ix == [d \in DOMAIN r.ix |-> array_read_to_dace_expr(bd, sd, r.ix[d])]
                         IN Elem(r.n, Relative(bd, r.n, ix))
      [] OTHER -> e

Code(s, data, ix, comp, pre, e) ==
    [op |-> s.op, to |-> s.n, data |-> data, ix |-> ix, comp |-> comp, pre |-> pre, e |-> e, v |-> s.v]
Nothing(s) == [Code(s, NoName, << >>, Lit(1), << >>, Lit(0)) EXCEPT !.op = "skip"]

build_memlet(bd, s) ==
    LET r == resolve_section_alias(bd, s.n, s.ix)
        pair == s.n \in bd.pairs
        ix == InternedAll(IF pair THEN Tail(r.ix) ELSE r.ix)
    IN Code(s, r.n, IF ix = << >> THEN <<Lit(0)>> ELSE Relative(bd, r.n, ix),
            IF pair THEN Interned(r.ix[1]) ELSE Lit(1), collect_indirect(bd, s.ix), Lit(0))

\* SIZE of an array declared with its shape is that extent; of one known by its descriptor, the extent symbol.
SizeExpr(p, n, d) ==
    LET own == DeclOf(p, n).ext
    IN IF own # << >> /\ DeclOf(p, n).form \notin {"assumed", "deferred"} THEN RenderExtent(own[d]) ELSE Sym(DimName(n, d))

EmitNode(bd, sd, p, s) ==
    CASE s.op \in {"put", "get"} -> build_memlet(bd, s)
      [] s.op = "size" -> Code(s, NoName, << >>, Lit(1), << >>, SizeExpr(p, s.n, s.v))
      [] s.op = "set" -> Code(s, NoName, << >>, Lit(1), << >>, array_read_to_dace_expr(bd, sd, s.e))
      [] s.op = "assoc" \/ (s.op = "object" /\ s.how = "lost") -> Nothing(s)
      [] OTHER -> IF s.n \in bd.defs THEN Nothing(s) ELSE [build_memlet(bd, s) EXCEPT !.op = "put"]

\* Views whose source -> view edge some state holds: those accessed in a state, and those indirect subscripts read.
LinkedViews(sd, code) ==
    {n \in DOMAIN sd.links : \E i \in DOMAIN code : \/ code[i].op \in {"put", "get"} /\ code[i].data = n
                                                    \/ \E k \in DOMAIN code[i].pre : code[i].pre[k].e.a = n}

EmitNodes(bd, sd, p) ==
    LET code == [i \in DOMAIN p.body |-> EmitNode(bd, sd, p, p.body[i])]
    IN [sd EXCEPT !.code = code, !.linked = LinkedViews(sd, code)]

\* acc refuses a view whose source has no descriptor.
ViewsHaveSources(sd) == \A n \in sd.linked : sd.links[n].src \in DOMAIN sd.arrays

(***************************************************************************)
(* Renames, substitutions and clean-up of the built SDFG                    *)
(***************************************************************************)

\* The SDFG with every name of DOMAIN m replaced, in shapes, memlets, links, seeds and statements (SDFG.replace_dict).
ReplaceEntry(s, m) == [fld \in DOMAIN s |-> IF fld = "full" THEN s[fld] ELSE Subst(s[fld], m)]
ReplaceCode(c, m) ==
    [c EXCEPT !.to = NewName(@, m), !.data = NewName(@, m), !.ix = SubstAll(@, m), !.comp = Subst(@, m), !.e = Subst(@, m),
              !.pre = [k \in DOMAIN @ |-> [sym |-> NewName(@[k].sym, m), e |-> Subst(@[k].e, m)]]]
Keys(h, m) == [n \in {NewName(k, m) : k \in DOMAIN h} |-> h[CHOOSE k \in DOMAIN h : NewName(k, m) = n]]
Replaced(sd, m) ==
    LET arrays == Keys(sd.arrays, m)
        links == Keys(sd.links, m)
    IN [sd EXCEPT
          !.arrays = [n \in DOMAIN arrays |-> [arrays[n] EXCEPT !.shape = SubstAll(@, m), !.str = SubstAll(@, m)]],
          !.links = [n \in DOMAIN links |->
                       [src |-> NewName(links[n].src, m),
                        subset |-> [d \in DOMAIN links[n].subset |-> ReplaceEntry(links[n].subset[d], m)]]],
          !.linked = {NewName(n, m) : n \in @},
          !.consts = Keys(@, m),
          !.init = {[s EXCEPT !.n = NewName(@, m)] : s \in @},
          !.seeds = [k \in DOMAIN @ |-> [@[k] EXCEPT !.arr = NewName(@, m), !.e = Subst(@, m)]],
          !.code = [i \in DOMAIN @ |-> ReplaceCode(@[i], m)],
          !.symbols = {NewName(n, m) : n \in @}]

\* Symbols a descriptor, a link and a statement name.
DescriptorSyms(sd, n) == SymsOfAll(sd.arrays[n].shape) \cup SymsOfAll(sd.arrays[n].str)
LinkExprs(link) == UNION {{link.subset[d][fld] : fld \in DOMAIN link.subset[d] \ {"full"}} : d \in DOMAIN link.subset}
LinkSyms(link) == UNION {SymsOf(e) : e \in LinkExprs(link)}
CodeExprs(c) == Range(c.ix) \cup {c.comp, c.e} \cup {c.pre[k].e : k \in DOMAIN c.pre}
CodeSyms(c) == UNION {SymsOf(e) : e \in CodeExprs(c)}
Assigned(sd) == {sd.seeds[k].sym : k \in DOMAIN sd.seeds}
                \cup UNION {{c.to} \cup {c.pre[k].sym : k \in DOMAIN c.pre} :
                            c \in {y \in Range(sd.code) : y.op = "set" \/ y.pre # << >>}}

\* Containers some state accesses.
UsedContainers(sd) ==
    LET direct == {c.data : c \in {y \in Range(sd.code) : y.op \in {"put", "get"}}}
                  \cup {c.to : c \in {y \in Range(sd.code) : y.op = "set" /\ y.to \in DOMAIN sd.arrays}}
                  \cup {s.n : s \in sd.init}
    IN direct \cup sd.linked \cup {sd.links[n].src : n \in sd.linked}
NoContainers(sd) == {}                                   \* mutant: assignment text is not searched

\* Containers named only in the text of an assignment.
NamedContainers(sd) ==
    UNION {UNION {SymsOf(e) \cup ArraysOf(e) : e \in CodeExprs(c)} : c \in Range(sd.code)}
    \cup UNION {SymsOf(sd.seeds[k].e) \cup ArraysOf(sd.seeds[k].e) : k \in DOMAIN sd.seeds}
AllSyms(sd) ==
    UNION {DescriptorSyms(sd, n) : n \in DOMAIN sd.arrays} \cup UNION {LinkSyms(sd.links[n]) : n \in sd.linked}
    \cup UNION {CodeSyms(c) : c \in Range(sd.code)} \cup UNION {SymsOf(sd.seeds[k].e) : k \in DOMAIN sd.seeds}

Reserved == {<<"test">>, <<"limit">>}
Misread == Reserved \cup {<<"denom">>}
Ren(n) == <<"program">> \o n

\* A reserved name always; a name no caller sees also when the symbolic parser would misread it.
rename_reserved_collisions(sd) ==
    LET internal(n) == IF n \in DOMAIN sd.arrays THEN sd.arrays[n].transient ELSE n \in Assigned(sd)
        hits == {n \in DOMAIN sd.arrays \cup sd.symbols : n \in Reserved \/ (internal(n) /\ n \in Misread)}
    IN [Replaced(sd, [n \in hits |-> Sym(Ren(n))]) EXCEPT !.user = [r \in {Ren(n) : n \in hits} |-> Tail(r)]]

Unlowered(sd) ==
    \E e \in UNION {CodeExprs(c) : c \in Range(sd.code)} \cup UNION {LinkExprs(sd.links[n]) : n \in sd.linked} :
       Unknown \in Subexprs(e)

specialize_symbols(sd, consts) == [Replaced(sd, consts) EXCEPT !.symbols = @ \ DOMAIN consts]

\* The sequential renames alias -> target, composed.
Composed(aliases, present) ==
    FoldLeft(LAMBDA acc, a :
               IF a[2] = Sym(a[1]) THEN acc
               ELSE LET earlier == [n \in DOMAIN acc |-> Subst(acc[n], a[1] :> a[2])]
                    IN IF a[1] \in present THEN (a[1] :> a[2]) @@ earlier ELSE earlier,
             << >>, aliases)

\* Assignments that became n = n go.
DropIdentities(sd) ==
    [sd EXCEPT !.code = [i \in DOMAIN @ |-> IF @[i].op = "set" /\ @[i].e = Sym(@[i].to) THEN [@[i] EXCEPT !.op = "skip"]
                                            ELSE @[i]]]

collapse_symbol_aliases(sd, aliases) ==
    LET m == Composed(aliases, sd.symbols \cup DOMAIN sd.arrays \cup AllSyms(sd))
    IN [Replaced(sd, m) EXCEPT !.symbols = @ \ DOMAIN m]

Specialised(bd, sd) ==
    LET offs(k) == {o \in DOMAIN bd.offsets : bd.offsets[o].k = k}
        s1 == specialize_symbols(sd, [o \in offs("int") |-> bd.offsets[o]])
        s2 == collapse_symbol_aliases(s1, SetToSeq({<<o, bd.offsets[o]>> : o \in offs("sym")}))
    IN DropIdentities(collapse_symbol_aliases(s2, bd.extents))

RemoveScalarFortranShapeSymbols(sd) ==
    LET scalars == {n \in DOMAIN sd.arrays : sd.arrays[n].kind = "scalar"}
        referenced == UNION {SymsOfAll(sd.arrays[n].shape) : n \in DOMAIN sd.arrays}
    IN [sd EXCEPT !.symbols = @ \ ({s \in @ : \E n \in scalars, d \in 1 .. 3 : s \in {DimName(n, d), OffsetName(n, d)}}
                                   \ referenced)]

BindingNames(p) == UNION {{o \o m : m \in p.plan[o]} : o \in DOMAIN p.plan}

prune_unused_arrays(sd, keep) ==
    LET live == UsedContainers(sd) \cup NamedContainers(sd) \cup sd.symbols \cup AllSyms(sd) \cup keep
    IN [sd EXCEPT !.arrays = [n \in {m \in DOMAIN @ : m \in live \/ ~@[m].transient} |-> @[n]]]

SectionViews(bd) == {n \in DOMAIN bd.arrays : bd.arrays[n].role = "view_alias" /\ ~bd.arrays[n].whole /\ n \notin bd.pairs}

\* Element counts of a view's section, per dimension of its source.
section_sizes(sd, link) ==
    [d \in DOMAIN link.subset |->
        IF "full" \in DOMAIN link.subset[d] THEN sd.arrays[link.src].shape[d]
        ELSE IF "at" \in DOMAIN link.subset[d] THEN Lit(1)
        ELSE Minus(link.subset[d].hi, link.subset[d].lo)]

\* A placeholder extent of a section view is assigned from the section just before its first use.
define_section_view_extents(sd, views) ==
    LET triplets(n) == SelectSeq([d \in DOMAIN sd.links[n].subset |-> d],
                                 LAMBDA d : "at" \notin DOMAIN sd.links[n].subset[d])
        open == {pr \in (views \cap DOMAIN sd.arrays \cap DOMAIN sd.links) \X (1 .. 3) :
                   /\ sd.links[pr[1]].src \in DOMAIN sd.arrays
                   /\ Len(triplets(pr[1])) = Len(sd.arrays[pr[1]].shape)
                   /\ pr[2] \in DOMAIN sd.arrays[pr[1]].shape
                   /\ sd.arrays[pr[1]].shape[pr[2]] = Sym(DimName(pr[1], pr[2]))}
        uses(c, n, s) == s \in CodeSyms(c) \/ n \in {c.data} \cup UNION {ArraysOf(e) : e \in CodeExprs(c)}
        users(pr) == {i \in DOMAIN sd.code : sd.code[i].op # "skip" /\ uses(sd.code[i], pr[1], DimName(pr[1], pr[2]))}
        first(pr) == CHOOSE i \in users(pr) : \A j \in users(pr) : i <= j
        here(i) == {pr \in open : users(pr) # {} /\ first(pr) = i}
        def(pr) == [sym |-> DimName(pr[1], pr[2]), e |-> section_sizes(sd, sd.links[pr[1]])[triplets(pr[1])[pr[2]]]]
    IN [sd EXCEPT !.code = [i \in DOMAIN @ |-> [@[i] EXCEPT !.pre = SetToSeq({def(pr) : pr \in here(i)}) \o @]]]

(***************************************************************************)
(* Signature                                                                *)
(***************************************************************************)

UnresolvedAccess(sd) == UsedContainers(sd) \ DOMAIN sd.arrays

collect_needed_symbols(sd) ==
    LET sites == UNION {CodeSyms(c) \cup UNION {ArraysOf(e) : e \in CodeExprs(c)} : c \in {y \in Range(sd.code) : y.op # "skip"}}
                 \cup UNION {LinkSyms(sd.links[n]) : n \in sd.linked}
                 \cup UNION {DescriptorSyms(sd, n) : n \in UsedContainers(sd)}
    IN ((sites \cup sd.symbols) \ Assigned(sd)) \ DOMAIN sd.arrays

WrittenContainers(sd) ==
    {c.data : c \in {y \in Range(sd.code) : y.op = "put"}} \cup {s.n : s \in sd.init}
    \cup {c.to : c \in {y \in Range(sd.code) : y.op = "set" /\ y.to \in DOMAIN sd.arrays}}
    \cup {sd.links[n].src : n \in {m \in sd.linked : \E c \in Range(sd.code) : c.op = "put" /\ c.data = m}}

NeverStale(sd) == FALSE                                  \* mutant: no constancy check

\* A value frozen at entry that a memlet also subscripts with, over an array the routine writes.
StaleValueSymbol(sd) ==
    LET subset == UNION {SymsOfAll(c.ix) : c \in Range(sd.code)} \cup UNION {LinkSyms(sd.links[n]) : n \in sd.linked}
    IN \E k \in DOMAIN sd.seeds : sd.seeds[k].arr \in WrittenContainers(sd) /\ sd.seeds[k].sym \in subset

zero_init_unwritten_transients(sd) ==
    LET read == {c.data : c \in {y \in Range(sd.code) : y.op = "get"}}
    IN [sd EXCEPT !.zero = {n \in read \cap DOMAIN sd.arrays :
                              /\ sd.arrays[n].transient /\ sd.arrays[n].kind # "view"
                              /\ n \notin DOMAIN sd.consts /\ n \notin {sd.seeds[k].arr : k \in DOMAIN sd.seeds}
                              /\ n \notin WrittenContainers(sd)}]

attach_frozen_signature(sd) == collect_needed_symbols(sd) \ (sd.symbols \cup DOMAIN sd.arrays)

(***************************************************************************)
(* One call                                                                 *)
(***************************************************************************)

User(sd, n) == IF n \in DOMAIN sd.user THEN sd.user[n] ELSE n

RECURSIVE SVal(_, _, _), SCell(_, _, _, _)
SVal(e, sd, m) ==
    CASE e.k = "int" -> e.n
      [] e.k = "sym" -> IF e.s \in DOMAIN sd.arrays
                        THEN IF sd.arrays[e.s].kind = "scalar" THEN Get(m.mem, SCell(e.s, <<Lit(0)>>, sd, m)) ELSE NoValue
                        ELSE IF e.s \in DOMAIN m.sym THEN m.sym[e.s] ELSE NoValue
      [] e.k = "plus" -> SVal(e.l, sd, m) + SVal(e.r, sd, m)
      [] e.k = "times" -> SVal(e.l, sd, m) * SVal(e.r, sd, m)
      [] e.k = "elem" -> Get(m.mem, SCell(e.a, e.ix, sd, m))
      [] OTHER -> NoValue
\* The cell a memlet with 0-based subscripts addresses; through a view, from where its section starts.
SCell(n, ix, sd, m) ==
    LET desc == sd.arrays[n]
        at == SumFunction([d \in DOMAIN ix |-> SVal(ix[d], sd, m) * SVal(desc.str[d], sd, m)])
        link == sd.links[n]
        first == [d \in DOMAIN sd.arrays[link.src].shape |->
                    IF d \notin DOMAIN link.subset \/ "full" \in DOMAIN link.subset[d] THEN Lit(0)
                    ELSE IF "at" \in DOMAIN link.subset[d] THEN link.subset[d].at ELSE link.subset[d].lo]
        base == SCell(link.src, first, sd, m)
    IN IF n \notin DOMAIN sd.arrays \/ (desc.kind = "view" /\ (n \notin sd.linked \/ link.src \notin DOMAIN sd.arrays))
       THEN <<NoName, 0, 1>>
       ELSE IF desc.kind = "view" THEN [base EXCEPT ![2] = @ + at] ELSE <<User(sd, n), at, 1>>

\* Symbols the caller supplies: scalars by name, extents and lower bounds from the arrays it passes.  A binding knows
\* each array by its Fortran name; a direct caller passes it under the container's.
Passed(sd, p) == DOMAIN p.actual \ (IF p.mode = "direct" THEN Range(sd.user) ELSE {})
Dims(sd, p) == {pr \in Passed(sd, p) \X (1 .. 3) : pr[2] \in DOMAIN p.actual[pr[1]].ext}
BoundValue(sd, p, s) ==
    LET dims == {pr \in Dims(sd, p) : s = DimName(pr[1], pr[2])}
        lows == {pr \in Dims(sd, p) : s = OffsetName(pr[1], pr[2]) /\ p.mode = "binding"}
        first(prs) == CHOOSE pr \in prs : TRUE
    IN IF User(sd, s) \in DOMAIN p.sc THEN p.sc[User(sd, s)]
       ELSE IF dims # {} THEN p.actual[first(dims)[1]].ext[first(dims)[2]]
       ELSE IF lows # {} THEN p.actual[first(lows)[1]].lb[first(lows)[2]] ELSE NoValue

\* AutoDimSDFG: an offset not given is its floor or 1; an extent not given is an error where a state accesses the array.
IsOffset(s) == s[1] = "offset"
IsDim(s) == ~IsOffset(s) /\ Len(s) > 1 /\ s[Len(s)] \in Range(D)
Unbound(sd, p, names) ==
    {s \in names : /\ p.mode = "direct" /\ IsDim(s) /\ BoundValue(sd, p, s) = NoValue
                   /\ SubSeq(s, 1, Len(s) - 1) \in UsedContainers(sd)}
SymbolValue(bd, sd, p, s) ==
    LET given == BoundValue(sd, p, s)
    IN IF given # NoValue \/ p.mode = "binding" THEN given
       ELSE IF IsOffset(s) THEN IF s \in DOMAIN bd.floors THEN bd.floors[s] ELSE 1
       ELSE IF IsDim(s) THEN 1 ELSE NoValue

Assign(sd, m, a) == [m EXCEPT !.sym = (a.sym :> SVal(a.e, sd, m)) @@ @]
Size(sd, n, m) == FoldLeft(LAMBDA v, e : v * SVal(e, sd, m), 1, sd.arrays[n].shape)
Fill(n, size) == [c \in {<<n, i, 1>> : i \in 0 .. size - 1} |-> 0]

\* The SDFG's state when its first statement runs: the caller's memory, constants, then the entry states in their order.
Called(bd, sd, p) ==
    LET syms == [s \in collect_needed_symbols(sd) |-> SymbolValue(bd, sd, p, s)]
        caller == Merge({Cells(n, p.actual[n].data) : n \in DOMAIN p.actual}
                        \cup {Cells(n, <<p.sc[n]>>) : n \in DOMAIN p.sc}
                        \cup {Cells(User(sd, n), sd.consts[n]) : n \in DOMAIN sd.consts})
        start == [sym |-> syms, mem |-> caller]
        zeroed == [start EXCEPT !.mem = Merge({Fill(User(sd, n), Size(sd, n, start)) : n \in sd.zero}) @@ @]
        seeded == FoldLeft(LAMBDA m, a : Assign(sd, m, a), zeroed, sd.seeds)
        store(m, s) == [m EXCEPT !.mem = Put(@, SCell(s.n, [d \in DOMAIN s.ix |-> Lit(s.ix[d])], sd, m), s.v)]
    IN FoldLeft(store, seeded, SetToSeq(sd.init))

\* One statement of the SDFG, its interstate assignments first.
Perform(sd, c, before) ==
    LET m == FoldLeft(LAMBDA acc, a : Assign(sd, acc, a), before, c.pre)
        cell == [SCell(c.data, c.ix, sd, m) EXCEPT ![3] = SVal(c.comp, sd, m)]
        own == IF c.to \in DOMAIN sd.arrays THEN SCell(c.to, <<Lit(0)>>, sd, m) ELSE <<User(sd, c.to), 0, 1>>
        v == SVal(c.e, sd, m)
    IN CASE c.op = "put" -> Result([m EXCEPT !.mem = Put(@, cell, c.v)], cell, c.v)
         [] c.op = "get" -> Result(m, cell, Get(m.mem, cell))
         [] c.op = "size" -> Result(m, NoCell, v)
         [] c.op = "set" -> Result(IF c.to \in DOMAIN sd.arrays THEN [m EXCEPT !.mem = Put(@, own, v)]
                                   ELSE [m EXCEPT !.sym = (c.to :> v) @@ @], own, v)
         [] c.op = "skip" -> Result(m, NoCell, 0)

(***************************************************************************)
(* The build and the call                                                   *)
(***************************************************************************)

Unseen == [f |-> Result(<< >>, NoCell, 0), s |-> Result(<< >>, NoCell, 0)]

Init ==
    /\ prog \in Programs
    /\ phase = "classify" /\ b = << >> /\ g = << >> /\ f = Entry(prog) /\ x = << >> /\ pc = 1 /\ seen = Unseen

Classify ==
    /\ phase = "classify" /\ phase' = "describe"
    /\ b' = Classified(Variables(prog))
    /\ UNCHANGED <<prog, g, f, x, pc, seen>>

Describe ==
    /\ phase = "describe" /\ phase' = "enter"
    /\ \E bd \in {AddShapes(scan_object_aliases(b, prog))} :
         /\ b' = AddOffsets(bd, ShapeSymbols(bd) \cup {vs.sym : vs \in ValueSymbols(prog)})
         /\ g' = AddDescriptors(b')
    /\ UNCHANGED <<prog, f, x, pc, seen>>

EnterProgram ==
    /\ phase = "enter" /\ phase' = "emit"
    /\ g' = SeedWrittenInits(b, SeedValueSymbols(RegisterConstants(b, g), ValueSymbols(prog)))
    /\ UNCHANGED <<prog, b, f, x, pc, seen>>

EmitBody ==
    /\ phase = "emit"
    /\ \E sd \in {EmitNodes(b, g, prog)} :
         /\ g' = sd
         /\ phase' = IF ViewsHaveSources(sd) THEN "substitute" ELSE "refused"
    /\ UNCHANGED <<prog, b, f, x, pc, seen>>

Substitute ==
    /\ phase = "substitute"
    /\ \E sd \in {rename_reserved_collisions(g)} :
         IF Unlowered(sd) THEN g' = sd /\ phase' = "refused"
         ELSE g' = Specialised(b, sd) /\ phase' = "cleanup"
    /\ UNCHANGED <<prog, b, f, x, pc, seen>>

CleanUp ==
    /\ phase = "cleanup" /\ phase' = "sign"
    /\ g' = define_section_view_extents(prune_unused_arrays(RemoveScalarFortranShapeSymbols(g), BindingNames(prog)),
                                        SectionViews(b))
    /\ UNCHANGED <<prog, b, f, x, pc, seen>>

Sign ==
    /\ phase = "sign"
    /\ IF UnresolvedAccess(g) # {} \/ attach_frozen_signature(g) # {} \/ StaleValueSymbol(g) \/ Unlowered(g)
       THEN phase' = "refused" /\ g' = g
       ELSE phase' = "call" /\ g' = zero_init_unwritten_transients(g)
    /\ UNCHANGED <<prog, b, f, x, pc, seen>>

Call ==
    /\ phase = "call"
    /\ IF Unbound(g, prog, collect_needed_symbols(g)) # {} THEN phase' = "refused" /\ x' = x
       ELSE phase' = "run" /\ x' = Called(b, g, prog)
    /\ UNCHANGED <<prog, b, g, f, pc, seen>>

Step ==
    /\ phase = "run" /\ pc <= Len(prog.body)
    /\ \E fr \in {Execute(prog, prog.body[pc], f)}, sr \in {Perform(g, g.code[pc], x)} :
         f' = fr.f /\ x' = sr.f /\ seen' = [f |-> [fr EXCEPT !.f = << >>], s |-> [sr EXCEPT !.f = << >>]]
    /\ pc' = pc + 1
    /\ UNCHANGED <<prog, phase, b, g>>

Return ==
    /\ phase = "run" /\ pc > Len(prog.body) /\ phase' = "done"
    /\ UNCHANGED <<prog, b, g, f, x, pc, seen>>

Next == Classify \/ Describe \/ EnterProgram \/ EmitBody \/ Substitute \/ CleanUp \/ Sign \/ Call \/ Step \/ Return
Spec == Init /\ [][Next]_vars

(***************************************************************************)
(* Properties                                                               *)
(***************************************************************************)

\* The phases follow each other, and the builder's tables hold what their phase has computed.
TypeOK ==
    /\ prog \in Programs
    /\ phase \in {"classify", "describe", "enter", "emit", "substitute", "cleanup", "sign", "call", "run", "done", "refused"}
    /\ pc \in 1 .. Len(prog.body) + 1
    /\ phase \notin {"classify", "describe"} => DOMAIN g.links \subseteq DOMAIN g.arrays

\* Every access of the built SDFG addresses the cell the Fortran reference designates, and reads the value Fortran
\* reads there (any value where Fortran leaves it undefined).
AccessesAgree ==
    /\ seen.f.c = seen.s.c
    /\ seen.f.v # Undef => seen.f.v = seen.s.v

\* The builder and the call refuse a routine only for what they cannot represent: a member without a descriptor,
\* an ambiguous object, a written array behind a frozen bound, an extent no argument supplies.
RefusesOnlyUnsupported == phase = "refused" => prog.unsupported
\* ... and such a routine never runs.
UnsupportedNeverRuns == prog.unsupported => phase # "run"
=============================================================================
