----------------------------- MODULE UseScopes -----------------------------
(***************************************************************************)
(* The name-binding side of the source inliner (fparser_inliner.py and     *)
(* inliner/ast_desugaring): several Fortran modules become one translation *)
(* unit that holds the entry point and what it needs.  Every pass works    *)
(* through the alias map (analysis.alias_specs), rewrites USE statements,  *)
(* call names and declarations, and drops what no one seems to use; at the *)
(* end a Fortran compiler reads the text and binds every name again, by    *)
(* the rules of the language.                                              *)
(*                                                                         *)
(* A program is the record t: the program units in order, the named        *)
(* objects, the USE statements of every scope, the scopes that have a      *)
(* specification part, and the references (a name at a place in a          *)
(* procedure body, or in the member list of a generic interface).  A pass  *)
(* is an operator on programs, an action applies one pass, in the order of *)
(* run_fparser_transformations, with tolerate_external_uses set.           *)
(***************************************************************************)
EXTENDS Integers, Sequences, FiniteSets, TLC

LOCAL INSTANCE SequencesExt

CONSTANTS
    Sources,        \* the programs this instance covers
    ObjectSeq,      \* every object, in the order of the source text
    UnitSeq,        \* every program unit, in the order of the alphabet
    Intrinsic,      \* the module the compiler provides (iso_c_binding)
    Provides,       \* its names -> the entities they denote
    WrapperOf       \* free procedure -> the module <name>_module made for it

VARIABLES
    ast,            \* the program
    cfg,            \* entry, noop (procedures), dropped (names of explicit ones), optimize, rename
    pc, stage,      \* the next pass; which of the prune_coarsely calls is under way
    before,         \* the text the fixpoint loops compare with
    captured,       \* collect_intrinsic_uses: qualified scope name -> USE statements
    source, target  \* the program as it was, and the entity every reference denotes in it (history)

vars == <<ast, cfg, pc, stage, before, captured, source, target>>

-----------------------------------------------------------------------------
(* Scopes.  A unit is a module or "top", where the free procedures live;   *)
(* a scope is a unit or a procedure.                                       *)

Enclosing(t, s) == IF s \in DOMAIN t.obj THEN t.obj[s].home ELSE "top"

RECURSIVE UnitOf(_, _)
UnitOf(t, s) == IF s \in DOMAIN t.obj THEN UnitOf(t, t.obj[s].home) ELSE s

RECURSIVE Within(_, _, _)
Within(t, s, box) == s = box \/ (s \in DOMAIN t.obj /\ Within(t, t.obj[s].home, box))

Kind(t, k) == {o \in DOMAIN t.obj : t.obj[o].kind = k}
Units(t) == {t.order[i] : i \in DOMAIN t.order}
Scopes(t) == Units(t) \cup Kind(t, "fn")
Uses(t, s) == IF s \in DOMAIN t.uses THEN t.uses[s] ELSE <<>>
RefsIn(t, s) == {r \in DOMAIN t.ref : t.ref[r].in = s}

\* Without an object go the objects inside it and their references; the rest of the program is kept.
Keep(t, alive) ==
    LET live == {o \in alive : \A b \in DOMAIN t.obj : Within(t, o, b) => b \in alive}
        there(s) == s \in live \/ s \in Units(t)
    IN [t EXCEPT !.obj = [o \in live |-> t.obj[o]],
                 !.ref = [r \in {q \in DOMAIN t.ref : there(t.ref[q].in)} |-> t.ref[r]],
                 !.uses = [s \in {q \in DOMAIN t.uses : there(q)} |-> t.uses[s]],
                 !.spec = {s \in @ : there(s)}]

-----------------------------------------------------------------------------
(* What a Fortran compiler binds a name to: the set of the entities it     *)
(* may denote, in the scope itself (declared or imported), else in the     *)
(* host.                                                                   *)

RECURSIVE Imported(_, _, _)
Exports(t, m, n) ==
    IF m = Intrinsic
    THEN IF n \in DOMAIN Provides THEN {Provides[n]} ELSE {}
    ELSE {o \in DOMAIN t.obj : t.obj[o].home = m /\ t.obj[o].name = n /\ ~t.obj[o].private} \cup Imported(t, m, n)
Imported(t, s, n) ==
    UNION {IF u.whole THEN Exports(t, u.mod, n)
           ELSE UNION {Exports(t, u.mod, it.of) : it \in {i \in u.only : i.as = n}} :
           u \in {Uses(t, s)[i] : i \in DOMAIN Uses(t, s)}}

Declared(t, s, n) == {o \in DOMAIN t.obj : t.obj[o].home = s /\ t.obj[o].name = n}

RECURSIVE Binds(_, _, _)
Binds(t, s, n) ==
    LET here == Declared(t, s, n) \cup Imported(t, s, n)
    IN IF here # {} \/ s = "top" THEN here ELSE Binds(t, Enclosing(t, s), n)

\* A call of a generic denotes the specific that the arguments (sig) select; a generic may share the name of a specific.
Denotes(t, r) ==
    LET place == IF t.ref[r].how = "member" THEN Enclosing(t, t.ref[r].in) ELSE t.ref[r].in
        found == Binds(t, place, t.ref[r].name)
        generics == found \cap Kind(t, "iface")
    IN IF t.ref[r].how = "member" THEN found \ generics
       ELSE IF generics = {} THEN found
       ELSE UNION {Binds(t, Enclosing(t, t.ref[q].in), t.ref[q].name) \ Kind(t, "iface") :
                   q \in {p \in DOMAIN t.ref : t.ref[p].in \in generics /\ t.ref[r].sig \in {t.ref[p].sig, -t.ref[p].sig}}}

\* A program a compiler accepts, with sorted or unsorted modules.
Legal(t) ==
    /\ \A r \in DOMAIN t.ref : Cardinality(Denotes(t, r)) = 1
    /\ \A r \in DOMAIN t.ref : \A o \in Denotes(t, r) \cap DOMAIN t.obj :
          t.obj[o].kind = IF t.ref[r].how = "data" THEN "var" ELSE "fn"
    /\ \A o, p \in DOMAIN t.obj :
          o # p /\ t.obj[o].home = t.obj[p].home /\ t.obj[o].name = t.obj[p].name =>
             {t.obj[o].kind, t.obj[p].kind} = {"fn", "iface"}
    /\ \A o \in DOMAIN t.obj : Imported(t, t.obj[o].home, t.obj[o].name) = {}
    /\ \A s \in DOMAIN t.uses : \A i \in DOMAIN t.uses[s] :
          \A it \in t.uses[s][i].only : Exports(t, t.uses[s][i].mod, it.of) # {}

-----------------------------------------------------------------------------
(* analysis.py: the alias map, from <<scope, namespace, name>> to objects. *)

IdentSpec(t, o) == <<t.obj[o].home, IF t.obj[o].kind = "iface" THEN "iface" ELSE "id", t.obj[o].name>>
IdentifierSpecs(t) ==
    [k \in {IdentSpec(t, o) : o \in DOMAIN t.obj} |-> CHOOSE o \in DOMAIN t.obj : IdentSpec(t, o) = k]

\* The USE statements in the order of the text.
ScopesOf(t, u) ==
    (IF u \in DOMAIN t.uses THEN <<u>> ELSE <<>>)
        \o SelectSeq(ObjectSeq, LAMBDA o : o \in DOMAIN t.uses /\ UnitOf(t, o) = u)
UseStmts(t) ==
    FlattenSeq([i \in DOMAIN t.order |->
        FlattenSeq([j \in DOMAIN ScopesOf(t, t.order[i]) |->
            LET s == ScopesOf(t, t.order[i])[j]
            IN [n \in DOMAIN t.uses[s] |-> [scope |-> s, use |-> t.uses[s][n]]]])])

\* A whole USE takes every name of the module, those it imported too; a generic wins over a procedure of its name.
AliasUse(t, map, stmt) ==
    LET u == stmt.use
        s == stmt.scope
        from(n) == {k \in DOMAIN map : k[1] = u.mod /\ k[3] = n}
        pick(n) == IF <<u.mod, "iface", n>> \in DOMAIN map THEN <<u.mod, "iface", n>> ELSE <<u.mod, "id", n>>
        names == {k[3] : k \in {q \in DOMAIN map : q[1] = u.mod}}
        items == {it \in u.only : from(it.of) # {}}
    IN CASE u.mod \notin Units(t) -> map
         [] u.whole -> [k \in {<<s, "id", n>> : n \in names} |-> map[pick(k[3])]] @@ map
         [] OTHER -> [k \in {<<s, "id", it.as>> : it \in items} |->
                        map[pick((CHOOSE it \in items : it.as = k[3]).of)]] @@ map
AliasSpecs(t) == FoldLeft(LAMBDA map, stmt : AliasUse(t, map, stmt), IdentifierSpecs(t), UseStmts(t))

None == "none"
\* search_real_ident_spec: a scope's own names, then its generics, then the host.
RECURSIVE SearchReal(_, _, _, _)
SearchReal(t, map, s, n) ==
    CASE <<s, "id", n>> \in DOMAIN map -> map[<<s, "id", n>>]
      [] <<s, "iface", n>> \in DOMAIN map -> map[<<s, "iface", n>>]
      [] s = "top" -> None
      [] OTHER -> SearchReal(t, map, Enclosing(t, s), n)

\* search_real_local_alias_spec: the host's generics come before the host's own names.
RECURSIVE SearchLocal(_, _, _, _)
SearchLocal(t, map, s, n) ==
    CASE <<s, "id", n>> \in DOMAIN map -> map[<<s, "id", n>>]
      [] s = "top" -> None
      [] <<Enclosing(t, s), "iface", n>> \in DOMAIN map -> map[<<Enclosing(t, s), "iface", n>>]
      [] OTHER -> SearchLocal(t, map, Enclosing(t, s), n)

\* The scope of a reference (search_scope_spec): a procedure, or the module of a generic's member list.
Place(t, r) == IF t.ref[r].how = "member" THEN t.obj[t.ref[r].in].home ELSE t.ref[r].in
Found(t, map, r) == SearchReal(t, map, Place(t, r), t.ref[r].name)
\* interface_specs: only procedures count as the specifics of a generic.
Specifics(t, map, i) == {Found(t, map, r) : r \in RefsIn(t, i)} \cap Kind(t, "fn")

-----------------------------------------------------------------------------
(* pruning.py.                                                             *)

RECURSIVE NearestWithSpec(_, _)
NearestWithSpec(t, s) ==
    IF s \in t.spec \/ s = "top" THEN s ELSE NearestWithSpec(t, Enclosing(t, s))

RefsHere(t, s) == {r \in DOMAIN t.ref : Place(t, r) = s}
RefsAt(t, s) == {r \in DOMAIN t.ref : NearestWithSpec(t, Place(t, r)) = s}
\* consolidate_uses: every scope imports what its references need, straight from the defining module.
ConsolidateUses(t, map) ==
    LET imports(s) == {r \in RefsAt(t, s) :
                          LET o == Found(t, map, r)
                          IN o \in DOMAIN t.obj /\ t.obj[o].home \in Units(t) \ {"top", UnitOf(t, s)}}
        origin(r) == t.obj[Found(t, map, r)]
        stmt(s, m) == [mod |-> m, whole |-> FALSE,
                       only |-> {[as |-> t.ref[r].name, of |-> origin(r).name] :
                                 r \in {q \in imports(s) : origin(q).home = m}}]
        mods(s) == SelectSeq(UnitSeq, LAMBDA m : \E r \in imports(s) : origin(r).home = m)
    IN [t EXCEPT !.uses = [s \in t.spec |-> [i \in DOMAIN mods(s) |-> stmt(s, mods(s)[i])]]]

\* keep_sorted_used_modules: the modules some kept unit needs, each before the units that use it.
Needs(t, u) ==
    UNION {{t.uses[s][i].mod : i \in DOMAIN t.uses[s]} : s \in {q \in DOMAIN t.uses : UnitOf(t, q) = u}}
RECURSIVE Reached(_, _)
Reached(t, S) ==
    LET more == S \cup (UNION {Needs(t, u) : u \in S} \cap Units(t))
    IN IF more = S THEN S ELSE Reached(t, more)
RECURSIVE Sorted(_, _)
Sorted(t, left) ==
    IF left = {} THEN <<>>
    ELSE LET next == SelectSeq(UnitSeq, LAMBDA u : u \in left /\ Needs(t, u) \cap left = {})[1]
         IN <<next>> \o Sorted(t, left \ {next})
KeepSortedUsedModules(t, keepers) ==
    LET used == Reached(t, {UnitOf(t, k) : k \in keepers} \cup {"top"})
        kept == Keep([t EXCEPT !.order = SelectSeq(t.order, LAMBDA u : u \in used)],
                     {o \in DOMAIN t.obj : UnitOf(t, o) \in used})
    IN [kept EXCEPT !.order = Sorted(kept, Units(kept) \ {"top"}) \o <<"top">>]

\* A name occurs in a scope within box: in a reference, a declaration, or an ONLY list.
Occurs(t, n, box, except) ==
    \/ \E r \in DOMAIN t.ref : t.ref[r].name = n /\ Within(t, t.ref[r].in, box) /\ t.ref[r].in \notin except
    \/ \E o \in Kind(t, "var") : t.obj[o].name = n /\ Within(t, o, box) /\ o \notin except /\ t.obj[o].home \notin except
    \/ \E s \in DOMAIN t.uses : \E i \in DOMAIN t.uses[s] :
          [as |-> n, of |-> n] \in t.uses[s][i].only /\ Within(t, s, box) /\ s \notin except
SameNamed(t, i) == {o \in Kind(t, "fn") : t.obj[o].home = t.obj[i].home /\ t.obj[o].name = t.obj[i].name}
\* What one round of prune_coarsely finds in use.
InUse(t, keepers) ==
    LET map == AliasSpecs(t)
        imported == {map[k] : k \in DOMAIN map \ DOMAIN IdentifierSpecs(t)}
        occurs(o, except) == Occurs(t, t.obj[o].name, t.obj[o].home, except)
        called == {Found(t, map, r) : r \in {q \in DOMAIN t.ref : t.ref[q].how = "call"}}
        specifics == UNION {Specifics(t, map, i) : i \in Kind(t, "iface")}
    IN keepers \cup imported \cup specifics
        \cup {o \in Kind(t, "fn") : IF t.obj[o].home = "top" THEN o \in called ELSE occurs(o, {o})}
        \cup {o \in Kind(t, "iface") : occurs(o, {o} \cup SameNamed(t, o))}
        \cup {o \in Kind(t, "var") : occurs(o, {o})}
\* One round of prune_coarsely tidies the USE statements and the modules, then removes what nobody uses; the rounds
\* go on until one removes nothing.
Tidied(t, keepers) == KeepSortedUsedModules(ConsolidateUses(t, AliasSpecs(t)), keepers)
Removed(t, keepers) == Keep(t, InUse(t, keepers))

\* prune_unused_objects: what the keepers reach, reference by reference; a generic keeps its specifics.
RECURSIVE Survivors(_, _, _)
Survivors(t, map, S) ==
    LET more == S \cup ({SearchLocal(t, map, Place(t, r), t.ref[r].name) :
                            r \in {q \in DOMAIN t.ref : \E o \in S : Within(t, t.ref[q].in, o)}} \cap DOMAIN t.obj)
                  \cup {o \in DOMAIN t.obj : \E p \in S : Within(t, p, o)}
    IN IF more = S THEN S ELSE Survivors(t, map, more)
Empty(t, u) == u # "top" /\ \A o \in DOMAIN t.obj : t.obj[o].home # u
PruneUnusedObjects(t, keepers) ==
    LET map == AliasSpecs(t)
        kept == Keep(t, Survivors(t, map, keepers) \cup Kind(t, "iface"))
        bare == {s \in kept.spec : /\ kept.uses[s] = <<>>
                                   /\ \E o \in Kind(t, "var") : t.obj[o].home = s
                                   /\ \A o \in DOMAIN kept.obj : kept.obj[o].home # s \/ kept.obj[o].kind = "fn"}
        cut == [kept EXCEPT !.spec = @ \ bare, !.uses = [s \in DOMAIN @ \ bare |-> @[s]]]
        held == [cut EXCEPT !.order = SelectSeq(@, LAMBDA u : ~Empty(cut, u) \/ Uses(cut, u) # <<>>)]
    IN ConsolidateUses(Keep(held, DOMAIN held.obj), map)

\* prune_dangling_interface_bodies: a generic loses the members whose procedure is gone.
PruneDangling(t) ==
    LET defined == {t.obj[o].name : o \in Kind(t, "fn")}
        gone == {r \in DOMAIN t.ref : t.ref[r].how = "member" /\ t.ref[r].name \notin defined}
    IN [t EXCEPT !.ref = [r \in DOMAIN t.ref \ gone |-> t.ref[r]]]

-----------------------------------------------------------------------------
(* fparser_inliner.py, desugaring.py and cleanup.py.                       *)

\* _scope_qualname
RECURSIVE QualName(_, _)
QualName(t, s) == IF s \in DOMAIN t.obj THEN QualName(t, t.obj[s].home) \o <<t.obj[s].name>> ELSE <<s>>
CollectIntrinsicUses(t) ==
    LET uses(s) == SelectSeq(Uses(t, s), LAMBDA u : u.mod = Intrinsic)
        scopes == {s \in DOMAIN t.uses : uses(s) # <<>>}
    IN [q \in {QualName(t, s) : s \in scopes} |-> uses(CHOOSE s \in scopes : QualName(t, s) = q)]

\* The bodies of the procedures that are not to be inlined are emptied; calls of the explicit ones are dropped later.
MakeNoop(t, noop) == [t EXCEPT !.ref = [r \in {q \in DOMAIN t.ref : t.ref[q].in \notin noop} |-> t.ref[r]]]
DropNoopCalls(t, names) ==
    [t EXCEPT !.ref = [r \in {q \in DOMAIN t.ref : t.ref[q].how # "call" \/ t.ref[q].name \notin names} |-> t.ref[r]]]

RemoveAccess(t) == [t EXCEPT !.obj = [o \in DOMAIN t.obj |-> [t.obj[o] EXCEPT !.private = FALSE]]]

\* add_use_to_specification and its like: a USE in front of the others, in a specification part made for it if need be.
WithUses(t, added) ==       \* added: the pairs [scope, use]
    LET scopes == {a.scope : a \in added}
        at(s) == {a.use : a \in {b \in added : b.scope = s}}
        uses == [s \in DOMAIN t.uses \cup scopes |-> SetToSeq(at(s)) \o Uses(t, s)]
    IN [t EXCEPT !.uses = uses, !.spec = @ \cup scopes]
Only(m, as, of) == [mod |-> m, whole |-> FALSE, only |-> {[as |-> as, of |-> of]}]

\* deconstruct_external_statements: a free procedure that a scope declares EXTERNAL (to pass it as an argument) moves
\* into a module of its own, which the scopes that declare it use.
DeconstructExternals(t) ==
    LET external == {r \in DOMAIN t.ref : t.ref[r].how = "arg" /\ \E o \in Binds(t, t.ref[r].in, t.ref[r].name) : t.obj[o].home = "top"}
        object(r) == CHOOSE o \in Binds(t, t.ref[r].in, t.ref[r].name) : TRUE
        moved == {object(r) : r \in external}
        wrapped == [t EXCEPT !.obj = [o \in DOMAIN @ |-> IF o \in moved THEN [@[o] EXCEPT !.home = WrapperOf[o]] ELSE @[o]],
                             !.order = @ \o SetToSeq({WrapperOf[o] : o \in moved}),
                             !.uses = [m \in {WrapperOf[o] : o \in moved} |-> <<>>] @@ @,
                             !.spec = @ \cup {WrapperOf[o] : o \in moved}]
    IN WithUses(wrapped, {[scope |-> t.ref[r].in, use |-> [mod |-> WrapperOf[object(r)], whole |-> TRUE, only |-> {}]] : r \in external})

\* deconstruct_interface_calls: a call of a generic becomes a call of the specific whose signature matches; for a call
\* with keyword arguments (a negative sig) none does, and the call is left alone.
Matching(t, map, r) ==
    IF Found(t, map, r) \notin Kind(t, "iface") THEN {}
    ELSE {Found(t, map, q) : q \in {p \in RefsIn(t, Found(t, map, r)) : t.ref[p].sig = t.ref[r].sig}} \cap Kind(t, "fn")
DeconstructInterfaceCalls(t) ==
    LET map == AliasSpecs(t)
        resolved == {r \in DOMAIN t.ref : t.ref[r].how = "call" /\ Matching(t, map, r) # {}}
        concrete(r) == CHOOSE o \in Matching(t, map, r) : TRUE
        remote(r) == t.obj[concrete(r)].home \notin {"top", UnitOf(t, t.ref[r].in)}
        counter(r) == Cardinality({q \in resolved : remote(q) /\ q < r})
        pname(r) == t.obj[concrete(r)].name
        alias(r) == IF remote(r) THEN pname(r) \o <<"deconiface", counter(r)>> ELSE pname(r)
        unused == {i \in Kind(t, "iface") : \A k \in DOMAIN map : map[k] = i => k = IdentSpec(t, i)}
        called == [t EXCEPT !.ref = [r \in DOMAIN @ |-> IF r \in resolved THEN [@[r] EXCEPT !.name = alias(r)] ELSE @[r]]]
        imported == WithUses(called, {[scope |-> t.ref[r].in, use |-> Only(t.obj[concrete(r)].home, alias(r), pname(r))] :
                                      r \in {q \in resolved : remote(q)}})
        pruned == Keep(imported, DOMAIN t.obj \ unused)
    IN ConsolidateUses(pruned, AliasSpecs(pruned))

\* The renaming passes give every object whose name is taken twice a name of its own.
Collides(t, o) == \E p \in DOMAIN t.obj \ {o} : t.obj[p].name = t.obj[o].name
Index(o) == CHOOSE i \in DOMAIN ObjectSeq : ObjectSeq[i] = o
UniqueName(t, o, suffix, keepers) ==
    IF o \in keepers \/ ~Collides(t, o) THEN t.obj[o].name ELSE t.obj[o].name \o <<suffix, Index(o)>>
\* Of an ONLY list stay the plain imports of the objects of other kinds.
WithoutImports(t, map, kind) ==
    LET stays(m, it) == it.as = it.of /\ SearchReal(t, map, m, it.of) \notin Kind(t, kind)
        left(u) == [u EXCEPT !.only = {it \in @ : stays(u.mod, it)}]
        trim(us) == SelectSeq([i \in DOMAIN us |-> IF us[i].whole THEN us[i] ELSE left(us[i])],
                              LAMBDA u : u.whole \/ u.only # {})
    IN [t EXCEPT !.uses = [s \in DOMAIN t.uses |-> trim(t.uses[s])]]
\* What the two passes share: imports dropped, references renamed and imported again, declarations renamed.
Renamed(t, map, kind, suffix, keepers, object) ==
    LET refs == DOMAIN object       \* reference -> what it names
        uname(o) == UniqueName(t, o, suffix, keepers)
        remote(r) == t.obj[object[r]].home \in Units(t) \ {"top", UnitOf(t, t.ref[r].in)}
        trimmed == WithoutImports(t, map, kind)
        named == [trimmed EXCEPT
                    !.ref = [r \in DOMAIN @ |-> IF r \in refs THEN [@[r] EXCEPT !.name = uname(object[r])] ELSE @[r]],
                    !.obj = [o \in DOMAIN @ |-> IF o \in Kind(t, kind) THEN [@[o] EXCEPT !.name = uname(o)] ELSE @[o]]]
    IN WithUses(named, {[scope |-> t.ref[r].in, use |-> Only(t.obj[object[r]].home, uname(object[r]), uname(object[r]))] :
                        r \in {q \in refs : remote(q)}})
CallRefs(t) == {r \in DOMAIN t.ref : t.ref[r].how = "call"}
\* The subprogram pass asserts that every call is one of a procedure it knows.
RenameRaises(t) == \E r \in CallRefs(t) : Found(t, AliasSpecs(t), r) \notin Kind(t, "fn")
UniqueSubprogramNames(t, keepers) ==
    LET map == AliasSpecs(t) IN Renamed(t, map, "fn", "fn", keepers, [r \in CallRefs(t) |-> Found(t, map, r)])
UniqueVariableNames(t, keepers) ==
    LET map == AliasSpecs(t)
        local(r) == SearchLocal(t, map, Place(t, r), t.ref[r].name)
    IN Renamed(t, map, "var", "var", keepers, [r \in {q \in DOMAIN t.ref : local(q) \in Kind(t, "var")} |-> local(r)])

\* restore_cross_module_uses: a call no import covers gets one, when one module defines a procedure of the name.
Visible(t, s) ==
    LET m == UnitOf(t, s)
        own(x) == {t.obj[o].name : o \in {p \in Kind(t, "var") : t.obj[p].home = x}}
        listed(x) == UNION {{it.as : it \in u.only} \cup {it.of : it \in u.only} :
                            u \in {Uses(t, x)[i] : i \in DOMAIN Uses(t, x)}}
    IN {t.obj[s].name} \cup own(s) \cup listed(s) \cup (IF m = "top" THEN {} ELSE own(m) \cup listed(m))
RestoreCrossModuleUses(t) ==
    LET definers(n) == {t.obj[o].home : o \in {p \in Kind(t, "fn") : t.obj[p].name = n /\ t.obj[p].home \in Units(t) \ {"top"}}}
        lacking == {r \in DOMAIN t.ref : /\ t.ref[r].how \in {"call", "data"}
                                         /\ t.ref[r].name \notin Visible(t, t.ref[r].in)
                                         /\ Cardinality(definers(t.ref[r].name)) = 1
                                         /\ UnitOf(t, t.ref[r].in) \notin definers(t.ref[r].name)}
        where(r) == IF UnitOf(t, t.ref[r].in) = "top" THEN t.ref[r].in ELSE UnitOf(t, t.ref[r].in)
    IN WithUses(t, {[scope |-> where(r), use |-> Only(CHOOSE m \in definers(t.ref[r].name) : TRUE, t.ref[r].name, t.ref[r].name)] :
                    r \in lacking})
RestoreIntrinsicUses(t, saved) ==
    LET left(s) == SelectSeq(Uses(t, s), LAMBDA u : u.mod # Intrinsic)
        back(s) == IF QualName(t, s) \in DOMAIN saved THEN saved[QualName(t, s)] ELSE <<>>
        scopes == DOMAIN t.uses \cup {s \in Scopes(t) : back(s) # <<>>}
    IN IF DOMAIN saved = {} THEN t
       ELSE [t EXCEPT !.uses = [s \in scopes |-> back(s) \o left(s)], !.spec = @ \cup scopes]

-----------------------------------------------------------------------------
(* run_fparser_transformations.                                            *)

Init ==
    /\ \E p \in Sources : ast = p.ast /\ cfg = p.cfg
    /\ pc = "parse" /\ stage = 0 /\ before = <<>> /\ captured = <<>>
    /\ source = ast
    /\ target = [r \in DOMAIN ast.ref |-> CHOOSE o \in Denotes(ast, r) : TRUE]

Keepers == {cfg.entry}
Pass(from, to, t) == pc = from /\ pc' = to /\ ast' = t /\ UNCHANGED <<cfg, source, target>>
Leave == UNCHANGED <<stage, before, captured>>

Parse == Pass("parse", "noop", KeepSortedUsedModules(ast, Keepers)) /\ Leave
Noop ==
    /\ Pass("noop", "access", MakeNoop(ast, cfg.noop))
    /\ captured' = CollectIntrinsicUses(ast) /\ UNCHANGED <<stage, before>>
Access == Pass("access", "coarse", DeconstructExternals(RemoveAccess(ast))) /\ stage' = 1 /\ UNCHANGED <<before, captured>>

\* prune_coarsely: the loop, and the last sort; what follows depends on which call of it this is.
Coarse ==
    LET t == Tidied(ast, Keepers)
        after == Removed(t, Keepers)
        settled == after = t
    IN /\ Pass("coarse", IF ~settled THEN "coarse" ELSE CASE stage = 1 -> "drop"
                                                        [] stage = 2 -> "interfaces"
                                                        [] stage = 3 -> "resolved"
                                                        [] OTHER -> "unused",
               IF settled THEN KeepSortedUsedModules(after, Keepers) ELSE after)
       /\ before' = IF settled /\ stage = 2 THEN KeepSortedUsedModules(after, Keepers) ELSE before
       /\ UNCHANGED <<stage, captured>>

Drop == Pass("drop", "coarse", DropNoopCalls(ast, cfg.dropped)) /\ stage' = 2 /\ UNCHANGED <<before, captured>>
Interfaces ==
    /\ Pass("interfaces", "coarse", DropNoopCalls(DeconstructInterfaceCalls(ast), cfg.dropped))
    /\ stage' = 3 /\ UNCHANGED <<before, captured>>
\* The text is compared with the one before the round; the loop ends when nothing changed.
Resolved ==
    /\ pc = "resolved" /\ before' = ast
    /\ pc' = (IF ast = before THEN "coarse" ELSE "interfaces")
    /\ stage' = (IF ast = before THEN 4 ELSE stage)
    /\ UNCHANGED <<ast, cfg, captured, source, target>>
Unused ==
    LET t == IF cfg.optimize THEN PruneUnusedObjects(ast, Keepers) ELSE ast
        u == ConsolidateUses(t, AliasSpecs(t))
    IN Pass("unused", IF u = before THEN "dangling" ELSE "coarse", u) /\ before' = u /\ UNCHANGED <<stage, captured>>
Dangling == Pass("dangling", IF cfg.rename THEN "procedures" ELSE "restore", PruneDangling(ast)) /\ Leave
Procedures ==
    \/ ~RenameRaises(ast) /\ Pass("procedures", "variables", UniqueSubprogramNames(ast, Keepers)) /\ Leave
    \/ RenameRaises(ast) /\ Pass("procedures", "raised", ast) /\ Leave
Variables ==
    LET t == UniqueVariableNames(ast, Keepers)
    IN Pass("variables", "restore", ConsolidateUses(t, AliasSpecs(t))) /\ Leave
Restore == Pass("restore", "done", RestoreIntrinsicUses(RestoreCrossModuleUses(ast), captured)) /\ Leave

Next ==
    \/ Parse \/ Noop \/ Access \/ Coarse \/ Drop \/ Interfaces
    \/ Resolved \/ Unused \/ Dangling \/ Procedures \/ Variables \/ Restore
Behaviour == Init /\ [][Next]_vars

-----------------------------------------------------------------------------

\* What the entry point needs: the references of the procedures it reaches.  A procedure the configuration empties
\* needs nothing, and the calls of one it names explicitly are not needed.
Explicit(r) == target[r] \in cfg.noop /\ source.obj[target[r]].name \in cfg.dropped
RefsOf(S) == {r \in DOMAIN source.ref : source.ref[r].how # "member" /\ source.ref[r].in \in S \ cfg.noop /\ ~Explicit(r)}
RECURSIVE Needed(_)
Needed(S) ==
    LET more == S \cup {target[r] : r \in RefsOf(S)}
    IN IF more = S THEN RefsOf(S) ELSE Needed(more)

\* Without PRIVATE a name of the sources would denote something else as well ("this can get us into ambiguity and
\* unintended shadowing", cleanup.py:149): the alias map lets a name made public override a declaration of the scope
\* that uses its module (analysis.py:284-296).
PrivacyMatters == \E r \in DOMAIN source.ref : Denotes(RemoveAccess(source), r) # Denotes(source, r)

\* The emitted unit holds all the entry point needs and is a program a compiler accepts: every module comes before
\* its uses, and every name denotes the entity it denoted in the sources (consolidate_uses, prune_coarsely,
\* prune_unused_objects, deconstruct_interface_calls, the renaming and the restoring passes together), as long as the
\* names do not need PRIVATE to be told apart.
EmittedBinds ==
    pc = "done" /\ ~PrivacyMatters =>
        /\ Needed(Keepers) \subseteq DOMAIN ast.ref
        /\ \A r \in DOMAIN ast.ref : Denotes(ast, r) = {target[r]}
        /\ \A i \in DOMAIN ast.order : \A m \in Needs(ast, ast.order[i]) \ {Intrinsic} :
              \E j \in 1 .. i - 1 : ast.order[j] = m

=============================================================================
