---------------------------- MODULE Monomorphize ----------------------------
(***************************************************************************)
(* The inliner's monomorphisation (monomorphize.py,                        *)
(* monomorphize_rewrite.py).  A dispatch CALL x%slot%b(...) through a      *)
(* CLASS(base) object cannot be lowered, so the pass looks for abstract    *)
(* bases whose concrete subtypes, the arms, are all in the program.  One   *)
(* arm: every CLASS(base) becomes TYPE(arm).  Several: the object becomes  *)
(* an integer tag and one object per arm, what uses it an IF ladder over   *)
(* the tag, and the procedures that still take a CLASS(base) argument are  *)
(* cloned per arm.  Last, the modules of the arms are merged into the      *)
(* base's.  An action is one pass over the program, or one round of the    *)
(* pass that repeats; work is the list of passes left.                     *)
(***************************************************************************)
EXTENDS DynamicDispatch

LOCAL INSTANCE SequencesExt
LOCAL INSTANCE Functions

CONSTANT Programs

VARIABLES
    source,     \* the program as it was (history)
    stack,      \* the flag stack_slots: the arms' objects are not allocated
    prog,       \* the program
    axes,       \* the axes, [plan, strategy]
    work,       \* the passes left, [pass, axis, arm]
    cloned      \* what the pointer flow of the axis at hand has cloned, <<procedure, arm>>

vars == <<source, stack, prog, axes, work, cloned>>

Ladder == "ladder"
Retype == "retype"

-----------------------------------------------------------------------------
(* Names and small lookups.                                                *)

TagVar(x) == x \o <<"tag">>
ArmSlot(x, arm) == x \o <<arm>>
CloneName(f, arm) == f \o <<arm>>
ArmTag(plan, arm) == CHOOSE i \in DOMAIN plan.arms : plan.arms[i] = arm
IsArm(plan, t) == t \in Range(plan.arms)

ClassOf(d, base) == d.kind = "CLASS" /\ d.type = base
ClassNames(s, base) == UNION {Range(s.decls[i].names) : i \in {j \in DOMAIN s.decls : ClassOf(s.decls[j], base)}}
\* The type a reference is declared with, "" when it has none.
TypeOfRef(P, s, p) == LET d == PathDecl(P, s, p) IN IF d.kind \in {"TYPE", "CLASS"} THEN d.type ELSE ""
EntityConcreteType(P, s, x) == LET d == EntityDecl(P, s, x) IN IF d.kind = "TYPE" THEN d.type ELSE ""
\* The procedure that a call names, by the declared type of its object: a deferred or unknown binding has none.
BindingTarget(P, t, b) ==
    LET has == SelectSeq(Lineage(P, t), LAMBDA u : b \in DOMAIN TypeOf(P, u).over \cup TypeOf(P, u).deferred)
    IN IF has # <<>> /\ b \in DOMAIN TypeOf(P, has[1]).over THEN TypeOf(P, has[1]).over[b] ELSE <<>>
CalleeOf(P, s, c) == IF c.obj = <<>> THEN c.f ELSE BindingTarget(P, TypeOfRef(P, s, c.obj), c.f[1])
Calls(s) == SelectSeq(Statements(s.body), LAMBDA x : x.k = "call")

\* A mutant: the clone is not imported.
EnsureNoUse(uses, mod, name) == uses
\* Imports name into a procedure, unless a USE of the module already has it, or a name that begins with it.
EnsureUse(uses, mod, name) == IF \E u \in uses : u.mod = mod /\ \E n \in u.only : IsPrefix(name, n) THEN uses ELSE uses \cup {[mod |-> mod, only |-> {name}]}
\* s with the statements of r replaced and the clones of other modules imported.
Redirect(s, r, clones) ==
    [s EXCEPT !.body = Rewrite(@, r),
              !.uses = FoldLeft(LAMBDA us, c : IF c.mod = s.mod THEN us ELSE EnsureUse(us, c.mod, c.name), @, SetToSeq(clones))]

\* IF (tag == 1) THEN ... ELSE IF (tag == 2) ..., one branch per arm.
TagLadder(tag, bodies) == <<IfThen([i \in DOMAIN bodies |-> Branch(Eq(tag, i), bodies[i])])>>
ArmDecls(plan, x, tagAttr, armAttr) ==
    <<[names |-> <<TagVar(x)>>, kind |-> "INT", type |-> "", attr |-> tagAttr]>>
    \o [i \in DOMAIN plan.arms |-> [names |-> <<ArmSlot(x, plan.arms[i])>>, kind |-> "TYPE", type |-> plan.arms[i], attr |-> armAttr]]

-----------------------------------------------------------------------------
(* Which bases can be collapsed, and how.                                  *)

Kids(P, t) == SelectSeq(P.types, LAMBDA T : T.parent = t)
HasClassStar(T) == \E i \in DOMAIN T.comps : ClassOf(T.comps[i], "*")
NoPlan == [base |-> "", deferred |-> {}, arms |-> <<>>]
\* The arms of a base, if it is the root of a hierarchy of one level with every deferred binding overridden.
Analyze(P, B) ==
    LET kids == Kids(P, B.name)
    IN IF \/ B.parent # "" \/ kids = <<>> \/ HasClassStar(B)
          \/ \E i \in DOMAIN kids : Kids(P, kids[i].name) # <<>> \/ kids[i].abstract \/ HasClassStar(kids[i]) \/ ~(B.deferred \subseteq DOMAIN kids[i].over)
       THEN NoPlan ELSE [base |-> B.name, deferred |-> B.deferred, arms |-> [i \in DOMAIN kids |-> kids[i].name]]

LiveBindings(P) ==
    LET called == UNION {{c.f[1] : c \in {x \in Range(Calls(P.subs[i])) : x.obj # <<>>}} : i \in DOMAIN P.subs}
    IN called \cup UNION {UNION {P.types[i].generic[g] : g \in called \cap DOMAIN P.types[i].generic} : i \in DOMAIN P.types}
AllStatements(P) == UNION {StatementSet(P.subs[i].body) : i \in DOMAIN P.subs}
HasInunitConstruction(P, plan) == \E st \in AllStatements(P) : st.k = "alloc" /\ IsArm(plan, st.t)
SlotComponentNames(P, base) ==
    UNION {UNION {Range(P.types[i].comps[j].names) : j \in {k \in DOMAIN P.types[i].comps : ClassOf(P.types[i].comps[k], base)}} : i \in DOMAIN P.types}
\* The statements x%slot => d of a procedure where d is one of its CLASS(base) names.
PtrAssocSites(s, base) == {st \in StatementSet(s.body) : st.k = "ptr" /\ Len(st.to) > 1 /\ Len(st.from) = 1 /\ st.from[1] \in ClassNames(s, base)}
HasConcreteArmActual(P, plan) ==
    LET decls == UNION ({Range(P.vars)} \cup {Range(P.subs[i].decls) : i \in DOMAIN P.subs})
        typed == UNION {Range(d.names) : d \in {e \in decls : e.kind = "TYPE" /\ IsArm(plan, e.type)}}
    IN \E st \in AllStatements(P) : st.k = "call" /\ \E i \in DOMAIN st.args : Range(st.args[i].p) \cap typed # {}
HasPointerAssocConstruction(P, plan) ==
    /\ \E i \in DOMAIN P.subs : \E st \in PtrAssocSites(P.subs[i], plan.base) : Last(st.to) \in SlotComponentNames(P, plan.base)
    /\ HasConcreteArmActual(P, plan)
Strategy(P, plan) ==
    IF Len(plan.arms) = 1 THEN Retype
    ELSE IF Len(plan.arms) > 1 /\ (HasInunitConstruction(P, plan) \/ HasPointerAssocConstruction(P, plan)) THEN Ladder
    ELSE None
\* The axes of a program.  They are sorted by name; the types of the programs are.
DiscoverAxes(P) ==
    LET bases == SelectSeq(P.types, LAMBDA T : T.deferred \cap LiveBindings(P) # {})
        all == [i \in DOMAIN bases |-> LET plan == Analyze(P, bases[i]) IN [plan |-> plan, strategy |-> Strategy(P, plan)]]
    IN SelectSeq(all, LAMBDA a : a.strategy # None)

-----------------------------------------------------------------------------
(* One arm: every CLASS(base) is that arm.                                 *)

RetypeDecls(decls, base, arm) == [i \in DOMAIN decls |-> IF ClassOf(decls[i], base) THEN [decls[i] EXCEPT !.kind = "TYPE", !.type = arm] ELSE decls[i]]
RetypeToConcrete(P, base, arm) ==
    [P EXCEPT !.types = [i \in DOMAIN @ |-> [@[i] EXCEPT !.comps = RetypeDecls(@, base, arm)]],
              !.vars = RetypeDecls(@, base, arm),
              !.subs = [i \in DOMAIN @ |-> [@[i] EXCEPT !.decls = RetypeDecls(@, base, arm)]]]

-----------------------------------------------------------------------------
(* Local variables v constructed by ALLOCATE(arm :: v).                    *)

LocallyConstructed(s, plan) ==
    UNION {{st.refs[i][1] : i \in {j \in DOMAIN st.refs : Len(st.refs[j]) = 1}} : st \in {x \in StatementSet(s.body) : x.k = "alloc" /\ IsArm(plan, x.t)}}
\* The declarations of constructed names are replaced by those of their tags and arms.
ExpandLocals(s, plan, made, sts) ==
    FlattenSeq([i \in DOMAIN s.decls |->
        IF ~ClassOf(s.decls[i], plan.base) \/ Range(s.decls[i].names) \cap made = {} THEN <<s.decls[i]>>
        ELSE LET xs == SelectSeq(s.decls[i].names, LAMBDA x : x \in made)
             IN FlattenSeq([j \in DOMAIN xs |-> ArmDecls(plan, xs[j], "undefined", IF sts THEN "" ELSE "allocatable")])])
AllocationRewrite(plan, p, t, sts) ==
    <<Assign(Front(p) \o <<TagVar(Last(p))>>, Num(ArmTag(plan, t)))>>
    \o (IF sts THEN <<>> ELSE <<Allocate("", <<Front(p) \o <<ArmSlot(Last(p), t)>>>>)>>)
DispatchLadder(P, plan, x, c) ==
    TagLadder(<<TagVar(x)>>, [i \in DOMAIN plan.arms |-> <<CallProc(TypeOf(P, plan.arms[i]).over[c.f[1]], <<Ref(<<ArmSlot(x, plan.arms[i])>>)>> \o c.args)>>])
LocalDispatch(P, s, plan, sts) ==
    LET made == ClassNames(s, plan.base) \cap LocallyConstructed(s, plan)
        hit(st) == {x \in made : \E i \in DOMAIN st.refs : x \in Range(st.refs[i])}
        allocs == {st \in StatementSet(s.body) : st.k = "alloc" /\ st.t # "" /\ hit(st) # {}}
        calls == {st \in StatementSet(s.body) : st.k = "call" /\ Len(st.obj) = 1 /\ st.obj[1] \in made /\ st.f[1] \in plan.deferred}
        first(st) == LET xs == FlattenSeq([i \in DOMAIN s.decls |-> s.decls[i].names])
                     IN SelectSeq(xs, LAMBDA x : x \in hit(st))[1]
    IN [s EXCEPT !.decls = ExpandLocals(s, plan, made, sts),
                 !.body = Rewrite(@, [st \in allocs \cup calls |->
                              IF st \in calls THEN DispatchLadder(P, plan, st.obj[1], st) ELSE AllocationRewrite(plan, <<first(st)>>, st.t, sts)])]
\* Constructing anything but an arm under the name of a rewritten local is a KeyError.
MonomorphizeLocalDispatch(P, plan, sts) ==
    LET named(s, st) == UNION {Range(st.refs[i]) : i \in DOMAIN st.refs} \cap ClassNames(s, plan.base) \cap LocallyConstructed(s, plan)
        stray == \E i \in DOMAIN P.subs : \E st \in StatementSet(P.subs[i].body) : st.k = "alloc" /\ st.t # "" /\ ~IsArm(plan, st.t) /\ named(P.subs[i], st) # {}
    IN IF stray THEN [P EXCEPT !.err = TRUE] ELSE [P EXCEPT !.subs = [i \in DOMAIN @ |-> LocalDispatch(P, @[i], plan, sts)]]

-----------------------------------------------------------------------------
(* Components.  The references of a statement are those with a %; the last *)
(* name on the left of => is not part of one.                              *)

Long(ps) == SelectSeq(ps, LAMBDA p : Len(p) > 1)
RECURSIVE RefsOf(_), Retarget(_, _, _), Requery(_, _)
RefsOf(st) ==
    CASE st.k = "alloc" -> Long(st.refs)
      [] st.k = "call" -> Long(<<st.obj>> \o [i \in DOMAIN st.args |-> st.args[i].p])
      [] st.k = "set" -> Long(<<st.to, st.e.p>>)
      [] st.k = "ptr" -> Long(<<Front(st.to), st.from>>)
      [] OTHER -> FlattenSeq([i \in DOMAIN st.branches |->
                      (IF st.k = "if" THEN Long(<<st.branches[i].c.p>>) ELSE <<>>) \o FlattenSeq([j \in DOMAIN st.branches[i].b |-> RefsOf(st.branches[i].b[j])])])
SlotAt(p, slots) == {i \in 2 .. Len(p) : p[i] \in slots}
Mentions(refs, slots) == \E i \in DOMAIN refs : SlotAt(refs[i], slots) # {}
StmtRefsSlot(st, slots) == Mentions(RefsOf(st), slots) \/ (st.k = "ptr" /\ Len(st.to) > 1 /\ Last(st.to) \in slots)
StmtHasSlotDispatch(st, slots) == \E c \in StatementSet(<<st>>) : c.k = "call" /\ Len(c.obj) > 1 /\ Last(c.obj) \in slots
\* A slot with ...%slot%member somewhere, a variable of that name included.
SlotIsDataCarrying(P, slot) == \E st \in AllStatements(P) : \E i \in DOMAIN RefsOf(st) : slot \in Range(Front(RefsOf(st)[i]))
HybridNames(P, base) ==
    {x \in SlotComponentNames(P, base) : SlotIsDataCarrying(P, x)
        /\ \E i \in DOMAIN P.types : \E j \in DOMAIN P.types[i].comps :
              LET d == P.types[i].comps[j] IN ClassOf(d, base) /\ x \in Range(d.names) /\ d.attr = "pointer"}
FullNames(P, base) ==
    {x \in SlotComponentNames(P, base) : ~SlotIsDataCarrying(P, x)
        \/ \E i \in DOMAIN P.types : \E j \in DOMAIN P.types[i].comps :
              LET d == P.types[i].comps[j] IN ClassOf(d, base) /\ x \in Range(d.names) /\ d.attr # "pointer"}
OwnerTypes(P, base) == {P.types[i].name : i \in {j \in DOMAIN P.types : \E k \in DOMAIN P.types[j].comps : ClassOf(P.types[j].comps[k], base)}}
\* The tag and the arms of each slot, beside a component that keeps a hybrid slot and in place of another.
ExpandComps(comps, plan, hybrid, sts) ==
    FlattenSeq([i \in DOMAIN comps |->
        LET d == comps[i]
            attr == IF d.attr = "pointer" THEN "pointer" ELSE IF sts THEN "" ELSE "allocatable"
            new == FlattenSeq([j \in DOMAIN d.names |-> ArmDecls(plan, d.names[j], "", attr)])
        IN IF ~ClassOf(d, plan.base) THEN <<d>> ELSE IF Range(d.names) \cap hybrid # {} THEN <<d>> \o new ELSE new])

\* The statement with %slot replaced by %slot__arm wherever it occurs.
Aim(p, slot, new) == [i \in DOMAIN p |-> IF i > 1 /\ p[i] = slot THEN new ELSE p[i]]
Retarget(st, slot, new) ==
    CASE st.k = "alloc" -> [st EXCEPT !.refs = [i \in DOMAIN @ |-> Aim(@[i], slot, new)]]
      [] st.k = "call" -> [st EXCEPT !.obj = Aim(@, slot, new), !.args = [i \in DOMAIN @ |-> [@[i] EXCEPT !.p = Aim(@, slot, new)]]]
      [] st.k = "set" -> [st EXCEPT !.to = Aim(@, slot, new), !.e.p = Aim(@, slot, new)]
      [] st.k = "ptr" -> [st EXCEPT !.to = Aim(@, slot, new), !.from = Aim(@, slot, new)]
      [] st.k = "if" -> [st EXCEPT !.branches = [i \in DOMAIN @ |-> [c |-> [@[i].c EXCEPT !.p = Aim(@, slot, new)],
                                                                     b |-> [j \in DOMAIN @[i].b |-> Retarget(@[i].b[j], slot, new)]]]]
      [] OTHER -> [st EXCEPT !.branches = [i \in DOMAIN @ |-> [@[i] EXCEPT !.b = [j \in DOMAIN @ |-> Retarget(@[j], slot, new)]]]]
\* The ladder over the tag of slot p[i]; <<>> if it is a component of that name of another type.
SlotLadder(P, s, st, p, i, plan, owners) ==
    LET prefix == SubSeq(p, 1, i - 1)
        type == TypeOfRef(P, s, prefix)
    IN IF type # "" /\ owners \cap Range(Lineage(P, type)) = {} THEN <<>>
       ELSE TagLadder(prefix \o <<TagVar(p[i])>>, [a \in DOMAIN plan.arms |-> <<Retarget(st, p[i], ArmSlot(p[i], plan.arms[a]))>>])
\* It is the first slot a statement refers to that counts.
FirstSlot(p, slots) == CHOOSE k \in SlotAt(p, slots) : \A l \in SlotAt(p, slots) : k <= l
SlotStatementLadder(P, s, st, refs, slots, plan, owners) ==
    IF refs = <<>> THEN <<>> ELSE SlotLadder(P, s, st, refs[1], FirstSlot(refs[1], slots), plan, owners)
NonEmpty(r) == [st \in {x \in DOMAIN r : r[x] # <<>>} |-> r[st]]
Laddered(P, s, sts, slots, plan, owners) ==
    NonEmpty([st \in sts |-> SlotStatementLadder(P, s, st, SelectSeq(RefsOf(st), LAMBDA p : SlotAt(p, slots) # {}), slots, plan, owners)])

\* ALLOCATED(x%slot) is asked of the tag.
Requery(b, slots) ==
    [i \in DOMAIN b |->
        CASE b[i].k = "if" -> [b[i] EXCEPT !.branches = [j \in DOMAIN @ |->
                 LET c == @[j].c
                 IN [c |-> IF c.c = "allocated" /\ Len(c.p) > 1 /\ Last(c.p) \in slots THEN Ne(Front(c.p) \o <<TagVar(Last(c.p))>>, 0) ELSE c,
                     b |-> Requery(@[j].b, slots)]]]
          [] b[i].k = "sel" -> [b[i] EXCEPT !.branches = [j \in DOMAIN @ |-> [@[j] EXCEPT !.b = Requery(@, slots)]]]
          [] OTHER -> b[i]]
SlotAllocations(s, full) == {st \in StatementSet(s.body) : st.k = "alloc" /\ st.t # "" /\ \E i \in DOMAIN st.refs : Len(st.refs[i]) > 1 /\ Last(st.refs[i]) \in full}
RewriteSlotAllocations(s, plan, full, sts) ==
    Rewrite(s.body, [st \in SlotAllocations(s, full) |->
        AllocationRewrite(plan, SelectSeq(st.refs, LAMBDA p : Len(p) > 1 /\ Last(p) \in full)[1], st.t, sts)])
\* IFs that ask a slot are laddered whole, a logical IF also for what it does.
ConditionUnits(s, full, hybrid) ==
    {st \in StatementSet(s.body) : st.k = "if" /\
        IF st.line THEN StmtRefsSlot(st, full) \/ (\E c \in StatementSet(<<st>>) : StmtRefsSlot(c, full)) \/ StmtHasSlotDispatch(st, hybrid)
        ELSE Mentions([i \in DOMAIN st.branches |-> st.branches[i].c.p], full)}
SlotStatements(s, full, hybrid) ==
    {st \in StatementSet(s.body) : st.k \in {"call", "set", "ptr"} /\ (StmtRefsSlot(st, full) \/ StmtHasSlotDispatch(st, hybrid))}
LadderSlots(P, plan, full, hybrid, owners) ==
    LET units(s) == [s EXCEPT !.body = Rewrite(@, Laddered(P, s, ConditionUnits(s, full, hybrid), full \cup hybrid, plan, owners))]
        rest(s) == [s EXCEPT !.body = Rewrite(@, Laddered(P, s, SlotStatements(s, full, hybrid), full \cup hybrid, plan, owners))]
    IN [P EXCEPT !.subs = [i \in DOMAIN @ |-> rest(units(@[i]))]]
ExpandSlots(P, plan, full, hybrid, sts) ==
    [P EXCEPT !.types = [i \in DOMAIN @ |-> [@[i] EXCEPT !.comps = ExpandComps(@, plan, hybrid, sts)]],
              !.subs = [i \in DOMAIN @ |-> [@[i] EXCEPT !.body = Requery(RewriteSlotAllocations(P.subs[i], plan, full, sts), full)]]]
ComponentDispatch(P, plan, full, hybrid, sts) ==
    IF \E i \in DOMAIN P.subs : \E st \in SlotAllocations(P.subs[i], full) : ~IsArm(plan, st.t) THEN [P EXCEPT !.err = TRUE]
    ELSE LadderSlots(ExpandSlots(P, plan, full, hybrid, sts), plan, full, hybrid, OwnerTypes(P, plan.base))
MonomorphizeComponentDispatch(P, plan, sts) ==
    IF SlotComponentNames(P, plan.base) = {} THEN P
    ELSE ComponentDispatch(P, plan, FullNames(P, plan.base), HybridNames(P, plan.base), sts)

-----------------------------------------------------------------------------
(* Clones.                                                                 *)

\* The procedure with every CLASS(base) name an arm, under the clone's name.
CloneInterposer(s, base, arm) ==
    LET self == {c \in StatementSet(s.body) : c.k = "call" /\ c.obj = <<>> /\ c.f = s.name}
    IN [s EXCEPT !.name = CloneName(s.name, arm), !.decls = RetypeDecls(@, base, arm),
                 !.body = Rewrite(@, [c \in self |-> <<[c EXCEPT !.f = CloneName(s.name, arm)]>>])]
CloneRef(P, f, arm) == [mod |-> SubOf(P, f).mod, name |-> CloneName(f, arm)]

\* The calls x%slot__arm%b of a binding that the base itself implements go to a clone of it.
InterposerCalls(P, s, plan) ==
    {c \in Range(Calls(s)) : /\ Len(c.obj) > 1 /\ c.f[1] \in DOMAIN TypeOf(P, plan.base).over
                             /\ Len(Last(c.obj)) > 1 /\ IsArm(plan, Last(Last(c.obj)))
                             /\ TypeOf(P, plan.base).over[c.f[1]] \in SubNames(P)}
CloneSharedInterposers(P, plan) ==
    LET over == TypeOf(P, plan.base).over
        arm(c) == Last(Last(c.obj))
        calls(s) == InterposerCalls(P, s, plan)
        clones == UNION {{<<over[c.f[1]], arm(c)>> : c \in calls(P.subs[i])} : i \in DOMAIN P.subs}
        redirected == [i \in DOMAIN P.subs |->
            Redirect(P.subs[i], [c \in calls(P.subs[i]) |-> <<CallProc(CloneName(over[c.f[1]], arm(c)), <<Ref(c.obj)>> \o c.args)>>],
                     {CloneRef(P, over[c.f[1]], arm(c)) : c \in calls(P.subs[i])})]
        new == LET cs == SetToSeq(clones) IN [i \in DOMAIN cs |-> CloneInterposer(SubOf(P, cs[i][1]), plan.base, cs[i][2])]
        subs == redirected \o new
        called(b) == \E i \in DOMAIN subs : \E c \in Range(Calls(subs[i])) : c.obj # <<>> /\ c.f = <<b>>
        dead == {b \in DOMAIN over : (\E c \in clones : c[1] = over[b]) /\ ~called(b)}
    IN [P EXCEPT !.subs = SelectSeq(subs, LAMBDA s : s.name \notin {over[b] : b \in dead}),
                 !.types = [i \in DOMAIN @ |-> IF @[i].name = plan.base THEN [@[i] EXCEPT !.over = [b \in DOMAIN @ \ dead |-> @[b]]] ELSE @[i]]]

-----------------------------------------------------------------------------
(* Pointer components x%slot => d: the arm arrives as the argument d.      *)

RECURSIVE ResolveSelectType(_, _, _, _), Rename(_, _, _), DropDeadConstructors(_, _)
Named(p, x, y) == IF p # <<>> /\ p[1] = x THEN <<y>> \o Tail(p) ELSE p
Rename(b, x, y) ==
    [i \in DOMAIN b |->
        LET st == b[i]
        IN CASE st.k = "alloc" -> [st EXCEPT !.refs = [j \in DOMAIN @ |-> Named(@[j], x, y)]]
             [] st.k = "call" -> [st EXCEPT !.obj = Named(@, x, y), !.args = [j \in DOMAIN @ |-> [@[j] EXCEPT !.p = Named(@, x, y)]]]
             [] st.k = "set" -> [st EXCEPT !.to = Named(@, x, y), !.e.p = Named(@, x, y)]
             [] st.k = "ptr" -> [st EXCEPT !.to = Named(@, x, y), !.from = Named(@, x, y)]
             [] st.k = "if" -> [st EXCEPT !.branches = [j \in DOMAIN @ |-> [c |-> [@[j].c EXCEPT !.p = Named(@, x, y)], b |-> Rename(@[j].b, x, y)]]]
             [] OTHER -> [st EXCEPT !.branches = [j \in DOMAIN @ |-> [@[j] EXCEPT !.b = Rename(@, x, y)]]]]
\* A mutant: the first guard that fits.
GuardFirst(P, guards, arm) ==
    LET fit == {i \in DOMAIN guards : guards[i].g = "CLASS DEFAULT" \/ guards[i].t = arm \/ (guards[i].g = "CLASS IS" /\ guards[i].t \in Range(Lineage(P, arm)))}
    IN {i \in fit : \A j \in fit : i <= j}
\* A SELECT TYPE of a dummy that has become TYPE(arm) is replaced by the branch it takes.
GuardChoice(P, guards, arm) ==
    LET rank(t) == CHOOSE i \in DOMAIN Lineage(P, arm) : Lineage(P, arm)[i] = t
        exact == {i \in DOMAIN guards : guards[i].g = "TYPE IS" /\ guards[i].t = arm}
        up == {i \in DOMAIN guards : guards[i].g = "CLASS IS" /\ guards[i].t \in Range(Lineage(P, arm))}
        default == {i \in DOMAIN guards : guards[i].g = "CLASS DEFAULT"}
    IN IF exact # {} THEN exact ELSE IF up # {} THEN {i \in up : \A j \in up : rank(guards[i].t) <= rank(guards[j].t)} ELSE default
ResolveSelectType(P, b, d, arm) ==
    FlattenSeq([i \in DOMAIN b |->
        CASE b[i].k = "sel" /\ b[i].x = d ->
                LET g == GuardChoice(P, b[i].branches, arm)
                IN IF g = {} THEN <<>> ELSE Rename(b[i].branches[CHOOSE j \in g : TRUE].b, b[i].as, d)
          [] b[i].k \in {"if", "sel"} -> <<[b[i] EXCEPT !.branches = [j \in DOMAIN @ |-> [@[j] EXCEPT !.b = ResolveSelectType(P, @, d, arm)]]]>>
          [] OTHER -> <<b[i]>>])
\* A mutant: the kept slot is not associated.
ClonePtrArmOnly(P, s, plan, arm, d) ==
    LET c == CloneInterposer(s, plan.base, arm)
        sites == {st \in StatementSet(c.body) : st.k = "ptr" /\ Len(st.to) > 1 /\ st.from = <<d>>}
        tie(st) == <<Assign(Front(st.to) \o <<TagVar(Last(st.to))>>, Num(ArmTag(plan, arm))), Associate(Front(st.to) \o <<ArmSlot(Last(st.to), arm)>>, <<d>>)>>
    IN [c EXCEPT !.body = ResolveSelectType(P, Rewrite(@, [st \in sites |-> tie(st)]), d, arm)]
\* A clone for argument d: an association sets the tag and the arm's pointer, and that of a slot that was kept.
ClonePtrConstructor(P, s, plan, arm, d) ==
    LET c == CloneInterposer(s, plan.base, arm)
        sites == {st \in StatementSet(c.body) : st.k = "ptr" /\ Len(st.to) > 1 /\ st.from = <<d>>}
        tie(st) == (IF Last(st.to) \in SlotComponentNames(P, plan.base) THEN <<st>> ELSE <<>>)
                   \o <<Assign(Front(st.to) \o <<TagVar(Last(st.to))>>, Num(ArmTag(plan, arm))),
                        Associate(Front(st.to) \o <<ArmSlot(Last(st.to), arm)>>, <<d>>)>>
    IN [c EXCEPT !.body = ResolveSelectType(P, Rewrite(@, [st \in sites |-> tie(st)]), d, arm)]

\* The dummies of a procedure that are CLASS(base) and get an actual from call c: an object takes the first dummy.
ArgPlace(c, i) == IF c.obj = <<>> THEN i ELSE i - 1
ClassBaseDummies(P, f, c, base) ==
    IF f \notin SubNames(P) THEN <<>>
    ELSE SelectSeq([i \in DOMAIN SubOf(P, f).dummies |-> i],
                   LAMBDA i : SubOf(P, f).dummies[i] \in ClassNames(SubOf(P, f), base) /\ ArgPlace(c, i) \in DOMAIN c.args)
ActualOf(c, i) == c.args[ArgPlace(c, i)].p
\* The arms that reach CLASS(base) dummies as variables of TYPE(arm): [call, proc, arm, dummy] in the order of the text.
ArmOf(P, s, p) == IF Len(p) = 1 THEN EntityConcreteType(P, s, p[1]) ELSE ""
FlowsOfCall(P, s, c, f, plan) ==
    LET at == SelectSeq(ClassBaseDummies(P, f, c, plan.base), LAMBDA i : IsArm(plan, ArmOf(P, s, ActualOf(c, i))))
    IN [k \in DOMAIN at |-> [call |-> c, proc |-> f, arm |-> ArmOf(P, s, ActualOf(c, at[k])), dummy |-> SubOf(P, f).dummies[at[k]]]]
Flows(P, s, plan) == LET cs == Calls(s) IN FlattenSeq([i \in DOMAIN cs |-> FlowsOfCall(P, s, cs[i], CalleeOf(P, s, cs[i]), plan)])
FlowTable(P, plan) == [i \in DOMAIN P.subs |-> Flows(P, P.subs[i], plan)]
FirstFlow(table, pa) == SelectSeq(FlattenSeq(table), LAMBDA f : <<f.proc, f.arm>> = pa)[1]
NewFlows(table, done) == {<<f.proc, f.arm>> : f \in Range(FlattenSeq(table))} \ done
\* The calls of a procedure go to the clones; a call with two such arguments to the clone for the first.
FollowFlows(P, s, fs) ==
    LET to(c) == SelectSeq(fs, LAMBDA f : f.call = c)[1]
    IN Redirect(s, [c \in {f.call : f \in Range(fs)} |-> <<CallProc(CloneName(to(c).proc, to(c).arm), (IF c.obj = <<>> THEN <<>> ELSE <<Ref(c.obj)>>) \o c.args)>>],
                {CloneRef(P, f.proc, f.arm) : f \in Range(fs)})
\* One round: clone the procedures that arms reach, one clone per arm, and send the calls there.
FlowRound(P, plan, new, table) ==
    [P EXCEPT !.subs = [i \in DOMAIN @ |-> FollowFlows(P, @[i], table[i])]
                       \o [i \in DOMAIN new |-> ClonePtrConstructor(P, SubOf(P, new[i][1]), plan, new[i][2], FirstFlow(table, new[i]).dummy)]]

\* The procedures some call names; a call on an object of unknown type names every procedure of its binding.
ResolvedCallTargets(P) ==
    UNION {UNION {IF c.obj # <<>> /\ TypeOfRef(P, P.subs[i], c.obj) = ""
                  THEN {P.types[j].over[c.f[1]] : j \in {k \in DOMAIN P.types : c.f[1] \in DOMAIN P.types[k].over}}
                  ELSE {CalleeOf(P, P.subs[i], c)} : c \in Range(Calls(P.subs[i]))} : i \in DOMAIN P.subs}
DropUseOnlyImport(uses, fs) ==
    {u \in {[v EXCEPT !.only = @ \ fs] : v \in {w \in uses : w.only # {}}} : u.only # {}} \cup {w \in uses : w.only = {}}
Unbound(T, fs) == [T EXCEPT !.over = [b \in {c \in DOMAIN @ : @[c] \notin fs} |-> @[b]]]
DropDeadConstructors(P, procs) ==
    LET dead == procs \ ResolvedCallTargets(P)
    IN IF dead = {} THEN P
       ELSE DropDeadConstructors(
                [P EXCEPT !.subs = LET kept == SelectSeq(@, LAMBDA s : s.name \notin dead)
                                   IN [i \in DOMAIN kept |-> [kept[i] EXCEPT !.uses = DropUseOnlyImport(@, dead)]],
                          !.mods = [i \in DOMAIN @ |-> [@[i] EXCEPT !.uses = DropUseOnlyImport(@, dead)]],
                          !.types = [i \in DOMAIN @ |-> Unbound(@[i], dead)]], procs \ dead)

-----------------------------------------------------------------------------
(* A kept slot handed to a procedure that dispatches on its argument.      *)

DummyIsDispatched(s, d) == \E c \in Range(Calls(s)) : c.obj = <<d>>
\* The places of a call's actuals that are kept slots and become the object of a dispatch.
HandedSlots(P, c, f, plan) ==
    SelectSeq(ClassBaseDummies(P, f, c, plan.base), LAMBDA i :
        /\ DummyIsDispatched(SubOf(P, f), SubOf(P, f).dummies[i])
        /\ Len(ActualOf(c, i)) > 1 /\ Last(ActualOf(c, i)) \in SlotComponentNames(P, plan.base))
HandingCalls(P, s, plan) == LET cs == Calls(s) IN [i \in DOMAIN cs |-> [call |-> cs[i], proc |-> CalleeOf(P, s, cs[i]), at |-> HandedSlots(P, cs[i], CalleeOf(P, s, cs[i]), plan)]]
SitesOf(P, s, plan) == SelectSeq(HandingCalls(P, s, plan), LAMBDA x : x.at # <<>>)
\* The call becomes a ladder over the slot's tag that hands each arm's object to the clone for it.
RouteToArms(c, f, k, p, arms) ==
    TagLadder(Front(p) \o <<TagVar(Last(p))>>,
              [a \in DOMAIN arms |-> <<CallProc(CloneName(f, arms[a]), [c.args EXCEPT ![k] = Ref(Front(p) \o <<ArmSlot(Last(p), arms[a])>>)])>>])
RouteSites(P, s, sites, arms) ==
    LET of(c) == SelectSeq(sites, LAMBDA x : x.call = c)[1]
        route(c, x) == RouteToArms(c, x.proc, ArgPlace(c, x.at[1]), ActualOf(c, x.at[1]), arms)
    IN Redirect(s, [c \in {x.call : x \in Range(sites)} |-> route(c, of(c))], {CloneRef(P, x.proc, a) : x \in Range(sites), a \in Range(arms)})
RouteAll(P, table, plan) ==
    LET procs == SetToSeq({x.proc : x \in Range(FlattenSeq(table))})
    IN [P EXCEPT !.subs = [i \in DOMAIN @ |-> RouteSites(P, @[i], table[i], plan.arms)]
                          \o FlattenSeq([i \in DOMAIN procs |-> [a \in DOMAIN plan.arms |-> CloneInterposer(SubOf(P, procs[i]), plan.base, plan.arms[a])]])]
DevirtualizeDummyDispatch(P, plan) == RouteAll(P, [i \in DOMAIN P.subs |-> SitesOf(P, P.subs[i], plan)], plan)

-----------------------------------------------------------------------------
(* The module of an arm is merged into the module of its base.             *)

RECURSIVE Visit(_, _, _, _), SortModules(_, _), RenameEntity(_, _, _)
\* The types of a module, each after those of the module it extends or has components of.
Deps(T, local) == ({T.parent} \cup {T.comps[i].type : i \in DOMAIN T.comps}) \cap (DOMAIN local \ {T.name})
Visit(t, local, acc, onstack) ==
    IF t \in acc.seen THEN acc
    ELSE LET deps == SetToSeq(Deps(local[t], local) \ (onstack \cup {t}))
             after == FoldLeft(LAMBDA a, d : Visit(d, local, a, onstack \cup {t}), [acc EXCEPT !.seen = @ \cup {t}], deps)
         IN [after EXCEPT !.order = Append(@, local[t])]
ToposortTypeDefs(P, m) ==
    LET mine == SelectSeq(P.types, LAMBDA T : T.mod = m)
        local == [t \in {mine[i].name : i \in DOMAIN mine} |-> TypeOf(P, t)]
    IN [P EXCEPT !.types = SelectSeq(@, LAMBDA T : T.mod # m)
                           \o FoldLeft(LAMBDA a, T : Visit(T.name, local, a, {}), [seen |-> {}, order |-> <<>>], mine).order]
RedirectUses(uses, old, new, here) ==
    {u \in {IF v.mod = old THEN [v EXCEPT !.mod = new] ELSE v : v \in uses} : ~(u.mod = new /\ here = new)}
DeclaredNames(P, m) == UNION {Range(P.vars[i].names) : i \in {j \in DOMAIN P.vars : P.vars[j].mod = m}}
\* Every occurrence of a module's name, except in procedures that declare it themselves.
NewName(ns, x, y) == [i \in DOMAIN ns |-> IF ns[i] = x THEN y ELSE ns[i]]
RenameEntity(b, x, y) ==
    [i \in DOMAIN b |->
        LET st == b[i]
        IN CASE st.k = "alloc" -> [st EXCEPT !.refs = [j \in DOMAIN @ |-> NewName(@[j], x, y)]]
             [] st.k = "call" -> [st EXCEPT !.obj = NewName(@, x, y), !.args = [j \in DOMAIN @ |-> [@[j] EXCEPT !.p = NewName(@, x, y)]]]
             [] st.k = "set" -> [st EXCEPT !.to = NewName(@, x, y), !.e.p = NewName(@, x, y)]
             [] st.k = "ptr" -> [st EXCEPT !.to = NewName(@, x, y), !.from = NewName(@, x, y)]
             [] st.k = "if" -> [st EXCEPT !.branches = [j \in DOMAIN @ |-> [c |-> [@[j].c EXCEPT !.p = NewName(@, x, y)], b |-> RenameEntity(@[j].b, x, y)]]]
             [] OTHER -> [st EXCEPT !.branches = [j \in DOMAIN @ |-> [@[j] EXCEPT !.b = RenameEntity(@, x, y)]]]]
RenameModuleScopeEntity(P, m, x, y) ==
    LET shadow(s) == \E i \in DOMAIN s.decls : x \in Range(s.decls[i].names)
    IN [P EXCEPT !.vars = [i \in DOMAIN @ |-> IF @[i].mod = m THEN [@[i] EXCEPT !.names = NewName(@, x, y)] ELSE @[i]],
                 !.types = [i \in DOMAIN @ |-> IF @[i].mod # m THEN @[i] ELSE [@[i] EXCEPT !.comps = [j \in DOMAIN @ |-> [@[j] EXCEPT !.names = NewName(@, x, y)]]]],
                 !.subs = [i \in DOMAIN @ |-> IF @[i].mod # m \/ shadow(@[i]) THEN @[i] ELSE [@[i] EXCEPT !.body = RenameEntity(@, x, y)]]]
NamesType(P, m, t) == \/ \E i \in DOMAIN P.types : P.types[i].mod = m /\ \E j \in DOMAIN P.types[i].comps : P.types[i].comps[j].type = t
                      \/ \E i \in DOMAIN P.subs : P.subs[i].mod = m /\ \E j \in DOMAIN P.subs[i].decls : P.subs[i].decls[j].type = t
                      \/ \E i \in DOMAIN P.vars : P.vars[i].mod = m /\ P.vars[i].type = t
Merged(P, base, arm) == {base, arm} \subseteq TypeNames(P) /\ TypeOf(P, base).mod # TypeOf(P, arm).mod
ConsolidateArmModule(P, base, arm) ==
    LET bm == TypeOf(P, base).mod
        am == TypeOf(P, arm).mod
        clash == SetToSeq(DeclaredNames(P, bm) \cap DeclaredNames(P, am))
        Q == FoldLeft(LAMBDA R, x : RenameModuleScopeEntity(R, am, x, x \o <<am>>), P, clash)
        moved(r) == IF r.mod = am THEN [r EXCEPT !.mod = bm] ELSE r
        uses(us, m) == RedirectUses(us, am, bm, m)
        mods == SelectSeq(Q.mods, LAMBDA m : m.name # am)
        M == [Q EXCEPT !.types = [i \in DOMAIN @ |-> moved(@[i])], !.vars = [i \in DOMAIN @ |-> moved(@[i])],
                       !.subs = [i \in DOMAIN @ |-> LET s == moved(@[i]) IN [s EXCEPT !.uses = uses(@, s.mod)]],
                       !.mods = [i \in DOMAIN mods |->
                           [mods[i] EXCEPT !.uses = uses(IF mods[i].name = bm THEN @ \cup ModuleUses(Q, am) ELSE @, mods[i].name)]]]
        S == ToposortTypeDefs(M, bm)
    IN [S EXCEPT !.mods = [i \in DOMAIN @ |-> IF @[i].name # bm /\ NamesType(S, @[i].name, arm) THEN [@[i] EXCEPT !.uses = EnsureUse(@, bm, <<arm>>)] ELSE @[i]]]

\* The modules, each after those it uses; a cycle is an exception.
SortModules(P, order) ==
    LET done == {order[i].name : i \in DOMAIN order}
        ready == SelectSeq(P.mods, LAMBDA m : m.name \notin done /\ {u.mod : u \in AllUses(P, m.name)} \subseteq done)
    IN IF Len(order) = Len(P.mods) THEN [P EXCEPT !.mods = order]
       ELSE IF ready = <<>> THEN [P EXCEPT !.err = TRUE] ELSE SortModules(P, Append(order, ready[1]))
KeepSortedUsedModules(P) == SortModules(P, <<>>)

-----------------------------------------------------------------------------
(* The passes in their order.                                              *)

Init ==
    /\ source \in Programs
    /\ stack \in BOOLEAN
    /\ prog = source
    /\ axes = <<>>
    /\ cloned = {}
    /\ work = <<[pass |-> "discover", axis |-> 0, arm |-> ""]>>

Next1(pass) == work # <<>> /\ work[1].pass = pass /\ ~prog.err
Plan == axes[work[1].axis].plan
Jobs(passes, at) == FlattenSeq([i \in DOMAIN at |-> [j \in DOMAIN passes |-> [pass |-> passes[j], axis |-> at[i], arm |-> ""]]])

Discover ==
    /\ Next1("discover")
    /\ axes' = DiscoverAxes(source)
    /\ LET at(st) == SelectSeq([i \in DOMAIN axes' |-> i], LAMBDA i : axes'[i].strategy = st)
           merges == FlattenSeq([i \in DOMAIN axes' |-> [j \in DOMAIN axes'[i].plan.arms |-> [pass |-> "merge", axis |-> i, arm |-> axes'[i].plan.arms[j]]]])
       IN work' = IF axes' = <<>> THEN <<>>
                  ELSE Jobs(<<"retype">>, at(Retype)) \o Jobs(<<"local", "component", "interposer">>, at(Ladder))
                       \o Jobs(<<"flow">>, at(Ladder)) \o Jobs(<<"dummy">>, at(Ladder)) \o merges \o <<[pass |-> "sort", axis |-> 0, arm |-> ""]>>
    /\ UNCHANGED <<source, stack, prog, cloned>>

Done(P) == prog' = P /\ work' = Tail(work) /\ UNCHANGED <<source, stack, axes>>
RetypeAxis == Next1("retype") /\ Done(RetypeToConcrete(prog, Plan.base, Plan.arms[1])) /\ UNCHANGED cloned
Locals == Next1("local") /\ Done(MonomorphizeLocalDispatch(prog, Plan, stack)) /\ UNCHANGED cloned
Components == Next1("component") /\ Done(MonomorphizeComponentDispatch(prog, Plan, stack)) /\ UNCHANGED cloned
Interposers == Next1("interposer") /\ Done(CloneSharedInterposers(prog, Plan)) /\ UNCHANGED cloned
\* The pointer flow is followed for an axis with associations, until no procedure is left to clone; then the clones' originals go.
HasAssociations == cloned # {} \/ \E i \in DOMAIN prog.subs : PtrAssocSites(prog.subs[i], Plan.base) # {}
Follow ==
    /\ Next1("flow") /\ HasAssociations
    /\ \E table \in {FlowTable(prog, Plan)} : \E new \in {NewFlows(table, cloned)} :
          /\ prog' = IF new = {} THEN DropDeadConstructors(FlowRound(prog, Plan, <<>>, table), {c[1] : c \in cloned})
                     ELSE FlowRound(prog, Plan, SetToSeq(new), table)
          /\ cloned' = IF new = {} THEN {} ELSE cloned \cup new
          /\ work' = IF new = {} THEN Tail(work) ELSE work
    /\ UNCHANGED <<source, stack, axes>>
NoFlow == Next1("flow") /\ ~HasAssociations /\ Done(prog) /\ UNCHANGED cloned
DummyDispatch == Next1("dummy") /\ Done(DevirtualizeDummyDispatch(prog, Plan)) /\ UNCHANGED cloned
Merge == /\ Next1("merge")
         /\ Done(IF Merged(prog, Plan.base, work[1].arm) THEN ConsolidateArmModule(prog, Plan.base, work[1].arm) ELSE prog)
         /\ UNCHANGED cloned
Sort == Next1("sort") /\ Done(IF Len(prog.mods) = Len(source.mods) THEN prog ELSE KeepSortedUsedModules(prog)) /\ UNCHANGED cloned

Next == Discover \/ RetypeAxis \/ Locals \/ Components \/ Interposers \/ Follow \/ NoFlow \/ DummyDispatch \/ Merge \/ Sort
Spec == Init /\ [][Next]_vars

-----------------------------------------------------------------------------
(* Properties of the rewritten program.                                    *)

Ended == work = <<>> \/ prog.err
AxisBases == {axes[i].plan.base : i \in DOMAIN axes}
\* Only programs that a compiler takes and that never dispatch on nothing are rewritten.
ASSUME ProgramsValid == \A p \in Programs : Compiles(p) /\ NullCall \notin Range(Run(p).tr)

\* A statement that is laddered as a whole names a slot and, under the name of a slot, another component: every one of
\* them is retargeted to the arm of the first container, or none is (monomorphize_rewrite.py:466-481), although the
\* docstring leaves a component of another type alone (454-458).
Mingled ==
    \E a \in {i \in DOMAIN axes : axes[i].strategy = Ladder} : \E s \in Range(source.subs) :
        LET base == axes[a].plan.base
            full == FullNames(source, base)
            hybrid == HybridNames(source, base)
            places(st) == UNION {{SubSeq(p, 1, i) : i \in SlotAt(p, full \cup hybrid)} : p \in Range(RefsOf(st))}
        IN \E st \in ConditionUnits(s, full, hybrid) \cup SlotStatements(s, full, hybrid) : Cardinality(places(st)) > 1
\* A SELECT TYPE of an object that becomes TYPE(arm) in a pass that leaves the construct alone: retype_to_concrete
\* (792-812) and the clones of a binding of the base or of a procedure that a slot is handed to (645-687).  The
\* pointer flow resolves those of the argument it follows, since "flang rejects" them (983-986).
StrandedSelect ==
    \E a \in DOMAIN axes : \E s \in Range(source.subs) :
        LET plan == axes[a].plan
            handed == \E t \in Range(source.subs) : \E c \in Range(Calls(t)) : c.f = s.name /\ HandedSlots(source, c, s.name, plan) # <<>>
        IN /\ \E st \in StatementSet(s.body) : st.k = "sel" /\ st.x \in ClassNames(s, plan.base)
           /\ \/ axes[a].strategy = Retype
              \/ s.name \in Range(TypeOf(source, plan.base).over)
              \/ handed

(* The rewritten program prints what dynamic dispatch printed: every tag   *)
(* ladder, clone, retyped declaration, resolved SELECT TYPE and merged     *)
(* module runs the procedure of the object's dynamic type, on the same     *)
(* data (monomorphize_auto; monomorphize_rewrite_test.py runs both).       *)
SameBehaviour == Ended /\ ~Mingled => ~prog.err /\ Run(prog).tr = Run(source).tr

(* A compiler takes the rewritten program, and no dispatch on a collapsed  *)
(* base is left in what can run: no reference to a component that was      *)
(* expanded away, no clone that is not imported, no arm's type used before *)
(* it is defined, no circular USE, no SELECT TYPE of a concrete object,    *)
(* and nothing that the bridge would refuse as polymorphic.                *)
AllStatic == Ended /\ ~Mingled /\ ~StrandedSelect => ~prog.err /\ Compiles(prog) /\ ~Dispatches(prog, AxisBases)

\* What object o of the rewritten program holds for slot x of an axis: its tag names the arm whose object is r.
Holding(o, x, plan, r, types) ==
    IF r = 0 THEN o.f[TagVar(x)] = 0
    ELSE /\ o.f[TagVar(x)] \in DOMAIN plan.arms /\ plan.arms[o.f[TagVar(x)]] = types[r].t
         /\ o.f[ArmSlot(x, types[r].t)] = r
Represents(o, was, types) ==
    \A x \in DOMAIN was.f :
        /\ x \in DOMAIN o.f => o.f[x] = was.f[x]
        /\ \A i \in DOMAIN axes : TagVar(x) \in DOMAIN o.f /\ ArmSlot(x, axes[i].plan.arms[1]) \in DOMAIN o.f => Holding(o, x, axes[i].plan, was.f[x], types)
SameHeap(now, was) == Len(now) = Len(was) /\ \A i \in DOMAIN now : now[i].t = was[i].t /\ Represents(now[i], was[i], was)
\* The objects are made at the same times: with stack_slots an arm's object is made with its container, not by an ALLOCATE.
SameObjects == stack => \A st \in AllStatements(source) : st.k # "alloc"
(* When the program ends its memory stands for that of the original, object *)
(* by object: where a polymorphic component held an object, the tag names  *)
(* that object's type and the arm's component is that object, where it held *)
(* nothing the tag is 0, a component that was kept still holds it, and all *)
(* other data are equal.  A later guard, read or dispatch in code that is  *)
(* not part of this program finds what it would have found.                *)
SameMemory == Ended /\ SameObjects /\ ~Mingled => SameHeap(Run(prog).h, Run(source).h)
=============================================================================
