----------------------------- MODULE FoldBodies -----------------------------
(***************************************************************************)
(* The passes of the source inliner that rewrite procedure bodies:         *)
(* ASSOCIATE constructs are substituted, GOTOs turned into IFs and loops   *)
(* (desugaring.py), the calls of the configured targets spliced into their *)
(* callers (specialize_at_source.py), then constant arguments, locally     *)
(* constant variables and constant expressions are folded and dead         *)
(* branches removed (optimizations.py, analysis.py, pruning.py) until the  *)
(* text no longer changes.  An action is one pass of                       *)
(* run_fparser_transformations, or one step of a pass that repeats.        *)
(***************************************************************************)
EXTENDS FortranBodies

LOCAL INSTANCE SequencesExt
LOCAL INSTANCE Functions

CONSTANTS
    Programs,       \* the programs this instance covers: [procs, entry, targets]
    ProcSeq,        \* the names of procedures in the order of the text
    Inputs(_)       \* the arguments a program is called with

VARIABLES
    ast,            \* the program
    source,         \* the program as it was (history), with its entry and the names to specialise
    flags,          \* procedure -> the labels for which a variable goto_<label> is declared
    inlined,        \* the calls spliced so far; the number makes the names of locals unique
    before,         \* the text of the round before
    unfolded,       \* the text the folds start from (history), empty until then
    pc

vars == <<ast, source, flags, inlined, before, unfolded, pc>>

-----------------------------------------------------------------------------
(* Substitution.  sub maps names to expressions, pres to what PRESENT of   *)
(* them is known to be.                                                    *)

RECURSIVE SubstE(_, _, _), SubstS(_, _, _), All(_), Refs(_), DeconstructAssociations(_), Paths(_), At(_, _),
    BodyAt(_, _), WithBodyAt(_, _, _), HasConjunct(_, _), Climb(_, _, _, _, _), ConstEval(_),
    ConstEvalNodes(_), PruneIfBlock(_, _), PruneBranches(_), InjectE(_, _), Track(_, _, _), Blocks(_),
    DropAbsent(_), Without(_, _), ReplaceRef(_, _, _)
SubstArgs(args, sub, pres) == [i \in DOMAIN args |-> [args[i] EXCEPT !.e = SubstE(@, sub, pres)]]
SubstE(e, sub, pres) ==
    CASE e.op = "var" /\ e.x \in DOMAIN sub -> sub[e.x]
      [] e.op = "present" /\ e.x \in DOMAIN pres -> Log(pres[e.x])
      [] e.op = "present" /\ e.x \in DOMAIN sub -> Present(sub[e.x].x)
      [] e.op = "not" -> Not(SubstE(e.a, sub, pres))
      [] e.op \in Binary -> [e EXCEPT !.a = SubstE(@, sub, pres), !.b = SubstE(@, sub, pres)]
      [] e.op = "fn" -> [e EXCEPT !.args = SubstArgs(@, sub, pres)]
      [] OTHER -> e

Name(x, sub) == IF x \in DOMAIN sub /\ sub[x].op = "var" THEN sub[x].x ELSE x

SubstB(b, sub, pres) == [i \in DOMAIN b |-> SubstS(b[i], sub, pres)]
SubstS(s, sub, pres) ==
    LET E(e) == SubstE(e, sub, pres)
        B(b) == SubstB(b, sub, pres)
    IN CASE s.k = "set" -> Set(Name(s.x, sub), E(s.e))
         [] s.k = "ifs" -> IfS(E(s.c), SubstS(s.s, sub, pres))
         [] s.k = "if" -> If(E(s.c), B(s.b))
         [] s.k = "elseif" -> ElseIf(E(s.c))
         [] s.k = "do" -> Do(Name(s.x, sub), E(s.n), B(s.b))
         [] s.k = "while" -> While(E(s.c), B(s.b))
         [] s.k = "assoc" -> Assoc(s.x, E(s.e), B(s.b))
         [] s.k = "call" -> Call(s.f, SubstArgs(s.args, sub, pres))
         [] OTHER -> s

\* Every statement of a body, with the ones inside it.
All(b) == UNION {{b[i]} \cup All(Kids(b[i])) : i \in DOMAIN b}
Refs(e) ==
    CASE e.op = "not" -> Refs(e.a)
      [] e.op \in Binary -> Refs(e.a) \cup Refs(e.b)
      [] e.op = "fn" -> {e} \cup UNION {Refs(e.args[i].e) : i \in DOMAIN e.args}
      [] OTHER -> {}
Exprs(s) ==
    CASE s.k \in {"set", "assoc"} -> {s.e}
      [] s.k \in {"ifs", "if", "elseif", "while"} -> {s.c}
      [] s.k = "do" -> {s.n}
      [] s.k = "call" -> {s.args[i].e : i \in DOMAIN s.args}
      [] OTHER -> {}

-----------------------------------------------------------------------------
(* desugaring.py: ASSOCIATE.  The name is replaced by a copy of its        *)
(* selector everywhere in the block.                                       *)

DeconstructAssociations(b) ==
    FlattenSeq([i \in DOMAIN b |->
        CASE b[i].k = "assoc" -> DeconstructAssociations(SubstB(b[i].b, b[i].x :> b[i].e, <<>>))
          [] b[i].k \in {"if", "do", "while"} -> <<WithKids(b[i], DeconstructAssociations(b[i].b))>>
          [] OTHER -> <<b[i]>>])

-----------------------------------------------------------------------------
(* desugaring.py: GOTO.  A path leads from the body to a statement.        *)

Paths(b) ==
    FlattenSeq([i \in DOMAIN b |->
        LET inner == Paths(Kids(b[i])) IN <<<<i>>>> \o [j \in DOMAIN inner |-> <<i>> \o inner[j]]])
At(b, p) == IF Len(p) = 1 THEN b[p[1]] ELSE At(Kids(b[p[1]]), Tail(p))
\* The body that holds the statement at p, and the body with that one replaced.
BodyAt(b, p) == IF Len(p) = 1 THEN b ELSE BodyAt(Kids(b[p[1]]), Tail(p))
WithBodyAt(b, p, new) ==
    IF Len(p) = 1 THEN new ELSE [b EXCEPT ![p[1]] = WithKids(@, WithBodyAt(Kids(@), Tail(p), new))]
PutAt(b, p, s) == WithBodyAt(b, p, [BodyAt(b, p) EXCEPT ![p[Len(p)]] = s])
InsertAfter(b, p, seq) ==
    LET body == BodyAt(b, p)
        i == p[Len(p)]
    IN WithBodyAt(b, p, Part(body, 1, i) \o seq \o Part(body, i + 1, Len(body)))

GotoVar(l) == <<"goto", l>>
Gotos(b) == SelectSeq(Paths(b), LAMBDA p : At(b, p).k = "goto")
TargetOf(b, p) == CHOOSE q \in ToSet(Paths(b)) : At(b, q) = Continue(At(b, p).l)
\* One of the two is met first in a walk of the tree.
Before(b, p, q) ==
    LET ps == Paths(b) IN (CHOOSE i \in DOMAIN ps : ps[i] = p) < (CHOOSE i \in DOMAIN ps : ps[i] = q)
Backward(b, p) == Before(b, TargetOf(b, p), p)
\* Only a GOTO below the parent of its target is supported.
Supported(b, p) ==
    LET q == TargetOf(b, p) IN Len(q) <= Len(p) /\ Part(p, 1, Len(q) - 1) = Part(q, 1, Len(q) - 1)

\* add_condition_to_node_execution
HasConjunct(e, c) == e = c \/ (e.op = "and" /\ (HasConjunct(e.a, c) \/ HasConjunct(e.b, c)))
Conditioned(cond, s) ==
    CASE s.k = "cont" -> s
      [] s.k \in {"ifs", "elseif"} -> IF HasConjunct(s.c, cond) THEN s ELSE [s EXCEPT !.c = And(cond, @)]
      [] s.k = "else" -> ElseIf(cond)
      [] s.k \in {"if", "do", "while"} -> If(cond, <<s>>)
      [] OTHER -> IfS(cond, s)

ExitIf(v) == IfS(Var(v), Exit)
\* From the statement at p, which has set the flag v, up to the level top: a loop is left, the statements behind are
\* skipped, in the body of the target (level stop) only those ahead of it.
Climb(b, p, v, stop, limit) ==
    LET n == Len(p)
        body == BodyAt(b, p)
        i == p[n]
        par == IF n = 1 THEN [k |-> "top"] ELSE At(b, Part(p, 1, n - 1))
        last == IF n = stop THEN limit ELSE Len(body)
        guarded == [j \in DOMAIN body |-> IF j > i /\ j <= last THEN Conditioned(Not(Var(v)), body[j]) ELSE body[j]]
        up(t) == IF n <= stop THEN t ELSE Climb(t, Part(p, 1, n - 1), v, stop, limit)
    IN CASE par.k = "while" /\ par.c = Var(v) -> b
         [] par.k \in {"do", "while"} /\ n # stop ->
               IF i < Len(body) /\ body[i + 1] = ExitIf(v) THEN b ELSE up(InsertAfter(b, p, <<ExitIf(v)>>))
         [] OTHER -> up(IF par.k = "ifs" THEN b ELSE WithBodyAt(b, p, guarded))

\* The flag is cleared at the start and behind the target, and set in place of the GOTO.
ForwardGoto(b, p, declared) ==
    LET l == At(b, p).l
        v == GotoVar(l)
        clear == Set(v, Log(FALSE))
        q == TargetOf(b, p)
        down(x) == <<x[1] + 1>> \o Tail(x)
        ready == IF declared THEN b ELSE <<clear>> \o InsertAfter(b, q, <<clear>>)
        from == IF declared THEN p ELSE down(p)
        to == IF declared THEN q ELSE down(q)
    IN Climb(PutAt(ready, from, Set(v, Log(TRUE))), from, v, Len(to), to[Len(to)] - 1)

\* What lies between the target and the GOTO becomes a loop that runs while the flag is set.
BackwardGoto(b, p, declared) ==
    LET l == At(b, p).l
        v == GotoVar(l)
        q == TargetOf(b, p)
        n == Len(q)
        body == BodyAt(b, q)
        first == q[n] + 1
        loop == While(Var(v), <<Set(v, Log(FALSE))>> \o Part(body, first, p[n]))
        wrapped == WithBodyAt(b, q, Part(body, 1, q[n]) \o <<Set(v, Log(TRUE)), loop>> \o Part(body, p[n] + 1, Len(body)))
        ready == IF declared THEN b ELSE wrapped
        from == IF declared THEN p
                ELSE Part(q, 1, n - 1) \o <<q[n] + 2, 2 + p[n] - first>> \o Part(p, n + 1, Len(p))
    IN Climb(PutAt(ready, from, Set(v, Log(TRUE))), from, v, n, 0)

\* The last of the backward GOTOs comes first, then the forward ones from the first on.
NextGoto(b) ==
    LET gs == Gotos(b)
        back == SelectSeq(gs, LAMBDA p : Backward(b, p))
    IN IF back # <<>> THEN back[Len(back)] ELSE gs[1]

-----------------------------------------------------------------------------
(* analysis.const_eval_basic_type, optimizations.const_eval_nodes and      *)
(* pruning.prune_branches.                                                 *)

ConstEvalSpelled(e) ==
    LET spelled(f) == IF f.op = "not" THEN Eq(f.a, Log(FALSE)) ELSE f
    IN IF e.op = "and" THEN And(spelled(e.a), spelled(e.b)) ELSE spelled(e)
ConstEval(e) ==
    LET false == Log(FALSE)
    IN CASE e.op = "not" -> LET a == ConstEval(e.a) IN IF Literal(a) THEN Log(a.v = 0) ELSE Not(a)
         [] e.op \in Binary ->
               LET a == ConstEval(e.a)
                   b == ConstEval(e.b)
               IN CASE e.op = "and" /\ false \in {a, b} -> false
                    [] Literal(a) /\ Literal(b) ->
                          LET v == Apply(e.op, a.v, b.v) IN IF e.op \in {"and", "eq"} THEN Log(v = 1) ELSE Num(v)
                    [] OTHER -> [e EXCEPT !.a = a, !.b = b]
         [] e.op = "fn" -> [e EXCEPT !.args = [i \in DOMAIN @ |-> [@[i] EXCEPT !.e = ConstEval(@)]]]
         [] OTHER -> e

ConstEvalNodes(b) ==
    [i \in DOMAIN b |->
        LET s == b[i]
        IN CASE s.k = "set" -> [s EXCEPT !.e = ConstEval(@)]
             [] s.k = "ifs" -> IfS(ConstEval(s.c), ConstEvalNodes(<<s.s>>)[1])
             [] s.k \in {"if", "while"} -> [s EXCEPT !.c = ConstEval(@), !.b = ConstEvalNodes(@)]
             [] s.k = "elseif" -> ElseIf(ConstEval(s.c))
             [] s.k = "do" -> [s EXCEPT !.n = ConstEval(@), !.b = ConstEvalNodes(@)]
             [] s.k = "call" -> [s EXCEPT !.args = [j \in DOMAIN @ |-> [@[j] EXCEPT !.e = ConstEval(@)]]]
             [] OTHER -> s]

\* The statements an IF construct is replaced by: itself while its condition is not constant.
PruneIfBlock(c, b) ==
    LET v == ConstEval(c)
        cut == Cut(b)
    IN CASE ~Literal(v) -> <<If(c, b)>>
         [] v.v = 1 -> Part(b, 1, cut - 1)
         [] cut > Len(b) -> <<>>
         [] b[cut].k = "else" -> Part(b, cut + 1, Len(b))
         [] OTHER -> PruneIfBlock(b[cut].c, Part(b, cut + 1, Len(b)))
PruneBranches(b) ==
    FlattenSeq([i \in DOMAIN b |->
        LET s == b[i]
        IN CASE s.k = "if" ->
                   LET kept == PruneIfBlock(s.c, s.b)
                   IN IF Len(kept) = 1 /\ kept[1].k = "if" /\ ~Literal(ConstEval(kept[1].c))
                      THEN <<[kept[1] EXCEPT !.b = PruneBranches(@)]>> ELSE PruneBranches(kept)
             [] s.k \in {"do", "while"} -> <<[s EXCEPT !.b = PruneBranches(@)]>>
             [] s.k = "ifs" -> LET v == ConstEval(s.c) IN IF ~Literal(v) THEN <<s>> ELSE IF v.v = 1 THEN <<s.s>> ELSE <<>>
             [] OTHER -> <<s>>])

-----------------------------------------------------------------------------
(* optimizations.make_practically_constant_arguments_constants.            *)

\* The calls and function references of a body.
Calls(b) == {s \in All(b) : s.k = "call"} \cup UNION {UNION {Refs(e) : e \in Exprs(s)} : s \in All(b)}
Optionals(proc) == {proc.dummies[i].name : i \in {j \in DOMAIN proc.dummies : proc.dummies[j].optional}}
\* What one call says about the i-th dummy: its presence, and none or one value; caller is the calling procedure.
Seen(proc, i, call, caller) ==
    LET a == Actual(proc.dummies, call.args, i)
    IN [presence |-> CASE a = <<>> -> {FALSE}
                       [] a[1].op = "var" /\ a[1].x \in Optionals(caller) -> BOOLEAN
                       [] OTHER -> {TRUE},
        value |-> IF a # <<>> /\ Literal(a[1]) THEN {a[1]} ELSE {},
        undecidable |-> a # <<>> /\ ~Literal(a[1])]
ConstantArguments(P, f) ==
    LET proc == P[f]
        D == DOMAIN proc.dummies
        sites == UNION {{[call |-> c, in |-> g] : c \in {d \in Calls(P[g].body) : d.f = f}} : g \in DOMAIN P}
        seen(i) == {Seen(proc, i, s.call, P[s.in]) : s \in sites}
        presence(i) == UNION {o.presence : o \in seen(i)}
        values(i) == UNION {o.value : o \in seen(i)}
        known == {i \in D : proc.dummies[i].optional /\ Cardinality(presence(i)) = 1}
        fixed == {i \in D : /\ ~proc.dummies[i].out /\ Cardinality(values(i)) = 1
                            /\ FALSE \notin presence(i) /\ \A o \in seen(i) : ~o.undecidable}
        dummy(S, x) == CHOOSE i \in S : proc.dummies[i].name = x
        names(S) == {proc.dummies[i].name : i \in S}
    IN SubstB(proc.body,
              [x \in names(fixed) |-> CHOOSE v \in values(dummy(fixed, x)) : TRUE],
              [x \in names(known) |-> TRUE \in presence(dummy(known, x))])

-----------------------------------------------------------------------------
(* analysis.track_local_consts.  plus maps variables to the literal they   *)
(* are known to hold, minus has those known to be unknown.  The result of  *)
(* a statement is the statement with the knowns put in, and both; raised   *)
(* stands for NotImplementedError.                                         *)

Drop(plus, S) == [x \in DOMAIN plus \ S |-> plus[x]]
Integrate(r, tp, tm) == [r EXCEPT !.plus = tp @@ Drop(@, tm), !.minus = (@ \cup tm) \ DOMAIN tp]

\* _inject_knowns.  A bare name stays when it is an argument: the callee may write it.
InjectArgs(args, plus) ==
    [i \in DOMAIN args |-> IF args[i].kw = <<>> /\ args[i].e.op = "var" THEN args[i] ELSE [args[i] EXCEPT !.e = InjectE(@, plus)]]
InjectE(e, plus) ==
    CASE e.op = "var" /\ e.x \in DOMAIN plus -> plus[e.x]
      [] e.op = "not" -> Not(InjectE(e.a, plus))
      [] e.op \in Binary -> [e EXCEPT !.a = InjectE(@, plus), !.b = InjectE(@, plus)]
      [] e.op = "fn" -> [e EXCEPT !.args = InjectArgs(@, plus)]
      [] OTHER -> e

Unraised(s, plus, minus) == [s |-> s, plus |-> plus, minus |-> minus, raised |-> FALSE]

TrackAssignment(s, plus, minus) ==
    LET t == [s EXCEPT !.e = InjectE(@, plus)]
        v == ConstEval(t.e)
        r == Unraised(t, plus, minus)
    IN IF Literal(v) THEN Integrate(r, s.x :> v, {}) ELSE Integrate(r, <<>>, {s.x})

\* What a logical IF assigns becomes unknown.
TrackIfStmt(s, plus, minus) ==
    LET t == [s EXCEPT !.c = InjectE(@, plus)]
    IN CASE s.s.k = "set" -> Integrate(Unraised([t EXCEPT !.s.e = InjectE(@, plus)], plus, minus), <<>>, {s.s.x})
         [] s.s.k = "call" -> Unraised([t EXCEPT !.s.args = InjectArgs(@, plus)], plus, minus)
         [] s.s.k = "goto" -> Unraised(t, plus, minus)
         [] OTHER -> [Unraised(t, plus, minus) EXCEPT !.raised = TRUE]

TrackList(b, plus, minus) ==
    FoldLeft(LAMBDA r, s : IF r.raised THEN [r EXCEPT !.s = Append(@, s)]
                           ELSE LET t == Track(s, r.plus, r.minus)
                                IN [Integrate(r, t.plus, t.minus) EXCEPT !.s = Append(r.s, t.s), !.raised = t.raised],
             Unraised(<<>>, plus, minus), b)

\* The blocks of an IF construct, with the marker that opens each; without ELSE an empty one is added.
Blocks(b) ==
    LET cut == Cut(b)
        here == <<Part(b, 1, cut - 1)>>
    IN CASE cut > Len(b) -> here \o <<<<>>>>
         [] b[cut].k = "else" -> here \o <<Part(b, cut + 1, Len(b))>>
         [] OTHER -> here \o Blocks(Part(b, cut + 1, Len(b)))
\* Known afterwards is what every block leaves with one value.
Agreed(rs) == {x \in UNION {DOMAIN rs[i].plus : i \in DOMAIN rs} :
                  \A i \in DOMAIN rs : x \in DOMAIN rs[i].plus /\ rs[i].plus[x] = rs[1].plus[x]}
TrackIfConstruct(s, plus, minus) ==
    LET markers == SelectSeq([i \in DOMAIN s.b |-> IF s.b[i].k = "elseif" THEN [s.b[i] EXCEPT !.c = InjectE(@, plus)] ELSE s.b[i]],
                             LAMBDA t : t.k \in {"elseif", "else"})
        bs == Blocks(s.b)
        rs == [i \in DOMAIN bs |-> TrackList(bs[i], plus, minus)]
        ends == {i \in DOMAIN rs : rs[i].raised}
        stop == IF ends = {} THEN Len(rs) + 1 ELSE CHOOSE i \in ends : \A j \in ends : i <= j
        body(i) == IF i <= stop THEN rs[i].s ELSE bs[i]     \* an exception leaves the later blocks alone
        written == FlattenSeq([i \in DOMAIN bs |-> (IF i = 1 \/ i > Len(markers) + 1 THEN <<>> ELSE <<markers[i - 1]>>) \o body(i)])
        r == Unraised([s EXCEPT !.c = InjectE(@, plus), !.b = written], plus, minus)
        agreed == Agreed(rs)
        lost == UNION {DOMAIN rs[i].plus \cup rs[i].minus : i \in DOMAIN rs} \ agreed
    IN IF ends # {} THEN [r EXCEPT !.raised = TRUE] ELSE Integrate(r, [x \in agreed |-> rs[1].plus[x]], lost)

\* A loop body is taken statement by statement with nothing known that the loop assigns.
TrackLoop(s, plus, minus) ==
    LET alone == FoldLeft(LAMBDA a, op : IF a.raised THEN [a EXCEPT !.s = Append(@, op)]
                                         ELSE LET t == Track(op, <<>>, {})
                                              IN [s |-> Append(a.s, t.s), raised |-> t.raised,
                                                  net |-> a.net \cup DOMAIN t.plus \cup t.minus],
                          [s |-> <<>>, raised |-> FALSE, net |-> {}], s.b)
        var == IF s.k = "do" THEN {s.x} ELSE {}
        net == alone.net \cup var
        twice(r, op) ==
            LET t == Track(op, <<>>, {})
                r1 == Integrate(r, t.plus, t.minus)
                u == Track(t.s, Drop(r1.plus, net), net \cup r1.minus)
            IN [Integrate(r1, u.plus, u.minus) EXCEPT !.s = Append(r.s, u.s)]
        all == FoldLeft(twice, Unraised(<<>>, plus, minus), alone.s)
    IN IF alone.raised THEN [Unraised([s EXCEPT !.b = alone.s], plus, minus) EXCEPT !.raised = TRUE]
       ELSE Integrate([all EXCEPT !.s = [s EXCEPT !.b = all.s]], <<>>, var)

Track(s, plus, minus) ==
    CASE s.k = "set" -> TrackAssignment(s, plus, minus)
      [] s.k = "ifs" -> TrackIfStmt(s, plus, minus)
      [] s.k = "if" -> TrackIfConstruct(s, plus, minus)
      [] s.k \in {"do", "while"} -> TrackLoop(s, plus, minus)
      [] s.k = "call" -> Unraised([s EXCEPT !.args = InjectArgs(@, plus)], plus, minus)
      [] OTHER -> Unraised(s, plus, minus)

\* exploit_locally_constant_variables: a statement that raises makes everything unknown.
TrackBody(b) ==
    FoldLeft(LAMBDA r, s : LET t == Track(s, r.plus, r.minus)
                           IN IF t.raised THEN Unraised(Append(r.s, t.s), <<>>, {})
                              ELSE [Integrate(r, t.plus, t.minus) EXCEPT !.s = Append(r.s, t.s)],
             Unraised(<<>>, <<>>, {}), b).s

-----------------------------------------------------------------------------
(* specialize_at_source.py.  An actual argument is a name or a literal, so *)
(* that the textual substitution is one of trees.                          *)

Absent == <<"f2dace_absent_arg">>

\* _bind_actuals_to_dummies: dummy -> actual, and the optional dummies that are omitted.
Bound(proc, args) ==
    LET passed == {i \in DOMAIN proc.dummies : Actual(proc.dummies, args, i) \notin {<<>>, <<Var(Absent)>>}}
    IN [x \in {proc.dummies[i].name : i \in passed} |->
            Actual(proc.dummies, args, CHOOSE i \in passed : proc.dummies[i].name = x)[1]]
Omitted(proc, args) == {proc.dummies[i].name : i \in DOMAIN proc.dummies} \ DOMAIN Bound(proc, args)
AllSupplied(bound, caller) == DOMAIN bound
\* _statically_present: what is bound to an optional dummy of the caller may be absent at run time.
StaticallyPresent(bound, caller) == {d \in DOMAIN bound : ~(bound[d].op = "var" /\ bound[d].x \in Optionals(caller))}

HasAbsent(args) == \E i \in DOMAIN args : args[i].e = Var(Absent)
\* _drop_absent_actuals, and _drop_calls_passing_absent for those that still pass the marker.
DropAbsent(b) ==
    LET trim(args) == SelectSeq(args, LAMBDA a : a.kw = <<>> \/ a.e # Var(Absent))
        kept(s) == CASE s.k = "call" -> [s EXCEPT !.args = trim(@)]
                     [] s.k = "ifs" /\ s.s.k = "call" -> [s EXCEPT !.s.args = trim(@)]
                     [] s.k \in {"if", "do", "while"} -> [s EXCEPT !.b = DropAbsent(@)]
                     [] OTHER -> s
        dead(s) == (s.k = "call" /\ HasAbsent(s.args)) \/ (s.k = "ifs" /\ s.s.k = "call" /\ HasAbsent(s.s.args))
    IN SelectSeq([i \in DOMAIN b |-> kept(b[i])], LAMBDA s : ~dead(s))

\* _fold_logical_literal_locals: a name that is given a logical literal in one place holds it everywhere.
Without(b, S) ==
    FlattenSeq([i \in DOMAIN b |-> CASE b[i] \in S -> <<>>
                                     [] b[i].k \in {"if", "do", "while"} -> <<[b[i] EXCEPT !.b = Without(@, S)]>>
                                     [] OTHER -> <<b[i]>>])
LiteralSets(b) == SelectSeq(Paths(b), LAMBDA p : /\ At(b, p).k = "set" /\ At(b, p).e.op = "log"
                                                 /\ (Len(p) > 1 => At(b, Part(p, 1, Len(p) - 1)).k # "ifs"))
FoldLogicalLocals(b) ==
    LET sets == LiteralSets(b)
        name(i) == At(b, sets[i]).x
        once == {i \in DOMAIN sets : \A j \in DOMAIN sets : name(j) = name(i) => j = i}
    IN SubstB(Without(b, {At(b, sets[i]) : i \in once}),
              [x \in {name(i) : i \in once} |-> At(b, sets[CHOOSE i \in once : name(i) = x]).e], <<>>)

\* The body of a callee as it is put into its caller.
Mentions(e, x) == SubstE(e, x :> Num(0), x :> TRUE) # e
Fragment(proc, args, caller, suffix, n) ==
    LET bound == Bound(proc, args)
        omitted == Omitted(proc, args)
        local == [x \in proc.locals |-> Var(x \o <<suffix, ToString(n)>>)]
        pres == [x \in StaticallyPresent(bound, caller) |-> TRUE] @@ [x \in omitted |-> FALSE]
        sub == local @@ bound @@ [x \in omitted |-> Var(Absent)]
    IN PruneBranches(FoldLogicalLocals(DropAbsent(SubstB(proc.body, sub, pres))))
\* The splice is sound to make: no dummy is missing, and no omitted one is left in the text.
Expressible(proc, args, fragment) ==
    /\ Omitted(proc, args) \subseteq Optionals(proc)
    /\ \A s \in All(fragment) : (s.k = "set" => s.x # Absent) /\ \A e \in Exprs(s) : ~Mentions(e, Absent)

\* _inline_one_call: the first call of a target that can be spliced, over all procedures.
CallSites(P, targets) ==
    FlattenSeq([i \in DOMAIN ProcSeq |->
        LET b == P[ProcSeq[i]].body
            ps == SelectSeq(Paths(b), LAMBDA p : At(b, p).k = "call" /\ At(b, p).f \in targets)
        IN [j \in DOMAIN ps |-> [in |-> ProcSeq[i], path |-> ps[j]]]])
CallFragment(P, site, n) ==
    LET c == At(P[site.in].body, site.path) IN Fragment(P[c.f], c.args, P[site.in], "inl", n)
InlineCall(P, site, n) ==
    LET b == P[site.in].body
        c == At(b, site.path)
        frag == CallFragment(P, site, n)
        i == site.path[Len(site.path)]
        body == BodyAt(b, site.path)
    IN [P EXCEPT ![site.in].body = WithBodyAt(b, site.path, Part(body, 1, i - 1) \o frag \o Part(body, i + 1, Len(body))),
                 ![site.in].locals = @ \cup {x \o <<"inl", ToString(n)>> : x \in P[c.f].locals}]
Inlinable(P, targets, n) ==
    SelectSeq(CallSites(P, targets), LAMBDA site :
        LET c == At(P[site.in].body, site.path) IN Expressible(P[c.f], c.args, CallFragment(P, site, n)))

\* _inline_one_funcref: the body goes in front of the statement of the execution part that holds the reference.
FnSites(P, targets) ==
    FlattenSeq([i \in DOMAIN ProcSeq |->
        LET b == P[ProcSeq[i]].body
            ps == SelectSeq(Paths(b), LAMBDA p : At(b, p).k = "set" /\ \E r \in Refs(At(b, p).e) : r.f \in targets)
        IN [j \in DOMAIN ps |-> [in |-> ProcSeq[i], path |-> ps[j]]]])
FnRef(P, site, targets) == CHOOSE r \in Refs(At(P[site.in].body, site.path).e) : r.f \in targets
FnFragment(P, site, targets, n) ==
    LET r == FnRef(P, site, targets) IN Fragment(P[r.f], r.args, P[site.in], "fn", n)
InlineFn(P, site, targets, n) ==
    LET b == P[site.in].body
        s == At(b, site.path)
        r == FnRef(P, site, targets)
        i == site.path[1]
        done == PutAt(b, site.path, [s EXCEPT !.e = ReplaceRef(@, r, P[r.f].result \o <<"fn", ToString(n)>>)])
    IN [P EXCEPT ![site.in].body = Part(done, 1, i - 1) \o FnFragment(P, site, targets, n) \o Part(done, i, Len(done)),
                 ![site.in].locals = @ \cup {x \o <<"fn", ToString(n)>> : x \in P[r.f].locals}]
InlinableFns(P, targets, n) ==
    SelectSeq(FnSites(P, targets), LAMBDA site :
        LET r == FnRef(P, site, targets) IN Expressible(P[r.f], r.args, FnFragment(P, site, targets, n)))

\* e with the reference replaced by the result.
ReplaceRef(e, ref, x) ==
    CASE e = ref -> Var(x)
      [] e.op = "not" -> Not(ReplaceRef(e.a, ref, x))
      [] e.op \in Binary -> [e EXCEPT !.a = ReplaceRef(@, ref, x), !.b = ReplaceRef(@, ref, x)]
      [] OTHER -> e

-----------------------------------------------------------------------------
(* run_fparser_transformations.                                            *)

Init ==
    /\ \E p \in Programs : ast = p.procs /\ source = p
    /\ flags = [f \in DOMAIN ast |-> {}]
    /\ inlined = 0 /\ before = <<>> /\ unfolded = <<>> /\ pc = "associations"

\* A pass over every body.
Pass(from, to, body(_)) ==
    /\ pc = from /\ pc' = to
    /\ ast' = [f \in DOMAIN ast |-> [ast[f] EXCEPT !.body = body(f)]]
    /\ UNCHANGED <<source, flags, inlined, unfolded>>

Associations ==
    Pass("associations", "gotos", LAMBDA f : DeconstructAssociations(ast[f].body)) /\ UNCHANGED before

Jumping == SelectSeq(ProcSeq, LAMBDA f : f \in DOMAIN ast /\ Gotos(ast[f].body) # <<>>)
DeconstructGoto ==
    /\ pc = "gotos" /\ Jumping # <<>>
    /\ LET f == Jumping[1]
           b == ast[f].body
           p == NextGoto(b)
           l == At(b, p).l
       IN IF Supported(b, p)
          THEN /\ ast' = [ast EXCEPT ![f].body = IF Backward(b, p) THEN BackwardGoto(b, p, l \in flags[f])
                                                 ELSE ForwardGoto(b, p, l \in flags[f]),
                                     ![f].locals = @ \cup {GotoVar(l)}]
               /\ flags' = [flags EXCEPT ![f] = @ \cup {l}] /\ UNCHANGED pc
          ELSE pc' = "raised" /\ UNCHANGED <<ast, flags>>
    /\ UNCHANGED <<source, inlined, before, unfolded>>
GotosDone == pc = "gotos" /\ Jumping = <<>> /\ pc' = "calls" /\ UNCHANGED <<ast, source, flags, inlined, before, unfolded>>

Splice(from, to, sites, result) ==
    /\ pc = from
    /\ IF sites = <<>> THEN pc' = to /\ UNCHANGED <<ast, inlined>>
       ELSE ast' = result /\ inlined' = inlined + 1 /\ UNCHANGED pc
    /\ UNCHANGED <<source, flags>>
InlineSubprograms ==
    LET sites == Inlinable(ast, source.targets, inlined)
    IN Splice("calls", "functions", sites, InlineCall(ast, sites[1], inlined)) /\ UNCHANGED <<before, unfolded>>
InlineFunctions ==
    LET sites == InlinableFns(ast, source.targets, inlined)
    IN /\ Splice("functions", "arguments", sites, InlineFn(ast, sites[1], source.targets, inlined))
       /\ before' = ast' /\ unfolded' = IF sites = <<>> THEN ast ELSE <<>>

Arguments ==
    Pass("arguments", "locals", LAMBDA f : IF f = source.entry THEN ast[f].body ELSE ConstantArguments(ast, f)) /\ UNCHANGED before
Locals == Pass("locals", "nodes", LAMBDA f : TrackBody(ast[f].body)) /\ UNCHANGED before
Nodes == Pass("nodes", "branches", LAMBDA f : ConstEvalNodes(ast[f].body)) /\ UNCHANGED before
Branches == Pass("branches", "settle", LAMBDA f : PruneBranches(ast[f].body)) /\ UNCHANGED before
Settle ==
    /\ pc = "settle" /\ before' = ast
    /\ pc' = (IF ast = before THEN "done" ELSE "arguments")
    /\ UNCHANGED <<ast, source, flags, inlined, unfolded>>

Next ==
    \/ Associations \/ DeconstructGoto \/ GotosDone \/ InlineSubprograms \/ InlineFunctions
    \/ Arguments \/ Locals \/ Nodes \/ Branches \/ Settle
Behaviour == Init /\ [][Next]_vars

-----------------------------------------------------------------------------

RECURSIVE WeightE(_), WeightB(_)
Sum(f) == FoldFunctionOnSet(LAMBDA a, b : a + b, 0, f, DOMAIN f)
WeightE(e) ==
    CASE Literal(e) -> 0
      [] e.op \in {"var", "present"} -> 1
      [] e.op = "not" -> 1 + WeightE(e.a)
      [] e.op \in Binary -> 1 + WeightE(e.a) + WeightE(e.b)
      [] e.op = "fn" -> 1 + Sum([i \in DOMAIN e.args |-> WeightE(e.args[i].e)])
WeightB(b) == Sum([i \in DOMAIN b |-> 1 + Sum([e \in Exprs(b[i]) |-> WeightE(e)]) + WeightB(Kids(b[i]))])

Folding == pc \in {"arguments", "locals", "nodes", "branches"}
Smaller == \A f \in DOMAIN ast : ast'[f].body = ast[f].body \/ WeightB(ast'[f].body) < WeightB(ast[f].body)

\* A pass of the folding loop that changes the text makes it smaller, counting the statements, the operators and the
\* names (arguments, locals, nodes, branches), so the loop of run_fparser_transformations ends.
FoldingShrinks == [][Folding => Smaller]_vars

\* A call that stays a call tells the tracker nothing of a variable passed by its name, although "we assume that all
\* arguments are writable" (analysis.py:1719, 1727-1735): what was known of it is still put in behind a call that writes
\* it, and by _inject_knowns (1484-1486) in place of an argument with a keyword.  In such a text some procedure passes a
\* variable to a dummy that is written, and sets it to more than an update of itself.
Written(P, c) ==
    LET ds == P[c.f].dummies
    IN UNION {{e.x : e \in {a \in ToSet(Actual(ds, c.args, i)) : a.op = "var"}} : i \in {j \in DOMAIN ds : ds[j].out}}
KnownWritten(P) ==
    \E f \in DOMAIN P : \E c, s \in All(P[f].body) :
        c.k = "call" /\ s.k = "set" /\ s.x \in Written(P, c) /\ ~Mentions(s.e, s.x)

\* Whatever the entry point is called with, its arguments end with the values the sources give them, after every pass
\* (the substitution of ASSOCIATE, the flags and loops in place of GOTOs, the splices, the folds together).  A text that
\* the folds get with a call of the kind above is followed up to there.
SameMeaning ==
    ~KnownWritten(unfolded) =>
        \A input \in Inputs(source) : Meaning(ast, source.entry, input) = Meaning(source.procs, source.entry, input)
=============================================================================
