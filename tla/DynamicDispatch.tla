-------------------------- MODULE DynamicDispatch --------------------------
(***************************************************************************)
(* Fortran programs with type-bound procedures: what they do, and whether  *)
(* a compiler takes them.                                                  *)
(*                                                                         *)
(* A program is a record                                                   *)
(*   mods    the modules in the order of the text, [name, uses];           *)
(*   types   the derived types in the order of the text, [name, mod,       *)
(*           parent, abstract, deferred, over, plain, generic, comps]:     *)
(*           over maps a binding to its procedure (PROCEDURE :: b => p),   *)
(*           plain has those written without "=>", generic maps a generic  *)
(*           name to its specific bindings;                                *)
(*   vars    the variables of modules, declarations with a field mod;      *)
(*   subs    the procedures, [name, mod, uses, dummies, decls, body];      *)
(*   err     whether a pass raised an exception.                           *)
(* A declaration is [names, kind, type, attr]; a USE is [mod, only], with  *)
(* only = {} for a USE of everything.  Names of variables, components and  *)
(* procedures are sequences of strings, x__tag is <<"x", "tag">>.          *)
(* References are sequences of names: a%b%c is <<a, b, c>>.                *)
(***************************************************************************)
EXTENDS Integers, Sequences, FiniteSets, TLC

LOCAL INSTANCE SequencesExt
LOCAL INSTANCE Functions

Undefined == -99        \* a variable nobody has set
NullCall == -1          \* traced for a dispatch on a pointer that points to nothing
None == "none"

Num(n) == [n |-> n, p |-> <<>>]
Ref(p) == [n |-> 0, p |-> p]
Allocate(t, refs) == [k |-> "alloc", t |-> t, refs |-> refs]
CallProc(f, args) == [k |-> "call", obj |-> <<>>, f |-> f, args |-> args]
CallBound(obj, b, args) == [k |-> "call", obj |-> obj, f |-> <<b>>, args |-> args]
Out(e) == CallProc(<<"out">>, <<e>>)
Assign(to, e) == [k |-> "set", to |-> to, e |-> e]
Associate(to, from) == [k |-> "ptr", to |-> to, from |-> from]
Branch(c, b) == [c |-> c, b |-> b]
IfThen(branches) == [k |-> "if", line |-> FALSE, branches |-> branches]
IfLine(c, s) == [k |-> "if", line |-> TRUE, branches |-> <<Branch(c, <<s>>)>>]
Select(x, as, guards) == [k |-> "sel", x |-> x, as |-> as, branches |-> guards]
Guard(g, t, b) == [g |-> g, t |-> t, b |-> b]
Allocated(p) == [c |-> "allocated", p |-> p, n |-> 0]
Eq(p, n) == [c |-> "eq", p |-> p, n |-> n]
Ne(p, n) == [c |-> "ne", p |-> p, n |-> n]

\* The statements of a body and of the constructs in it, in the order of the text.
RECURSIVE Statements(_)
Statements(b) ==
    FlattenSeq([i \in DOMAIN b |-> <<b[i]>> \o
        (IF b[i].k \in {"if", "sel"} THEN FlattenSeq([j \in DOMAIN b[i].branches |-> Statements(b[i].branches[j].b)]) ELSE <<>>)])
StatementSet(b) == Range(Statements(b))
\* b with the statements of r's domain replaced, none of them looked into again.
RECURSIVE Rewrite(_, _)
Rewrite(b, r) ==
    FlattenSeq([i \in DOMAIN b |->
        IF b[i] \in DOMAIN r THEN r[b[i]]
        ELSE IF b[i].k \in {"if", "sel"} THEN <<[b[i] EXCEPT !.branches = [j \in DOMAIN @ |-> [@[j] EXCEPT !.b = Rewrite(@, r)]]]>>
        ELSE <<b[i]>>])

-----------------------------------------------------------------------------
(* Types, declarations and what names mean.                                *)

TypeNames(P) == {P.types[i].name : i \in DOMAIN P.types}
TypeOf(P, t) == P.types[CHOOSE i \in DOMAIN P.types : P.types[i].name = t]
SubNames(P) == {P.subs[i].name : i \in DOMAIN P.subs}
SubOf(P, f) == P.subs[CHOOSE i \in DOMAIN P.subs : P.subs[i].name = f]

RECURSIVE Lineage(_, _), AllComps(_, _)
\* t and what it extends, nearest first.
Lineage(P, t) == IF t \in TypeNames(P) THEN <<t>> \o Lineage(P, TypeOf(P, t).parent) ELSE <<>>
Extends(P, t, u) == u \in Range(Lineage(P, t))
AllComps(P, t) == IF t \in TypeNames(P) THEN AllComps(P, TypeOf(P, t).parent) \o TypeOf(P, t).comps ELSE <<>>

NoDecl == [names |-> <<>>, kind |-> None, type |-> None, attr |-> ""]
DeclIn(decls, x) == IF \E i \in DOMAIN decls : x \in Range(decls[i].names)
                    THEN SelectSeq(decls, LAMBDA d : x \in Range(d.names))[1] ELSE NoDecl
\* A name of procedure s: its own, then its module's.
EntityDecl(P, s, x) ==
    LET own == DeclIn(s.decls, x)
    IN IF own # NoDecl THEN own ELSE DeclIn(SelectSeq(P.vars, LAMBDA v : v.mod = s.mod), x)
PathDecl(P, s, p) == FoldLeft(LAMBDA d, c : DeclIn(AllComps(P, d.type), c), EntityDecl(P, s, p[1]), Tail(p))

Targets(T) == [b \in DOMAIN T.over \cup T.plain |-> IF b \in T.plain THEN <<b>> ELSE T.over[b]]
Generics(P, t, b) == UNION {TypeOf(P, u).generic[b] : u \in {v \in Range(Lineage(P, t)) : b \in DOMAIN TypeOf(P, v).generic}}
Specific(P, t, b) == IF Generics(P, t, b) # {} THEN CHOOSE c \in Generics(P, t, b) : TRUE ELSE b
\* The procedure that runs for binding b of an object of dynamic type t.
Bound(P, t, b) ==
    LET c == Specific(P, t, b)
        has == SelectSeq(Lineage(P, t), LAMBDA u : c \in DOMAIN Targets(TypeOf(P, u)))
    IN IF has = <<>> THEN <<None>> ELSE Targets(TypeOf(P, has[1]))[c]

-----------------------------------------------------------------------------
(* Execution.  A machine has e, the values of the names in the procedure   *)
(* that runs, h, the objects made so far, [t, f: component -> value], and  *)
(* tr, what was printed.  Objects are numbered, 0 is no object.            *)

RECURSIVE NewObject(_, _, _), NewObjects(_, _, _, _)
NewObjects(P, decls, f, h) ==
    FoldLeft(LAMBDA a, d : FoldLeft(LAMBDA c, x :
                IF d.kind = "TYPE" /\ d.attr = ""
                THEN LET o == NewObject(P, d.type, c.h) IN [h |-> o.h, f |-> (x :> o.id) @@ c.f]
                ELSE [c EXCEPT !.f = (x :> IF d.attr = "undefined" THEN Undefined ELSE 0) @@ @], a, d.names),
             [h |-> h, f |-> f], decls)
NewObject(P, t, h) ==
    LET n == NewObjects(P, AllComps(P, t), <<>>, h)
    IN [id |-> Len(n.h) + 1, h |-> Append(n.h, [t |-> t, f |-> n.f])]

Value(m, p) == FoldLeft(LAMBDA o, c : IF o \in DOMAIN m.h /\ c \in DOMAIN m.h[o].f THEN m.h[o].f[c] ELSE Undefined, m.e[p[1]], Tail(p))
ValueOf(m, e) == IF e.p = <<>> THEN e.n ELSE Value(m, e.p)
Store(m, p, v) == IF Len(p) = 1 THEN [m EXCEPT !.e[p[1]] = v]
                  ELSE LET o == Value(m, Front(p)) IN IF o \in DOMAIN m.h THEN [m EXCEPT !.h[o].f[Last(p)] = v] ELSE [m EXCEPT !.tr = Append(@, NullCall)]
Holds(m, c) == LET v == Value(m, c.p) IN CASE c.c = "eq" -> v = c.n [] c.c = "ne" -> v # c.n [] OTHER -> v # 0

\* The branch a SELECT TYPE of an object of type t takes: the exact type, else the nearest CLASS IS, else the default.
TypeBranch(P, guards, t) ==
    LET has(g, u) == {i \in DOMAIN guards : guards[i].g = g /\ guards[i].t = u}
        near == SelectSeq(Lineage(P, t), LAMBDA u : has("CLASS IS", u) # {})
        all == IF has("TYPE IS", t) # {} THEN has("TYPE IS", t) ELSE IF near # <<>> THEN has("CLASS IS", near[1]) ELSE has("CLASS DEFAULT", "")
    IN IF all = {} THEN <<>> ELSE guards[CHOOSE i \in all : TRUE].b

RECURSIVE Exec(_, _, _, _), Step(_, _, _, _)
Enter(P, f, values, m) ==
    LET s == SubOf(P, f)
        n == NewObjects(P, SelectSeq(s.decls, LAMBDA d : ~(\E i \in DOMAIN d.names : d.names[i] \in Range(s.dummies))), m.g, m.h)
        r == Exec(P, s, s.body, [m EXCEPT !.h = n.h, !.e = [x \in Range(s.dummies) |-> values[CHOOSE i \in DOMAIN s.dummies : s.dummies[i] = x]] @@ n.f])
    IN [m EXCEPT !.h = r.h, !.tr = r.tr]
Exec(P, s, b, m) == FoldLeft(LAMBDA n, st : Step(P, s, st, n), m, b)
Step(P, s, st, m) ==
    CASE st.k = "alloc" -> FoldLeft(LAMBDA n, p : LET o == NewObject(P, IF st.t = "" THEN PathDecl(P, s, p).type ELSE st.t, n.h)
                                                  IN Store([n EXCEPT !.h = o.h], p, o.id), m, st.refs)
      [] st.k = "set" -> Store(m, st.to, ValueOf(m, st.e))
      [] st.k = "ptr" -> Store(m, st.to, Value(m, st.from))
      [] st.k = "if" -> LET t == {i \in DOMAIN st.branches : Holds(m, st.branches[i].c)}
                        IN IF t = {} THEN m ELSE Exec(P, s, st.branches[CHOOSE i \in t : \A j \in t : i <= j].b, m)
      [] st.k = "sel" -> LET o == m.e[st.x] IN [Exec(P, s, TypeBranch(P, st.branches, m.h[o].t), [m EXCEPT !.e = (st.as :> o) @@ @]) EXCEPT !.e = m.e]
      [] OTHER -> LET values == [i \in DOMAIN st.args |-> ValueOf(m, st.args[i])]
                      o == Value(m, st.obj)
                  IN IF st.obj = <<>> THEN IF st.f = <<"out">> THEN [m EXCEPT !.tr = @ \o values] ELSE Enter(P, st.f, values, m)
                     ELSE IF o \in DOMAIN m.h THEN Enter(P, Bound(P, m.h[o].t, st.f[1]), <<o>> \o values, m)
                     ELSE [m EXCEPT !.tr = Append(@, NullCall)]
\* The run of a program: its procedure main.
Run(P) == LET n == NewObjects(P, P.vars, <<>>, <<>>)
          IN Enter(P, <<"main">>, <<>>, [e |-> <<>>, g |-> n.f, h |-> n.h, tr |-> <<>>])

-----------------------------------------------------------------------------
(* What the compiler asks for.                                             *)

Owned(P, m) == {<<P.types[i].name>> : i \in {j \in DOMAIN P.types : P.types[j].mod = m}}
               \cup {P.subs[i].name : i \in {j \in DOMAIN P.subs : P.subs[j].mod = m}}
ModuleUses(P, m) == UNION {P.mods[i].uses : i \in {j \in DOMAIN P.mods : P.mods[j].name = m}}
Imported(P, uses) == UNION {IF u.only = {} THEN Owned(P, u.mod) ELSE u.only : u \in uses}
Visible(P, m, uses) == Owned(P, m) \cup Imported(P, ModuleUses(P, m) \cup uses)
AllUses(P, m) == ModuleUses(P, m) \cup UNION {P.subs[i].uses : i \in {j \in DOMAIN P.subs : P.subs[j].mod = m}}
\* No module uses itself or one that the text defines later, and what is imported exists.
UsesInOrder(P) ==
    \A i \in DOMAIN P.mods : \A u \in AllUses(P, P.mods[i].name) :
        /\ \E j \in 1 .. i - 1 : P.mods[j].name = u.mod
        /\ u.only \subseteq Owned(P, u.mod)
\* A type follows the types of its module that it extends or contains, and sees those of others.
TypesInOrder(P) ==
    \A i \in DOMAIN P.types :
        LET T == P.types[i]
            needs == {T.parent} \cup {T.comps[j].type : j \in {k \in DOMAIN T.comps : T.comps[k].kind # "INT" /\ T.comps[k].attr # "pointer"}}
        IN \A t \in needs \ {"", "*"} :
              \/ \E j \in 1 .. i - 1 : P.types[j].name = t /\ P.types[j].mod = T.mod
              \/ t \in TypeNames(P) /\ TypeOf(P, t).mod # T.mod /\ <<t>> \in Visible(P, T.mod, {})

Conforms(P, actual, dummy) ==
    /\ actual # NoDecl
    /\ CASE dummy.kind = "CLASS" -> Extends(P, actual.type, dummy.type)
         [] dummy.kind = "TYPE" -> actual.type = dummy.type
         [] OTHER -> actual.kind = "INT"
ArgConforms(P, s, e, dummy) == IF e.p = <<>> THEN dummy.kind = "INT" ELSE Conforms(P, PathDecl(P, s, e.p), dummy)
ArgsConform(P, s, args, f) ==
    LET c == SubOf(P, f)
    IN Len(args) = Len(c.dummies) /\ \A i \in DOMAIN args : ArgConforms(P, s, args[i], EntityDecl(P, c, c.dummies[i]))
BindsStatically(P, s, st) == PathDecl(P, s, st.obj).kind = "TYPE"

RECURSIVE BodyCompiles(_, _, _)
StmtCompiles(P, s, st) ==
    CASE st.k = "alloc" -> \A i \in DOMAIN st.refs : LET d == PathDecl(P, s, st.refs[i])
                                                     IN d.attr \in {"allocatable", "pointer"} /\ (IF st.t = "" THEN d.kind = "TYPE" ELSE Extends(P, st.t, d.type))
      [] st.k = "set" -> PathDecl(P, s, st.to).kind = "INT" /\ (st.e.p # <<>> => PathDecl(P, s, st.e.p).kind = "INT")
      [] st.k = "ptr" -> PathDecl(P, s, st.to).attr = "pointer" /\ Conforms(P, PathDecl(P, s, st.from), PathDecl(P, s, st.to))
      [] st.k = "if" -> \A i \in DOMAIN st.branches :
                            /\ LET d == PathDecl(P, s, st.branches[i].c.p) IN IF st.branches[i].c.c = "allocated" THEN d.attr = "allocatable" ELSE d.kind = "INT"
                            /\ BodyCompiles(P, s, st.branches[i].b)
      [] st.k = "sel" -> /\ EntityDecl(P, s, st.x).kind = "CLASS"
                         /\ \A i \in DOMAIN st.branches :
                               LET g == st.branches[i]
                                   d == [names |-> <<st.as>>, kind |-> IF g.g = "TYPE IS" THEN "TYPE" ELSE "CLASS",
                                         type |-> IF g.t = "" THEN EntityDecl(P, s, st.x).type ELSE g.t, attr |-> ""]
                               IN BodyCompiles(P, [s EXCEPT !.decls = <<d>> \o @], g.b)
      [] OTHER -> IF st.obj = <<>>
                  THEN \/ st.f = <<"out">> /\ ArgConforms(P, s, st.args[1], [NoDecl EXCEPT !.kind = "INT"])
                       \/ st.f \in SubNames(P) /\ st.f \in Visible(P, s.mod, s.uses) /\ ArgsConform(P, s, st.args, st.f)
                  ELSE /\ PathDecl(P, s, st.obj).kind \in {"TYPE", "CLASS"}
                       /\ BindsStatically(P, s, st) =>
                             LET f == Bound(P, PathDecl(P, s, st.obj).type, st.f[1])
                             IN f \in SubNames(P) /\ ArgsConform(P, s, <<Ref(st.obj)>> \o st.args, f)
BodyCompiles(P, s, b) == \A i \in DOMAIN b : StmtCompiles(P, s, b[i])

\* The procedures a procedure calls, those a dispatch may reach included.
Callees(P, s) ==
    UNION {IF st.obj = <<>> THEN {st.f} \cap SubNames(P)
           ELSE {Bound(P, t, st.f[1]) : t \in {u \in TypeNames(P) : Extends(P, u, PathDecl(P, s, st.obj).type)}} \cap SubNames(P) :
           st \in {x \in StatementSet(s.body) : x.k = "call"}}
RECURSIVE ReachedFrom(_, _)
ReachedFrom(P, fs) == LET more == fs \cup UNION {Callees(P, SubOf(P, f)) : f \in fs} IN IF more = fs THEN fs ELSE ReachedFrom(P, more)
Reached(P) == {SubOf(P, f) : f \in ReachedFrom(P, {<<"main">>})}

\* What the extraction keeps of the program, the procedures that can run, is accepted by the compiler.
Compiles(P) ==
    /\ UsesInOrder(P) /\ TypesInOrder(P)
    /\ \A s \in Reached(P) :
          /\ \A i \in DOMAIN s.decls : s.decls[i].kind # "INT" => <<s.decls[i].type>> \in Visible(P, s.mod, s.uses)
          /\ BodyCompiles(P, s, s.body)
\* Dispatches on an object of the classes bs, which the bridge would refuse.
Dispatches(P, bs) == \E s \in Reached(P) : \E st \in StatementSet(s.body) :
                         st.k = "call" /\ st.obj # <<>> /\ PathDecl(P, s, st.obj).kind = "CLASS" /\ PathDecl(P, s, st.obj).type \in bs
=============================================================================
