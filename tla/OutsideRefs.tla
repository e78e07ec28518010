----------------------------- MODULE OutsideRefs -----------------------------
(***************************************************************************)
(* Which module variables of a program nothing outside one routine's calls *)
(* observes (outside_refs.py), and what make_substitute.py does with them  *)
(* (auto_scratch.py): a scratch variable is a transient of the substitute, *)
(* so that its storage is no longer written; a kept one lives in the       *)
(* binding's buffer from the first call on.  Both are judged from the      *)
(* sources; here the program then runs.                                    *)
(*                                                                         *)
(* A scope is a module, a procedure or the program; its statements are     *)
(* records: what is assigned or pointed (to), pointed to (of), read        *)
(* outside inquiries, inquired about (asks), read by a one-line IF in      *)
(* front (cond), called (f, args; bound: as a type-bound procedure).       *)
(***************************************************************************)
EXTENDS Integers, Sequences, FiniteSets, TLC

LOCAL INSTANCE SequencesExt
LOCAL INSTANCE FiniteSetsExt

CONSTANTS Programs,     \* [scopes, interfaces, types, routine, external, candidates, guards]
          MaxEntries    \* bound on the calls from C

VARIABLES code,         \* the sources
          scratch,      \* the variables judged scratch
          kept,         \* those judged to be the routine's alone
          stage,        \* "sources" or "run"
          stack,        \* the active procedures: [s: scope, pc, local: name -> <<"cell", c>> or <<"proc", p>>]
          store,        \* the storage every module variable stands for
          lost,         \* storage the substitute did not write although the routine would have
          known,        \* storage C code has the address of
          called,       \* whether the routine has been called
          entries
vars == <<code, scratch, kept, stage, stack, store, lost, known, called, entries>>

Blank == [k |-> "other", to |-> "", of |-> "", reads |-> {}, asks |-> {}, cond |-> {}, f |-> "", args |-> <<>>, bound |-> FALSE]
Mod(x) == code.scopes[x].kind = "module"
Modules == {s \in DOMAIN code.scopes : Mod(s)}
Procedures == DOMAIN code.scopes \ Modules
Scope(s) == code.scopes[s]

-----------------------------------------------------------------------------
(* _parse_file: a declaration under a preprocessor condition or in a BLOCK *)
(* shadows nothing; interfaces and types say who can be called how.        *)

Declared(s) == {d.n : d \in {e \in Scope(s).decls : ~e.guarded}} \cup ToSet(Scope(s).dummies)
GuardedDeclared(s) == {d.n : d \in {e \in Scope(s).decls : e.guarded}}
Generics(x) == UNION {i.specifics : i \in {j \in code.interfaces : j.name = x /\ ~j.operator}}
Bindings(x) == {t.impl : t \in {u \in code.types : u.binding = x}}
BoundNames == {t.impl : t \in code.types} \cup UNION {i.specifics : i \in {j \in code.interfaces : j.operator}}
Tokens(st) == (({st.to, st.of} \cup (IF st.bound THEN {} ELSE {st.f}) \cup ToSet(st.args)) \ {""}) \cup st.reads \cup st.asks \cup st.cond
Statements(s) == ToSet(Scope(s).stmts)

-----------------------------------------------------------------------------
(* Resolver.  A use has a module and names, local to remote: only those,   *)
(* or renames.  A key is a variable: <<module, name>>.                     *)

LocalNames(u, exported) ==
    (IF u.only THEN {} ELSE exported) \cup {l \in DOMAIN u.names : u.names[l] \in exported}
RECURSIVE Exported(_, _)
Exported(m, key) ==
    (IF m = key[1] THEN {key[2]} ELSE {}) \cup
    (IF m \in Modules THEN UNION {LocalNames(u, Exported(u.m, key)) : u \in Scope(m).uses} ELSE {})
HostOf(s) == Scope(s).host
RECURSIVE Hosts(_)
Hosts(s) == IF s = "" THEN <<>> ELSE <<s>> \o Hosts(HostOf(s))
Brings(s, name, key) == (s = key[1] /\ name = key[2]) \/ \E u \in Scope(s).uses : name \in LocalNames(u, Exported(u.m, key))
\* The first scope outwards that brings or declares the name decides.
Denotes(s, name, key) ==
    \E i \in DOMAIN Hosts(s) : /\ Brings(Hosts(s)[i], name, key)
                               /\ \A j \in 1 .. i - 1 : name \notin Declared(Hosts(s)[j])
NamesIn(s, key) ==
    {x \in UNION {(IF h = key[1] THEN {key[2]} ELSE {}) \cup UNION {LocalNames(u, Exported(u.m, key)) : u \in Scope(h).uses} : h \in ToSet(Hosts(s))} :
        Denotes(s, x, key)}

\* The variable a name denotes; <<>> for none.
RECURSIVE DefiningModule(_, _)
Remote(u, x) == IF x \in DOMAIN u.names THEN <<u.names[x]>> ELSE IF u.only THEN <<>> ELSE <<x>>
ThroughUses(s, x) ==
    {k \in {IF Remote(u, x) = <<>> THEN <<>> ELSE DefiningModule(u.m, Remote(u, x)[1]) : u \in Scope(s).uses} : k # <<>>}
AnyOf(S) == IF S = {} THEN <<>> ELSE CHOOSE x \in S : TRUE
DefiningModule(m, x) ==
    IF m \notin Modules THEN <<>>
    ELSE IF x \in Declared(m) \cup GuardedDeclared(m) THEN <<m, x>>
    ELSE AnyOf(ThroughUses(m, x))
RECURSIVE ModuleKey(_, _)
ModuleKey(s, x) ==
    CASE s = "" \/ x = "" -> <<>>
      [] s \notin Modules /\ x \in Declared(s) -> <<>>
      [] s \in Modules /\ x \in Declared(s) \cup GuardedDeclared(s) -> <<s, x>>
      [] OTHER -> IF ThroughUses(s, x) # {} THEN AnyOf(ThroughUses(s, x)) ELSE ModuleKey(HostOf(s), x)

-----------------------------------------------------------------------------
(* The procedures that only run inside the routine's calls.                *)

ByName(names) == {p \in Procedures : Scope(p).name \in names}
Callees(p) ==
    UNION {ByName(Tokens(st) \cup UNION {Generics(x) : x \in Tokens(st)}
                  \cup (IF st.bound THEN Bindings(st.f) ELSE {})) : st \in Statements(p)}
\* Named, but not called: a procedure handed around.
AddressTaken == UNION {UNION {(ToSet(st.args) \cup {st.to, st.of} \cup st.reads) : st \in {t \in Statements(p) : t.k # "names"}} : p \in Procedures}
RECURSIVE Reached(_)
Reached(S) == LET T == S \cup UNION {Callees(p) : p \in S} IN IF T = S THEN S ELSE Reached(T)
MayRunOutside(p, inside) ==
    \/ Scope(p).kind = "program" \/ Scope(p).bindc
    \/ Scope(p).name \in BoundNames \cup AddressTaken \cup code.external
    \/ \E q \in Procedures \ inside : p \in Callees(q)
RECURSIVE Settled(_)
Settled(inside) ==
    LET out == {p \in inside \ {code.routine} : MayRunOutside(p, inside)} IN IF out = {} THEN inside ELSE Settled(inside \ out)
ExclusiveProcedures == Settled(Reached({code.routine}))

-----------------------------------------------------------------------------
(* classify: how a statement uses a variable known under these names;      *)
(* pairs of a kind and, for an alias, the name on the other side.          *)

ClassifyUnguarded(st, names) ==
    CASE st.k = "names" -> {}
      [] st.k = "share" -> {<<"shared", "">>}
      [] st.k = "alloc" -> IF st.reads \cap names # {} THEN {<<"read", "">>} ELSE {}
      [] st.k = "point" -> (IF st.to \in names THEN {<<"alias", st.of>>} ELSE {}) \cup (IF st.of \in names THEN {<<"alias", st.to>>} ELSE {})
                           \cup (IF st.reads \cap names # {} THEN {<<"read", "">>} ELSE {})
      [] st.k = "set" -> (IF st.reads \cap names # {} THEN {<<"read", "">>} ELSE {}) \cup (IF st.to \in names THEN {<<"write", "">>} ELSE {})
      [] st.k = "address" -> {<<"address", "">>, <<"read", "">>}
      [] OTHER -> IF (st.reads \cup ToSet(st.args)) \cap names # {} THEN {<<"read", "">>} ELSE {}
Classify(st, names) ==
    IF Tokens(st) \cap names = {} THEN {}
    ELSE (IF st.cond \cap names # {} THEN {<<"read", "">>} ELSE {})
         \cup (IF (Tokens(st) \ st.cond) \cap names = {} THEN {} ELSE ClassifyUnguarded(st, names))

\* Procedures that may leave a pointer to an argument behind.
Escapes(p) == \E st \in Statements(p) : \/ st.k = "point" /\ st.of \in ToSet(Scope(p).dummies)
                                        \/ st.k = "address" /\ st.reads \cap ToSet(Scope(p).dummies) # {}
PassesOn(p, names) == \E st \in Statements(p) : Tokens(st) \cap ToSet(Scope(p).dummies) # {} /\ Tokens(st) \cap (names \ {Scope(p).name}) # {}
RECURSIVE Escaping(_)
Escaping(names) ==
    LET more == names \cup {Scope(p).name : p \in {q \in Procedures : PassesOn(q, names)}} IN IF more = names THEN names ELSE Escaping(more)
EscapingProcedures == Escaping({Scope(p).name : p \in {q \in Procedures : Escapes(q)}})

\* What one statement of s says about the key: "reason", "write", or an alias <<module, name>>.
Found(s, st, names, key, inside, escaping) ==
    (IF Tokens(st) \cap escaping # {} /\ Tokens(st) \cap names # {} THEN {<<"reason">>} ELSE {}) \cup
    UNION {CASE c[1] = "write" -> IF s \notin inside /\ ~Mod(s) THEN {<<"write">>} ELSE {}
             [] c[1] = "read" -> IF s \in inside \/ (Mod(s) /\ st.k # "namelist") THEN {} ELSE {<<"reason">>}
             [] c[1] = "alias" -> IF ModuleKey(s, c[2]) = <<>> THEN {<<"reason">>} ELSE {ModuleKey(s, c[2])} \ {key}
             [] OTHER -> {<<"reason">>} : c \in Classify(st, names)}
Verdict(key, inside, escaping) ==
    UNION {IF NamesIn(s, key) = {} THEN {} ELSE UNION {Found(s, st, NamesIn(s, key), key, inside, escaping) : st \in Statements(s)} : s \in DOMAIN code.scopes}
OutsideReaders(inside, escaping) == [key \in code.candidates |-> Verdict(key, inside, escaping)]
Aliases(v) == {x \in v : Len(x) = 2}

\* An alias that is no candidate, or is rejected, rejects.
CloseNoGroups(verdicts, ok) == ok
RECURSIVE CloseAliasGroups(_, _)
CloseAliasGroups(verdicts, ok) ==
    LET fine == {k \in ok : Aliases(verdicts[k]) \subseteq ok} IN IF fine = ok THEN ok ELSE CloseAliasGroups(verdicts, fine)

\* With variables only written outside, or aliased, kept too.
JudgedByReaders(verdicts) ==
    /\ scratch' = CloseAliasGroups(verdicts, {k \in code.candidates : <<"reason">> \notin verdicts[k]})
    /\ kept' = {k \in code.candidates : <<"reason">> \notin verdicts[k]}
\* auto_scratch.py: infer, given that every read in the routine finds what the call wrote; and infer_kept.
Judged(verdicts) ==
    /\ scratch' = CloseAliasGroups(verdicts, {k \in code.candidates : <<"reason">> \notin verdicts[k]})
    /\ kept' = {k \in code.candidates : verdicts[k] = {}}
Infer ==
    /\ stage = "sources"
    /\ Judged(OutsideReaders(ExclusiveProcedures, EscapingProcedures))
    /\ stage' = "run"
    /\ UNCHANGED <<code, stack, store, lost, known, called, entries>>

-----------------------------------------------------------------------------
(* The program runs, the substitute in place of the routine.               *)

Compiled(s) == Declared(s) \cup (IF code.guards THEN GuardedDeclared(s) ELSE {})
\* The variable a compiler takes x in s for; <<>> for a local one.
RECURSIVE Variable(_, _)
Used(u, x) == IF x \in DOMAIN u.names THEN Variable(u.m, u.names[x])
              ELSE IF u.only \/ \E l \in DOMAIN u.names : u.names[l] = x THEN <<>> ELSE Variable(u.m, x)
Variable(s, x) ==
    LET used == {Used(u, x) : u \in Scope(s).uses} \ {<<>>}
    IN CASE x \in Compiled(s) -> IF Mod(s) THEN <<s, x>> ELSE <<>>
         [] used # {} -> AnyOf(used)
         [] OTHER -> IF HostOf(s) = "" THEN <<>> ELSE Variable(HostOf(s), x)

Top == stack[Len(stack)]
Here == Scope(Top.s).stmts[Top.pc]
Running == stack # <<>> /\ Top.pc <= Len(Scope(Top.s).stmts)
Bind(fr, x) ==
    CASE x \in DOMAIN fr.local -> fr.local[x]
      [] ByName({x}) # {} -> <<"proc", CHOOSE p \in ByName({x}) : TRUE>>
      [] Variable(fr.s, x) # <<>> -> <<"cell", store[Variable(fr.s, x)]>>
      [] OTHER -> <<"cell", <<fr.s, x>>>>
CellsOf(fr, names) == {Bind(fr, x)[2] : x \in {y \in names : Bind(fr, y)[1] = "cell"}}
NamelistOf(m) == UNION {st.reads : st \in {t \in Statements(m) : t.k = "namelist"}}
ReadCells ==
    CellsOf(Top, Here.cond \cup (IF Here.k \in {"address", "names"} THEN {} ELSE Here.reads))
    \cup (IF Here.k = "nml" THEN CellsOf([s |-> Here.of, local |-> <<>>], NamelistOf(Here.of)) ELSE {})
WrittenCells == IF Here.k = "set" THEN CellsOf(Top, {Here.to}) ELSE {}
\* In a call of the routine, and not in a procedure the substitute leaves as it is.
Inside == \E i \in DOMAIN stack : stack[i].s = code.routine /\ \A j \in i + 1 .. Len(stack) : Scope(stack[j].s).name \notin code.external
CellsStandingFor(keys) == {store[k] : k \in keys}

Past == [stack EXCEPT ![Len(stack)].pc = @ + 1]
\* The program starts, or C code calls a BIND(C) procedure.
Start ==
    /\ stage = "run" /\ stack = <<>> /\ entries <= MaxEntries
    /\ \E p \in Procedures :
           /\ IF entries = 0 THEN Scope(p).kind = "program" ELSE Scope(p).bindc
           /\ stack' = <<[s |-> p, pc |-> 1, local |-> <<>>]>>
    /\ entries' = entries + 1
    /\ UNCHANGED <<code, scratch, kept, stage, store, lost, known, called>>
Return ==
    /\ stack # <<>> /\ ~Running
    /\ stack' = Front(stack)
    /\ UNCHANGED <<code, scratch, kept, stage, store, lost, known, called, entries>>
\* Statements that only read or inquire, and what a one-line IF leaves out.
Pass ==
    /\ Running
    /\ Here.k \notin {"set", "point", "call", "address"} \/ Here.cond # {}
    /\ stack' = Past
    /\ UNCHANGED <<code, scratch, kept, stage, store, lost, known, called, entries>>
Assign ==
    /\ Running /\ Here.k = "set"
    /\ lost' = (lost \ WrittenCells) \cup (IF Inside THEN WrittenCells \cap CellsStandingFor(scratch) ELSE {})
    /\ stack' = Past
    /\ UNCHANGED <<code, scratch, kept, stage, store, known, called, entries>>
Associate ==
    /\ Running /\ Here.k = "point"
    /\ LET key == Variable(Top.s, Here.to)
       IN IF Here.to \notin DOMAIN Top.local /\ key # <<>>
          THEN store' = [store EXCEPT ![key] = Bind(Top, Here.of)[2]] /\ stack' = Past
          ELSE stack' = [Past EXCEPT ![Len(stack)].local = (Here.to :> Bind(Top, Here.of)) @@ @] /\ UNCHANGED store
    /\ UNCHANGED <<code, scratch, kept, stage, lost, known, called, entries>>
TakeAddress ==
    /\ Running /\ Here.k = "address"
    /\ known' = known \cup CellsOf(Top, Here.reads)
    /\ stack' = Past
    /\ UNCHANGED <<code, scratch, kept, stage, store, lost, called, entries>>
\* What the substitute hands to a procedure it leaves as it is are its own containers.
Handed(p, x) == IF Inside /\ Scope(p).name \in code.external /\ Bind(Top, x)[1] = "cell" THEN <<"cell", <<"sdfg", x>>>> ELSE Bind(Top, x)
Targets ==
    IF Here.bound THEN ByName(Bindings(Here.f))
    ELSE IF Here.f \in DOMAIN Top.local THEN {Top.local[Here.f][2]}
    ELSE ByName({Here.f} \cup Generics(Here.f))
Call ==
    /\ Running /\ Here.k = "call"
    /\ \E p \in Targets :
           /\ stack' = Append(Past, [s |-> p, pc |-> 1,
                                     local |-> [d \in {Scope(p).dummies[i] : i \in DOMAIN Scope(p).dummies} |->
                                                   Handed(p, Here.args[CHOOSE i \in DOMAIN Scope(p).dummies : Scope(p).dummies[i] = d])]])
           /\ called' = (called \/ p = code.routine)
    /\ UNCHANGED <<code, scratch, kept, stage, store, lost, known, entries>>

\* EQUIVALENCE and COMMON: the first name's storage.
Shared(m, x) == {st.to : st \in {t \in Statements(m) : t.k = "share" /\ t.of = x}}
Init ==
    /\ code \in Programs
    /\ store = [key \in UNION {{m} \X Declared(m) : m \in Modules} |->
                   IF Shared(key[1], key[2]) = {} THEN key ELSE <<key[1], CHOOSE x \in Shared(key[1], key[2]) : TRUE>>]
    /\ stage = "sources" /\ stack = <<>> /\ entries = 0 /\ called = FALSE
    /\ scratch = {} /\ kept = {} /\ lost = {} /\ known = {}
Next == Infer \/ Start \/ Return \/ Pass \/ Assign \/ Associate \/ TakeAddress \/ Call
Spec == Init /\ [][Next]_vars

-----------------------------------------------------------------------------
\* What a call leaves in a scratch variable is never looked at: no statement outside the routine's calls reads storage
\* a call wrote only into the substitute's transient, under whatever name, nor does C code through an address.
ScratchUnobserved == stack # <<>> /\ ~Inside => (known \cup (IF Running THEN ReadCells ELSE {})) \cap lost = {}

\* Once the binding keeps a variable in a buffer of its own, no statement outside the routine's calls reads or writes
\* the storage it stands for.
KeptUntouched == Running /\ ~Inside /\ called => (known \cup ReadCells \cup WrittenCells) \cap CellsStandingFor(kept) = {}
=============================================================================
