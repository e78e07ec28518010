---------------------------- MODULE AllocBuffers ----------------------------
(***************************************************************************)
(* One ALLOCATABLE array and the buffers the bridge gives it.              *)
(*                                                                         *)
(* bridge/extract_vars.cpp (groupAllocSites) walks the routine once and    *)
(* partitions its ALLOCATE statements into classes, one transient buffer   *)
(* each.  bridge/ast/dispatch.cpp (buildAST, bindAllocSite) walks it again *)
(* in source order: an ALLOCATE redirects the name to the buffer of its    *)
(* class, and every later use is bound to the buffer the name stands for   *)
(* at that point of the walk.  The symbol <name>_allocated follows the     *)
(* ALLOCATE and DEALLOCATE statements for the intrinsic ALLOCATED.         *)
(*                                                                         *)
(* The routine is written statement by statement, groupAllocSites' step    *)
(* being taken with each, and is then run beside Fortran.  Conditions are  *)
(* opaque: an IF may go either way and a DO may be left after any number   *)
(* of iterations.  A statement that Fortran forbids (a second ALLOCATE, a  *)
(* use of an unallocated array) is not executed: the run ends there.       *)
(* SOURCE= and MOLD= allocation, components and scf.while loops are not    *)
(* modelled.                                                               *)
(***************************************************************************)
EXTENDS Naturals, Sequences, SequencesExt, FiniteSetsExt

CONSTANTS
  MaxLength,  \* longest routine
  MaxRepeats  \* back edges an execution may take

ASSUME AllocAssumption == MaxLength \in Nat /\ MaxRepeats \in Nat

VARIABLES
  prog,    \* the statements; an ALLOCATE site is named by its place in prog
  open,    \* constructs not closed yet, innermost last: the place of the
           \*   IF, ELSE or DO, the reaching set before an IF, the one its
           \*   THEN part ended with
  link,    \* where each IF, ELSE, DO and END DO jumps to
  dropped, \* DEALLOCATEs buildAST leaves out with the IF around them
  reach,   \* groupAllocSites: the sites whose buffer may be current here
  reachAt, \* history: the reaching set in front of each statement
  classes, \* groupAllocSites: the partition of the sites so far
  phase,   \* "source", then "run"
  pos,     \* running: the next statement
  current, \* running, Fortran: the site that allocated the array; 0 if none
  held,    \* running: the site each buffer was last sized by; 0 if none
  flag,    \* running: <name>_allocated
  repeats, \* running: back edges taken
  looped,  \* history: the array was allocated on entry to, or at the end of
           \*   an iteration of, a loop with an ALLOCATE in it
  crossed, \* history: the array was allocated on entry to the ELSE part of
           \*   an IF with an ALLOCATE in both parts
  wrong    \* history: a use was given another buffer than the array's

walkVars == <<prog, open, link, dropped, reach, reachAt, classes>>
runVars == <<pos, current, held, flag, repeats, looped, crossed, wrong>>
vars == <<prog, open, link, dropped, reach, reachAt, classes, phase, pos, current,
          held, flag, repeats, looped, crossed, wrong>>

Here == Len(prog) + 1
Top == Last(open)

(* There is room for n statements and for closing what is open.            *)
Room(n) == phase = "source" /\ Len(prog) + Len(open) + n <= MaxLength

Write(s) == prog' = Append(prog, s) /\ reachAt' = Append(reachAt, reach)

Construct(at, in, out) == [at |-> at, in |-> in, out |-> out]

Jumps(f, from, to) == [p \in DOMAIN f \cup {from} |-> IF p = from THEN to ELSE f[p]]

-----------------------------------------------------------------------------
(* groupAllocSites.                                                        *)

(* Mutant: mergeBranches without its calls of unite.                       *)
UniteNothing(P, S) == P

(* unite: the classes that meet S become one.                              *)
Unite(P, S) ==
  {b \in P : b \cap S = {}} \cup {UNION {b \in P : b \cap S # {}}}

(* mergeBranches: the buffers of two branches are alternatives when both   *)
(* branches leave the array allocated.                                     *)
MergeBranches(then, else) ==
  classes' = IF then = {} \/ else = {} THEN classes
             ELSE Unite(classes, then \cup else)

(* ALLOCATE: a new site replaces whatever was reaching.                    *)
Allocate ==
  /\ Room(1)
  /\ Write("alloc")
  /\ reach' = {Here}
  /\ classes' = classes \cup {{Here}}
  /\ UNCHANGED <<open, link, dropped, phase, runVars>>

(* DEALLOCATE and uses leave the walk as it is.                            *)
Plain(s) ==
  /\ Room(1)
  /\ Write(s)
  /\ UNCHANGED <<open, link, dropped, reach, classes, phase, runVars>>

If ==
  /\ Room(2)
  /\ Write("if")
  /\ open' = Append(open, Construct(Here, reach, {}))
  /\ UNCHANGED <<link, dropped, reach, classes, phase, runVars>>

(* ELSE: the other branch starts from the set before the IF.               *)
Else ==
  /\ Room(2)
  /\ open # <<>> /\ prog[Top.at] = "if"
  /\ Write("else")
  /\ open' = Append(Front(open), Construct(Here, Top.in, reach))
  /\ link' = Jumps(link, Top.at, Here)
  /\ reach' = Top.in
  /\ UNCHANGED <<dropped, classes, phase, runVars>>

(* isAllocCleanup: a region that holds nothing but DEALLOCATE.             *)
Cleanup(from, to) == from + 1 < to /\ \A q \in (from + 1)..(to - 1) : prog[q] = "free"

(* buildAST takes an IF whose branches are cleanups for Flang's deallocate *)
(* guard at the end of a scope and skips it.                               *)
Skipped ==
  IF prog[Top.at] = "if"
  THEN IF Cleanup(Top.at, Here) THEN (Top.at + 1)..Len(prog) ELSE {}
  ELSE LET from == CHOOSE i \in DOMAIN link : link[i] = Top.at
       IN  IF Cleanup(from, Top.at) /\ Cleanup(Top.at, Here)
           THEN ((from + 1)..Len(prog)) \ {Top.at} ELSE {}

(* END IF: without an ELSE the set before the IF is the other branch.  An  *)
(* empty ELSE part is no ELSE part.                                        *)
EndIf ==
  /\ phase = "source"
  /\ open # <<>> /\ prog[Top.at] \in {"if", "else"}
  /\ Last(prog) # "else"
  /\ Write("end")
  /\ LET other == IF prog[Top.at] = "if" THEN Top.in ELSE Top.out
     IN  MergeBranches(reach, other) /\ reach' = reach \cup other
  /\ open' = Front(open)
  /\ link' = Jumps(link, Top.at, Here)
  /\ dropped' = dropped \cup Skipped
  /\ UNCHANGED <<phase, runVars>>

(* Any other region, a loop body among them: the set is threaded through.  *)
Do ==
  /\ Room(2)
  /\ Write("do")
  /\ open' = Append(open, Construct(Here, {}, {}))
  /\ UNCHANGED <<link, dropped, reach, classes, phase, runVars>>

EndDo ==
  /\ phase = "source"
  /\ open # <<>> /\ prog[Top.at] = "do"
  /\ Write("od")
  /\ open' = Front(open)
  /\ link' = Jumps(Jumps(link, Top.at, Here), Here, Top.at)
  /\ UNCHANGED <<dropped, reach, classes, phase, runVars>>

Source ==
  \/ Allocate \/ Plain("free") \/ Plain("use")
  \/ If \/ Else \/ EndIf \/ Do \/ EndDo

-----------------------------------------------------------------------------
(* buildAST and the code generated from it, beside Fortran.                *)
Sites == UNION classes

(* Mutant: one buffer per ALLOCATE, as a counter of the stores would give. *)
BufferPerSite(s) == s

(* allocAliasName: a class is one buffer, named after its first site.      *)
Buffer(s) == Min(CHOOSE b \in classes : s \in b)

(* traceToDecl: the buffer the name stands for when the walk reaches p,    *)
(* which is that of the ALLOCATE walked last; before any it is the first   *)
(* class, which keeps the name.                                            *)
Bound(p) ==
  LET before == {s \in Sites : s < p}
  IN  Buffer(IF before = {} THEN Min(Sites) ELSE Max(before))

(* The routine is complete; <name>_allocated starts as 0.                  *)
BuildAST ==
  /\ phase = "source" /\ open = <<>> /\ Sites # {}
  /\ phase' = "run"
  /\ held' = [b \in {Buffer(s) : s \in Sites} |-> 0]
  /\ UNCHANGED <<walkVars, pos, current, flag, repeats, looped, crossed, wrong>>

Running(s) == phase = "run" /\ pos <= Len(prog) /\ prog[pos] = s

(* bindAllocSite: the extents of the class buffer are bound at the site.   *)
RunAllocate ==
  /\ Running("alloc") /\ current = 0
  /\ current' = pos
  /\ held' = [held EXCEPT ![Buffer(pos)] = pos]
  /\ flag' = TRUE
  /\ pos' = pos + 1
  /\ UNCHANGED <<walkVars, phase, repeats, looped, crossed, wrong>>

(* fir.freemem: the symbol is cleared, unless the statement was dropped.   *)
RunDeallocate ==
  /\ Running("free") /\ current # 0
  /\ current' = 0
  /\ flag' = (flag /\ pos \in dropped)
  /\ pos' = pos + 1
  /\ UNCHANGED <<walkVars, phase, held, repeats, looped, crossed, wrong>>

RunUse ==
  /\ Running("use") /\ current # 0
  /\ wrong' = (wrong \/ held[Bound(pos)] # current)
  /\ pos' = pos + 1
  /\ UNCHANGED <<walkVars, phase, current, held, flag, repeats, looped, crossed>>

(* The array is allocated and lives beside an ALLOCATE between two places. *)
Carries(from, to) == current # 0 /\ \E s \in Sites : from < s /\ s < to

BothAllocate ==
  LET middle == link[pos]
  IN  prog[middle] = "else" /\ Carries(pos, middle) /\ Carries(middle, link[middle])

RunBranch ==
  /\ \/ /\ Running("if")
        /\ \/ pos' = pos + 1 /\ UNCHANGED crossed
           \/ /\ pos' = link[pos] + 1
              /\ crossed' = (crossed \/ BothAllocate)
     \/ Running("else") /\ pos' = link[pos] /\ UNCHANGED crossed
     \/ Running("end") /\ pos' = pos + 1 /\ UNCHANGED crossed
  /\ UNCHANGED <<walkVars, phase, current, held, flag, repeats, looped, wrong>>

RunDo ==
  /\ Running("do")
  /\ pos' \in {pos + 1, link[pos] + 1}
  /\ looped' = (looped \/ Carries(pos, link[pos]))
  /\ UNCHANGED <<walkVars, phase, current, held, flag, repeats, crossed, wrong>>

RunEndDo ==
  /\ Running("od")
  /\ \/ pos' = pos + 1 /\ UNCHANGED repeats
     \/ repeats < MaxRepeats /\ repeats' = repeats + 1 /\ pos' = link[pos] + 1
  /\ looped' = (looped \/ Carries(link[pos], pos))
  /\ UNCHANGED <<walkVars, phase, current, held, flag, crossed, wrong>>

Run == \/ RunAllocate \/ RunDeallocate \/ RunUse
       \/ RunBranch \/ RunDo \/ RunEndDo

(* The routine returns, or Fortran forbids the next statement.             *)
Stopped ==
  \/ phase = "run" /\ pos > Len(prog)
  \/ Running("alloc") /\ current # 0
  \/ phase = "run" /\ pos <= Len(prog) /\ prog[pos] \in {"free", "use"} /\ current = 0
  \/ phase = "source" /\ ~Room(1) /\ open = <<>> /\ Sites = {}

Init ==
  /\ prog = <<>> /\ open = <<>> /\ link = <<>> /\ dropped = {}
  /\ reach = {} /\ reachAt = <<>> /\ classes = {}
  /\ phase = "source"
  /\ pos = 1 /\ current = 0 /\ held = <<>> /\ flag = FALSE /\ repeats = 0
  /\ looped = FALSE /\ crossed = FALSE /\ wrong = FALSE

Next == Source \/ BuildAST \/ Run \/ (Stopped /\ UNCHANGED vars)

Spec == Init /\ [][Next]_vars

-----------------------------------------------------------------------------
(* All of S belongs to one buffer.                                         *)
OneBuffer(S) == S = {} \/ \E b \in classes : S \subseteq b

(* The sites that groupAllocSites takes to reach one point of the routine, *)
(* the points it comes back to at ELSE and END IF included, share a buffer:*)
(* after a join the name needs no runtime choice between two transients.   *)
ReachingShareBuffer ==
  /\ OneBuffer(reach)
  /\ \A i \in DOMAIN open : OneBuffer(open[i].in) /\ OneBuffer(open[i].out)

(* Every use gets the buffer that holds the array Fortran's name denotes   *)
(* there, with the extents of its last ALLOCATE, along every path through  *)
(* branches, nested ones and re-allocation in one branch included, and     *)
(* through loops that free what they allocate.                             *)
UsesFindBuffer == (~looped /\ ~crossed) => ~wrong
=============================================================================
