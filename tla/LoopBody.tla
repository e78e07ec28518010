----------------------------- MODULE LoopBody ------------------------------
(***************************************************************************)
(* The body of a Fortran DO loop that holds only assignments: the flat     *)
(* batch path of builder/emit_cfg.py emit_loop.                            *)
(*                                                                         *)
(* Symbol assignments and the loads of inline indirect indices a(cell(k))  *)
(* cannot be tasklets: they ride interstate edges.  The fast path hoists   *)
(* them all ahead of the computes; when a hazard test says the hoist would *)
(* change a value, the batch is emitted statement by statement instead.    *)
(*                                                                         *)
(* A statement is a record [target, reads, ind]: the location it assigns,  *)
(* the locations its value and its subscripts read, and the set of its     *)
(* indirect index expressions, each a pair <<index array, symbol>>.        *)
(* Values are versions: the number of the statement instance that assigned *)
(* the location last.  Nested indirections, views and complex component    *)
(* aliases are left out.                                                   *)
(***************************************************************************)
EXTENDS StateGraph

CONSTANTS
  Statements, \* the assignments a body may contain
  MaxLength,  \* longest body
  Iterations  \* trip count of the loop

VARIABLES
  body,    \* the source statements (child_assigns)
  phase,   \* "source", then "run"
  code,    \* the lowered body: a sequence of states [load, edge, g], with
           \*   the indirect symbols loaded and the symbol assignments made
           \*   on the edge into the state
  it,      \* running: the iteration
  at,      \* running: the current segment of code
  left,    \* running: assignments on the entering edge not yet made
  done,    \* running: tasklets of the current state that have run
  mem,     \* running: version of each location
  idx,     \* running: the symbol of each indirect expression, as the
           \*   versions of its array and of its index when it was loaded
  misread  \* history: a statement read a version Fortran would not

runVars == <<it, at, left, done, mem, idx, misread>>
vars == <<body, phase, code, it, at, left, done, mem, idx, misread>>

Locations == {s.target : s \in Statements} \cup (UNION {s.reads : s \in Statements})
             \cup {<<n, "e">> : n \in UNION {UNION {{p[1], p[2]} : p \in s.ind} :
                                             s \in Statements}}
Indirects == UNION {s.ind : s \in Statements}

(* Names are declared; a symbol is assigned no expression with an index    *)
(* load; "order" marks ordering edges, so no subset of an array has it.    *)
ASSUME LoopAssumption ==
  /\ MaxLength \in Nat /\ Iterations \in Nat \ {0}
  /\ \A s \in Statements :
       /\ IsFiniteSet(s.reads) /\ IsFiniteSet(s.ind) /\ s.target[2] # "order"
       /\ \A l \in {s.target} \cup s.reads : l[1] \in Scalars \cup Arrays \cup Symbols
       /\ s.target[1] \in Symbols => s.ind = {}
  /\ \A p \in Indirects : p[1] \in Arrays /\ p[2] \in Symbols

IsSymbol(st) == st.target[1] \in Symbols

(* _rhs_free_symbols and _assign_read_names: the names a statement         *)
(* mentions, those inside its subscripts included.                         *)
Names(st) == {l[1] : l \in st.reads} \cup UNION {{p[1], p[2]} : p \in st.ind}

-----------------------------------------------------------------------------
(* Hazard tests over the batch b.                                          *)

(* Arrays in the access list of a statement: index loads are listed too.   *)
ArrayReads(st) == Names(st) \cap Arrays
ArrayWrites(st) == {st.target[1]} \cap Arrays

(* _sibling_rw_hazard over the computes of b: an array that one sibling    *)
(* writes and another one reads, in either order.                          *)
SiblingRwHazard(b) ==
  \E m, n \in {i \in DOMAIN b : ~IsSymbol(b[i])} :
    m # n /\ ArrayWrites(b[m]) \cap ArrayReads(b[n]) # {}

SymbolTargets(b) == {b[n].target[1] : n \in {i \in DOMAIN b : IsSymbol(b[i])}}
ComputeTargets(b) == {b[n].target[1] : n \in {i \in DOMAIN b : ~IsSymbol(b[i])}}
BodyIndirects(b) == UNION {b[n].ind : n \in DOMAIN b}

HoistReadsComputes(b) ==
  \/ \E n \in DOMAIN b : IsSymbol(b[n]) /\ Names(b[n]) \cap ComputeTargets(b) # {}
  \/ \E p \in BodyIndirects(b) : {p[1], p[2]} \cap ComputeTargets(b) # {}

(* _hoist_hazard_targets: a hoisted assignment reads what the hoist skips  *)
(* past.  Only whether the transitive set is empty decides the path, and   *)
(* it is empty when no assignment starts it.                               *)
HoistReadsSkipped(b) ==
  \/ \E n \in DOMAIN b : IsSymbol(b[n]) /\ Names(b[n]) \cap ComputeTargets(b) # {}
  \/ \E p \in BodyIndirects(b) :
       {p[1], p[2]} \cap (ComputeTargets(b) \cup SymbolTargets(b)) # {}

(* _overwritten_after_read: a symbol assigned after a compute that read it.*)
OverwrittenAfterRead(b) ==
  \E m, n \in DOMAIN b : /\ m < n /\ IsSymbol(b[n]) /\ ~IsSymbol(b[m])
                         /\ b[n].target[1] \in Names(b[m])

(* repeated_symbol_write.                                                  *)
RepeatedSymbolWrite(b) ==
  \E m, n \in DOMAIN b : m < n /\ IsSymbol(b[m]) /\ b[m].target = b[n].target

(* _conflicts_with_edge: assignments on one edge have no order.            *)
ConflictsWithEdge(edge, st) ==
  \E e \in edge : \/ e.target[1] \in {st.target[1]} \cup Names(st)
                  \/ st.target[1] \in Names(e)

(* _scalar_reassign_in_state: the scalar already has a value in use there. *)
ScalarReassign(g, st) ==
  /\ st.target[1] \in Scalars
  /\ \E e \in g.edges :
       \/ e[1] \in CodeNodes(g) /\ g.nodes[e[2]].data = st.target[1]
       \/ e[2] \in CodeNodes(g) /\ g.nodes[e[1]].data = st.target[1]

-----------------------------------------------------------------------------
(* Emission.  r is the loop region under construction: the segments so     *)
(* far, the assignments waiting on the open edge, the indirect symbols     *)
(* already loaded and the number of computes emitted.                      *)
Region == [segs |-> <<>>, edge |-> {}, minted |-> {}, computes |-> 0]

Segment(load, edge) == [load |-> load, edge |-> edge, g |-> EmptyState]

(* A new state at the end of the open edge.                                *)
Close(r) == [r EXCEPT !.segs = Append(@, Segment({}, r.edge)),
                      !.edge = {}]

(* One indirect symbol on an edge of its own.                              *)
Load(r, p) ==
  LET c == IF r.edge = {} THEN r ELSE Close(r)
  IN  [c EXCEPT !.segs = Append(@, Segment({p}, {})),
                !.minted = @ \cup {p}]

LoadAll(r, S) == FoldSet(LAMBDA p, c : Load(c, p), r, S \ r.minted)

(* A symbol assignment joins the open edge, or the next one.               *)
AssignOnEdge(r, st) ==
  LET c == IF ConflictsWithEdge(r.edge, st) THEN Close(r) ELSE r
  IN  [c EXCEPT !.edge = @ \cup {st}]

LastGraph(r) == Last(r.segs).g

EmitInLast(r, st) ==
  [r EXCEPT !.segs[Len(r.segs)].g = EmitTasklet(@, st), !.computes = @ + 1]

(* The source-order path, for one statement.                               *)
EmitInOrder(b, r, st) ==
  LET l == LoadAll(r, st.ind) IN
  IF IsSymbol(st) THEN AssignOnEdge(l, st)
  ELSE EmitInLast(IF \/ l.computes = 0 \/ l.edge # {} \/ SiblingRwHazard(b)
                     \/ ScalarReassign(LastGraph(l), st)
                  THEN Close(l) ELSE l, st)

SourceOrder(b) ==
  LET r == FoldLeft(LAMBDA c, st : EmitInOrder(b, c, st), Close(Region), b)
  IN  IF r.edge = {} THEN r.segs ELSE Close(r).segs

(* The fast path: indirect symbols, then symbol assignments, then the      *)
(* computes, in one state unless siblings race.                            *)
HoistSymbol(r, st) == IF IsSymbol(st) THEN AssignOnEdge(r, st) ELSE r

Hoisted(b) ==
  IF BodyIndirects(b) = {} /\ SymbolTargets(b) = {} THEN Region
  ELSE FoldLeft(HoistSymbol, LoadAll(Close(Region), BodyIndirects(b)), b)

EmitCompute(b, r, st) ==
  IF IsSymbol(st) THEN r
  ELSE EmitInLast(IF r.computes > 0 /\ (SiblingRwHazard(b) \/ ScalarReassign(LastGraph(r), st))
                  THEN Close(r) ELSE r, st)

FastPath(b) ==
  FoldLeft(LAMBDA r, st : EmitCompute(b, r, st), Close(Hoisted(b)), b).segs

(* emit_loop's choice, then enforce_statement_order over every state.      *)
Lower(b) ==
  LET segs == IF HoistReadsSkipped(b) \/ OverwrittenAfterRead(b) \/ RepeatedSymbolWrite(b)
              THEN SourceOrder(b) ELSE FastPath(b)
  IN  [i \in DOMAIN segs |-> [segs[i] EXCEPT !.g = OrderState(@)]]

-----------------------------------------------------------------------------
(* The version statement n of iteration i reads in sequential Fortran: the *)
(* last assignment before it in this iteration, else the last one of the   *)
(* previous iteration, else the value before the loop.                     *)
Expected(i, n, l) ==
  LET writers == {m \in DOMAIN body : body[m].target = l}
      here == {m \in writers : m < n}
  IN  IF here # {} THEN (i - 1) * Len(body) + Max(here)
      ELSE IF i > 1 /\ writers # {} THEN (i - 2) * Len(body) + Max(writers)
      ELSE 0

Init ==
  /\ body = <<>>
  /\ phase = "source"
  /\ code = <<>>
  /\ it = 1 /\ at = 1 /\ left = {} /\ done = {}
  /\ mem = [l \in Locations |-> 0]
  /\ idx = [p \in Indirects |-> <<0, 0>>]
  /\ misread = FALSE

(* The source grows by one statement; id is its place in the body.         *)
Write(s) ==
  /\ phase = "source" /\ Len(body) < MaxLength
  /\ body' = Append(body, [id |-> Len(body) + 1, target |-> s.target,
                           reads |-> s.reads, ind |-> s.ind])
  /\ UNCHANGED <<phase, code, runVars>>

EmitLoop ==
  /\ phase = "source" /\ body # <<>>
  /\ code' = Lower(body)
  /\ left' = code'[1].edge
  /\ phase' = "run"
  /\ UNCHANGED <<body, it, at, done, mem, idx, misread>>

(* A statement reads and writes the memory.                                *)
Execute(st) ==
  /\ misread' = \/ misread
                \/ \E l \in st.reads : mem[l] # Expected(it, st.id, l)
                \/ \E p \in st.ind :
                     idx[p] # <<Expected(it, st.id, <<p[1], "e">>),
                                Expected(it, st.id, <<p[2], "e">>)>>
  /\ mem' = [mem EXCEPT ![st.target] = (it - 1) * Len(body) + st.id]

(* A symbol assignment of the entering edge, in any order.                 *)
RunEdge ==
  /\ phase = "run"
  /\ \E e \in left : Execute(e) /\ left' = left \ {e}
  /\ UNCHANGED <<body, phase, code, it, at, done, idx>>

RunTasklet ==
  /\ phase = "run" /\ left = {}
  /\ \E t \in Ready(code[at].g, done) :
       Execute(code[at].g.nodes[t].stmt) /\ done' = done \cup {t}
  /\ UNCHANGED <<body, phase, code, it, at, left, idx>>

StateDone == phase = "run" /\ left = {} /\ done = CodeNodes(code[at].g)

(* On to the next state, or back to the first one for the next iteration.  *)
NextState ==
  /\ StateDone
  /\ at < Len(code) \/ it < Iterations
  /\ at' = IF at < Len(code) THEN at + 1 ELSE 1
  /\ it' = IF at < Len(code) THEN it ELSE it + 1
  /\ left' = code[at'].edge
  /\ idx' = [p \in Indirects |->
               IF p \in code[at'].load THEN <<mem[<<p[1], "e">>], mem[<<p[2], "e">>]>>
               ELSE idx[p]]
  /\ done' = {}
  /\ UNCHANGED <<body, phase, code, mem, misread>>

LoopDone == StateDone /\ at = Len(code) /\ it = Iterations

Next ==
  \/ \E s \in Statements : Write(s)
  \/ EmitLoop
  \/ RunEdge
  \/ RunTasklet
  \/ NextState
  \/ LoopDone /\ UNCHANGED vars

Spec == Init /\ [][Next]_vars

-----------------------------------------------------------------------------
(* Every statement of every iteration reads what sequential Fortran reads: *)
(* hoisted symbol assignments are not rotated by an iteration, assignments *)
(* sharing an edge do not see each other, indirect indices are current.    *)
SequentialBody ==
  /\ ~misread
  /\ LoopDone => \A l \in Locations : mem[l] = Expected(Iterations + 1, 1, l)

(* No indirect expression is used, redefined and used again.               *)
StableIndices ==
  \A m, n \in DOMAIN body : m < n =>
    \A p \in body[m].ind \cap body[n].ind :
      \A j \in m..(n - 1) : body[j].target[1] \notin {p[1], p[2]}

(* The loop computes what sequential Fortran computes, for every body that *)
(* does not use one indirect expression on both sides of a redefinition.   *)
SequentialStableBody == StableIndices => SequentialBody
=============================================================================
