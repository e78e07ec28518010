----------------------------- MODULE SdfgEmit ------------------------------
(***************************************************************************)
(* Emission of a straight-line run of Fortran statements into SDFG states  *)
(* (builder/emit_cfg.py emit_assign, builder/emit_library.py, context.py   *)
(* Ctx), the ordering pass that follows it (enforce_statement_order), and  *)
(* every execution the generated code may then choose.                     *)
(*                                                                         *)
(* emit_assign sends an assignment one of three ways: a symbol target goes *)
(* on an interstate edge, an array target or an array-reading right-hand   *)
(* side becomes a tasklet at once, a plain scalar assignment is queued on  *)
(* Ctx.pending.  Whole-array copies and fills, intrinsics and library      *)
(* calls become library nodes, some in a state of their own.  Values are   *)
(* abstracted to versions: the version of a location is the number of the  *)
(* statement that assigned it last, and a statement is executed correctly  *)
(* when it reads the versions sequential Fortran would have it read.       *)
(***************************************************************************)
EXTENDS LibraryNodes

CONSTANTS
  Codes,    \* a sequence of sets of statements [how, target, reads, self]
  MaxLength \* longest program

VARIABLES
  code,    \* the set of Codes the program draws its statements from
  states,  \* the states emitted so far; Ctx.cur is the last
  pending, \* Ctx.pending
  count,   \* statements emitted so far
  ref,     \* reference: version of each location after those statements
  phase,   \* "emit", then "run"
  at,      \* running: the current state
  done,    \* running: code nodes of the current state that have run
  mem,     \* running: version of each location
  misread  \* history: a statement read a version Fortran would not

buildVars == <<code, states, pending, count, ref>>
runVars == <<at, done, mem, misread>>
vars == <<code, states, pending, count, ref, phase, at, done, mem, misread>>

AllStatements == UNION Range(Codes)
Locations == UNION {{Real(s.target)} \cup {Real(l) : l \in s.reads} : s \in AllStatements}

(* The transients and symbols a library statement mints for itself.        *)
Minted(i, what) == <<<<i, what>>, "e">>
MintedNames == (1..MaxLength) \X {"staged", "promoted"}
MintedLocations == MintedNames \X {"e"}

(* A statement names what is declared; a self-assignment reads its target; *)
(* an item of READ and the buffer a message is received into are no data   *)
(* the call reads.                                                         *)
Declared == Scalars \cup Named \cup Symbols \cup Outside

ASSUME StatementsAssumption ==
  /\ MaxLength \in Nat /\ MintedNames \cap Declared = {}
  /\ \A s \in AllStatements :
       /\ s.target[1] \in Declared
       /\ IsFiniteSet(s.reads) /\ \A l \in s.reads : l[1] \in Declared
       /\ s.self => s.reads = {s.target}
       /\ s.how \in {"io", "mpi"} =>
            Root(s.target[1]) \notin {Root(d) : d \in ReadNames(s)}

Init ==
  /\ code \in DOMAIN Codes
  /\ states = <<EmptyState>>
  /\ pending = <<>>
  /\ count = 0
  /\ ref = [l \in Locations |-> 0]
  /\ phase = "emit"
  /\ at = 1
  /\ done = {}
  /\ mem = [l \in Locations \cup MintedLocations |-> 0]
  /\ misread = FALSE

-----------------------------------------------------------------------------
(* A statement instance: what it reads in sequential Fortran is recorded.  *)
Instance(s) ==
  [id |-> count + 1, how |-> s.how, target |-> s.target, reads |-> s.reads,
   self |-> s.self, sees |-> [l \in {Real(r) : r \in s.reads} |-> ref[l]]]

(* The part of a statement that reads `reads` and assigns `target`; what   *)
(* the statement has minted itself is read as it left it.                  *)
Part(st, reads, target) ==
  [st EXCEPT !.reads = reads, !.target = target,
             !.sees = [l \in {Real(r) : r \in reads} |->
                         IF l \in DOMAIN @ THEN @[l] ELSE st.id]]

(* Sequential Fortran: x = x leaves the value as it is.                    *)
RefStep(st) ==
  ref' = IF st.self THEN ref ELSE [ref EXCEPT ![Real(st.target)] = st.id]

(* Ctx.flush: pending scalar assignments go into the current state.        *)
Flushed(g) == FoldLeft(EmitScalarAssign, g, pending)

ReplaceCur(all, g) == [all EXCEPT ![Len(all)] = g]

(* flush_and_ensure: the states with the pending assignments emitted.      *)
FlushAndEnsure == ReplaceCur(states, Flushed(Last(states)))

ReadsArray(st) == ReadNames(st) \cap Named # {}

(* emit_assign's view of the current state: containers some tasklet stores *)
(* into, and containers some tasklet reads.                                *)
Tasklets(g) == {n \in CodeNodes(g) : g.nodes[n].kind = "tasklet"}
PriorWrites(g) ==
  {g.nodes[e[2]].data : e \in {x \in g.edges : x[1] \in Tasklets(g)}}
PriorReads(g) ==
  {g.nodes[e[1]].data : e \in {x \in g.edges : x[2] \in Tasklets(g)}}

(* emit_assign: RAW on arrays, WAR and WAW on the target.                  *)
Hazard(g, st) ==
  \/ ReadNames(st) \cap Named \cap PriorWrites(g) # {}
  \/ st.target[1] \in PriorReads(g) \cup PriorWrites(g)

(* emit_assign, symbol target: flush, then an interstate edge into a fresh *)
(* state carries the assignment; k = k is dropped before the flush.        *)
EmitSymbol(all, st) ==
  /\ st.how = "assign"
  /\ st.target[1] \in Symbols
  /\ IF st.self THEN UNCHANGED <<states, pending>>
     ELSE /\ states' = Append(all, StateAfter(st))
          /\ pending' = <<>>

(* emit_assign, array target or array-reading value: flush, open a new     *)
(* state on a hazard, emit the tasklet.                                    *)
EmitArray(all, st) ==
  /\ st.how = "assign"
  /\ st.target[1] \notin Symbols
  /\ st.target[1] \in Named \/ ReadsArray(st)
  /\ states' = IF Hazard(Last(all), st)
               THEN Append(all, EmitTasklet(EmptyState, st))
               ELSE ReplaceCur(all, EmitTasklet(Last(all), st))
  /\ pending' = <<>>

(* emit_assign, plain scalar: queued until the next flush.                 *)
EmitScalar(st) ==
  /\ st.how = "assign"
  /\ st.target[1] \notin Symbols \cup Named
  /\ ~ReadsArray(st)
  /\ pending' = Append(pending, st)
  /\ UNCHANGED states

-----------------------------------------------------------------------------
(* emit_library.py.                                                        *)
(* _state_for_whole_write: a fresh state when the current one already has  *)
(* an access node of d.                                                    *)
StateForWholeWrite(all, d) ==
  IF \E n \in DataNodes(Last(all)) : Last(all).nodes[n].data = d
  THEN Append(all, EmptyState) ELSE all

(* emit_copy: a whole-array b = a.                                         *)
AppendCopy(all, st) == ReplaceCur(all, AddCopyNode(Last(all), st))
EmitCopy(all, st) ==
  /\ st.how = "copy"
  /\ states' = AppendCopy(StateForWholeWrite(all, Resolve(st.target[1])), st)
  /\ pending' = <<>>

(* emit_memset: a whole-array b = 0; what follows starts in a new state.   *)
AppendFill(all, st) == Append(ReplaceCur(all, AddFill(Last(all), st)), EmptyState)
EmitMemset(all, st) ==
  /\ st.how = "memset"
  /\ states' = AppendFill(StateForWholeWrite(all, Resolve(st.target[1])), st)
  /\ pending' = <<>>

(* A library node writes data: for a symbol target it fills a transient    *)
(* (emit_symbol_target_via_transient, query_target) ...                    *)
NodePart(st, reads) ==
  Part(st, reads, IF st.target[1] \in Symbols THEN Minted(st.id, "staged") ELSE st.target)

(* ... from which the next interstate edge assigns the symbol.             *)
BindSymbol(all, st) ==
  IF st.target[1] \notin Symbols THEN all
  ELSE Append(all, StateAfter(Part(st, {Minted(st.id, "staged")}, st.target)))

(* A scalar operand that is a property of the node (a shift, a factor) is  *)
(* promoted to a symbol on the edge into the node's state.                 *)
Promoted(st) == {l \in st.reads : l[1] \in Scalars}
Promotion(st) ==
  IF Promoted(st) = {} THEN EmptyState
  ELSE StateAfter(Part(st, Promoted(st), Minted(st.id, "promoted")))

(* emit_libcall and emit_reduce: the node joins the current state.         *)
AppendLibcall(all, st) ==
  ReplaceCur(all, AddCachedNode(Last(all), NodePart(st, st.reads \ Promoted(st))))
EmitLibcall(all, st) ==
  /\ st.how = "libcall"
  /\ states' = BindSymbol(AppendLibcall(IF Promoted(st) = {} THEN all
                                        ELSE Append(all, Promotion(st)), st), st)
  /\ pending' = <<>>

(* A call with effects outside the containers gets a state of its own,     *)
(* which keeps the effects of two calls in program order.                  *)
OwnState(all, st) ==
  BindSymbol(Append(all, AddCachedNode(EmptyState, NodePart(st, st.reads))), st)

(* emit_io: READ and WRITE.                                                *)
EmitIo(all, st) == st.how = "io" /\ states' = OwnState(all, st) /\ pending' = <<>>

(* emit_mpi: blocking sends and receives, rank and size queries.           *)
EmitMpi(all, st) == st.how = "mpi" /\ states' = OwnState(all, st) /\ pending' = <<>>

(* emit_mpi: collectives, in a state of their own with their own nodes.    *)
EmitCollective(all, st) ==
  /\ st.how = "collective"
  /\ states' = Append(all, AddUncachedNode(EmptyState, st))
  /\ pending' = <<>>

(* emit_blas: factors and sizes are promoted on the edge into the state.   *)
EmitBlas(all, st) ==
  /\ st.how = "blas"
  /\ states' = Append(all, AddUncachedNode(Promotion(st),
                                           NodePart(st, st.reads \ Promoted(st))))
  /\ pending' = <<>>

(* emit_lapack: a matrix is factorized in place.                           *)
EmitLapack(all, st) ==
  /\ st.how = "lapack"
  /\ states' = Append(all, AddUncachedNode(EmptyState, st))
  /\ pending' = <<>>

(* emit_fft: the operands may be views, and the same array.                *)
EmitFft(all, st) ==
  /\ st.how = "fft"
  /\ states' = Append(all, AddUncachedNode(EmptyState, st))
  /\ pending' = <<>>

Emit(s) ==
  /\ phase = "emit"
  /\ count < MaxLength
  /\ count' = count + 1
  /\ \E all \in {FlushAndEnsure}, st \in {Instance(s)} :
       /\ RefStep(st)
       /\ \/ EmitSymbol(all, st)
          \/ EmitArray(all, st)
          \/ EmitScalar(st)
          \/ EmitCopy(all, st)
          \/ EmitMemset(all, st)
          \/ EmitLibcall(all, st)
          \/ EmitIo(all, st)
          \/ EmitMpi(all, st)
          \/ EmitCollective(all, st)
          \/ EmitBlas(all, st)
          \/ EmitLapack(all, st)
          \/ EmitFft(all, st)
  /\ UNCHANGED <<code, phase, at, done, mem, misread>>

(* The last flush, then enforce_statement_order over every state.          *)
FinishBuild ==
  /\ phase = "emit"
  /\ states' = LET all == FlushAndEnsure IN [i \in DOMAIN all |-> OrderState(all[i])]
  /\ pending' = <<>>
  /\ phase' = "run"
  /\ UNCHANGED <<code, count, ref, at, done, mem, misread>>

-----------------------------------------------------------------------------
(* The effect of executing statement st on the memory.                     *)
Execute(st) ==
  /\ misread' = (misread \/ \E l \in DOMAIN st.sees : mem[l] # st.sees[l])
  /\ mem' = [mem EXCEPT ![Real(st.target)] = st.id]

(* The code of a state runs a node none of whose predecessors is left.     *)
RunNode ==
  /\ phase = "run"
  /\ \E t \in Ready(states[at], done) :
       /\ Execute(states[at].nodes[t].stmt)
       /\ done' = done \cup {t}
  /\ UNCHANGED <<buildVars, phase, at>>

(* The transition to the next state, with the assignment on its edge.      *)
NextState ==
  /\ phase = "run"
  /\ at < Len(states)
  /\ done = CodeNodes(states[at])
  /\ at' = at + 1
  /\ done' = {}
  /\ LET st == states[at + 1].entry
     IN  IF st = NoStatement THEN UNCHANGED <<mem, misread>> ELSE Execute(st)
  /\ UNCHANGED <<buildVars, phase>>

Finished == phase = "run" /\ at = Len(states) /\ done = CodeNodes(states[at])

(* A cyclic state: every node left waits for another one.                  *)
Stuck ==
  /\ phase = "run"
  /\ done # CodeNodes(states[at])
  /\ Ready(states[at], done) = {}

Next ==
  \/ \E s \in Codes[code] : Emit(s)
  \/ FinishBuild
  \/ RunNode
  \/ NextState
  \/ (Finished \/ Stuck) /\ UNCHANGED vars

Spec == Init /\ [][Next]_vars

-----------------------------------------------------------------------------
(* An intrinsic has overwritten a node that was read before it in its      *)
(* state: the one case the emitters leave open.                            *)
Overtaken == \E i \in DOMAIN states : Overtakes(states[i])

(* Whatever topological order the generated code picks, every statement    *)
(* reads what sequential Fortran reads, and the final memory is Fortran's: *)
(* scalars reassigned between reads, aliases through views and section     *)
(* dummies, queued scalar assignments, interstate symbols, whole-array     *)
(* copies and fills, intrinsics, library calls and I/O included.  Only an  *)
(* intrinsic that overtakes an earlier read may change the result.         *)
SequentialSemantics ==
  /\ misread => Overtaken
  /\ Finished => (\A l \in Locations : mem[l] = ref[l]) \/ Overtaken

(* The ordering pass leaves every state acyclic: an edge that would close  *)
(* a cycle is skipped, so the code of a state never waits for itself.      *)
NeverStuck == Stuck => Overtaken
=============================================================================
