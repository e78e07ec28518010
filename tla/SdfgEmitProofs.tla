--------------------------- MODULE SdfgEmitProofs ---------------------------
(***************************************************************************)
(* The code generated for a program, for every program.  It never waits    *)
(* for itself: no emitter but that of the intrinsics closes a cycle, and   *)
(* the ordering pass closes none.  And if the program is direct, it        *)
(* computes what sequential Fortran computes.                              *)
(***************************************************************************)
EXTENDS SdfgEmit, LibraryNodesProofs

-----------------------------------------------------------------------------
(* The names, subsets and statements of a build are a set that grows with  *)
(* every statement emitted.                                                *)
Statements(U) == {st \in U : Statement(U, st)}
Built(U) == {g \in Graphs(U) : Excused(g)}

Building(U, all) == all \in Seq(Built(U)) /\ Len(all) # 0

(* What a set holds, a larger one holds.                                   *)
LEMMA LargerUniverse ==
  ASSUME NEW U, NEW V, U \subseteq V, Universe(U)
  PROVE  /\ Universe(V) /\ Graphs(U) \subseteq Graphs(V) /\ Built(U) \subseteq Built(V)
         /\ Statements(U) \subseteq Statements(V)
<1>1. Universe(V)
  BY DEF Universe
<1>2. Typed(U) \subseteq Typed(V)
  <2>1. Nodes(U) \subseteq Nodes(V)
    BY DEF Nodes
  <2>2. Seq(Nodes(U)) \subseteq Seq(Nodes(V))
    BY <2>1
  <2>3. Caches(U) \subseteq Caches(V)
    BY DEF Caches
  <2>4. SUBSET (Nat \X Nat \X U) \subseteq SUBSET (Nat \X Nat \X V)
    OBVIOUS
  <2> QED BY <2>2, <2>3, <2>4 DEF Typed
<1>3. Graphs(U) \subseteq Graphs(V)
  BY <1>2 DEF Graphs
<1>4. Statements(U) \subseteq Statements(V)
  BY DEF Statements, Statement
<1> QED BY <1>1, <1>3, <1>4 DEF Built

(* A fresh state is empty.                                                 *)
LEMMA FreshState ==
  ASSUME NEW U, Universe(U), NEW st \in U
  PROVE  /\ StateAfter(st) \in Graphs(U) /\ StateAfter(st) \in Built(U)
         /\ DOMAIN StateAfter(st).cache = {}
<1> DEFINE g == StateAfter(st)
<1>1. g \in Graphs(U) /\ DOMAIN g.nodes = {} /\ DOMAIN g.cache = {}
  BY FreshStateIsTidy
<1> HIDE DEF g
<1>2. Loopless(g)
  BY <1>1 DEF Loopless, Acyclic
<1> QED BY <1>1, <1>2 DEF Built, Excused, g

(* A state that goes on from one without a loop that is excused ...        *)
LEMMA CarriedIsBuilt ==
  ASSUME NEW U, NEW g \in Built(U), NEW h \in Graphs(U), Continues(g, h) \/ Carries(g, h)
  PROVE  h \in Built(U)
<1>1. g \in Graphs(U) /\ Excused(g)
  BY DEF Built
<1>2. Carries(g, h)
  BY <1>1, ContinuesCarries
<1> QED BY <1>1, <1>2 DEF Built, Carries

(* The last of the states may be replaced, and one appended.               *)
LEMMA StatesGoOn ==
  ASSUME NEW U, NEW all, Building(U, all), NEW g \in Built(U)
  PROVE  /\ Last(all) \in Built(U)
         /\ Building(U, ReplaceCur(all, g)) /\ Last(ReplaceCur(all, g)) = g
         /\ Building(U, Append(all, g)) /\ Last(Append(all, g)) = g
<1>1. all \in Seq(Built(U)) /\ Len(all) \in Nat \ {0} /\ Len(all) \in DOMAIN all
  BY DEF Building
<1>2. Last(all) \in Built(U)
  BY <1>1 DEF Last
<1>3. Building(U, ReplaceCur(all, g)) /\ Last(ReplaceCur(all, g)) = g
  BY <1>1 DEF Building, ReplaceCur, Last
<1>4. Building(U, Append(all, g)) /\ Last(Append(all, g)) = g
  BY <1>1 DEF Building, Last
<1> QED BY <1>2, <1>3, <1>4

-----------------------------------------------------------------------------
(* Ctx.flush emits what is queued in the order of the queue.               *)
FlushFold(g, F) ==
  /\ F[{}] = g /\ F[DOMAIN pending] = Flushed(g)
  /\ \A s \in SUBSET DOMAIN pending : s # {} =>
       \E i \in s : /\ \A j \in s : j <= i
                    /\ F[s] = EmitScalarAssign(F[s \ {i}], pending[i])
LEMMA FlushedInOrder ==
  ASSUME NEW U, Universe(U), NEW g \in Graphs(U), pending \in Seq(Statements(U))
  PROVE  \E F : FlushFold(g, F)
<1> DEFINE
  n == Len(pending)
  seq == pending
  S == 1 .. n
  G == Graphs(U)
  op == [p \in S \X G |-> EmitScalarAssign(p[2], seq[p[1]])]
  pick == [s \in SUBSET S |-> Max(s)]
<1>1. n \in Nat /\ seq \in [S -> Statements(U)] /\ DOMAIN seq = S
  OBVIOUS
<1>2. IsFiniteSet(S)
  BY <1>1, FS_Interval
<1>3. \A i \in S, h \in G : EmitScalarAssign(h, seq[i]) \in G
  <2> SUFFICES ASSUME NEW i \in S, NEW h \in G PROVE EmitScalarAssign(h, seq[i]) \in G
    OBVIOUS
  <2> HIDE DEF seq, S
  <2>1. seq[i] \in U /\ Statement(U, seq[i])
    BY <1>1 DEF Statements
  <2> QED BY <2>1, EmitScalarAssignKeeps
<1>4. g \in G
  OBVIOUS
<1>5. \A s \in SUBSET S : s # {} => Max(s) \in s /\ \A j \in s : j <= Max(s)
  BY <1>1, LastIndex
<1>6. Flushed(g) = FoldLeft(EmitScalarAssign, g, seq)
  BY DEF Flushed
<1> HIDE DEF seq, S, G
<1>7. op \in [S \X G -> G]
  BY <1>3
<1>8. \A s \in SUBSET S : s # {} => pick[s] \in s
  BY <1>5
<1>9. PICK f \in [SUBSET S -> G] : FoldOver(f, S, g, op, pick)
  <2> HIDE DEF op, pick
  <2> QED BY <1>2, <1>4, <1>7, <1>8, FoldExists
<1>10. f = [s \in SUBSET S |->
              IF s = {} THEN g ELSE LET x == Max(s) IN EmitScalarAssign(f[s \ {x}], seq[x])]
  <2>1. \A s \in SUBSET S : s # {} =>
          <<Max(s), f[s \ {Max(s)}]>> \in S \X G /\ pick[s] = Max(s)
    BY <1>5
  <2>2. \A s \in SUBSET S : s # {} =>
          f[s] = EmitScalarAssign(f[s \ {Max(s)}], seq[Max(s)])
    BY <1>9, <2>1 DEF FoldOver
  <2> HIDE DEF op, pick
  <2> QED BY <1>9, <2>2 DEF FoldOver
<1>11. PICK F : /\ F = [s \in SUBSET S |->
                          IF s = {} THEN g
                          ELSE LET x == Max(s) IN EmitScalarAssign(F[s \ {x}], seq[x])]
                /\ Flushed(g) = F[S]
  BY <1>1, <1>6, <1>10 DEF FoldLeft, MapThenFoldSet
<1>12. F[{}] = g /\ F[DOMAIN pending] = Flushed(g)
  BY <1>1, <1>11 DEF seq
<1>13. ASSUME NEW s \in SUBSET S, s # {}
       PROVE  \E i \in s : /\ \A j \in s : j <= i
                           /\ F[s] = EmitScalarAssign(F[s \ {i}], seq[i])
  <2>1. Max(s) \in s /\ F[s] = EmitScalarAssign(F[s \ {Max(s)}], seq[Max(s)])
    BY <1>5, <1>11, <1>13
  <2> QED BY <1>5, <1>13, <2>1
<1>14. FlushFold(g, F)
  BY <1>1, <1>12, <1>13 DEF FlushFold, seq
<1> QED BY <1>14

(* It closes no cycle.                                                     *)
LEMMA FlushedKeeps ==
  ASSUME NEW U, Universe(U), NEW g \in Graphs(U), pending \in Seq(Statements(U))
  PROVE  Flushed(g) \in Graphs(U) /\ Continues(g, Flushed(g))
<1> DEFINE S == DOMAIN pending
           G == {h \in Graphs(U) : Continues(g, h)}
<1>1. S = 1 .. Len(pending) /\ Len(pending) \in Nat
  OBVIOUS
<1>2. IsFiniteSet(S) /\ \A i \in S : pending[i] \in Statements(U)
  BY <1>1, FS_Interval
<1>3. PICK F : FlushFold(g, F)
  BY FlushedInOrder
<1> HIDE DEF S
<1>4. F[{}] \in G
  BY <1>3, ContinuesItself DEF FlushFold
<1>5. ASSUME NEW s \in SUBSET S, s # {}
      PROVE  \E i \in s : F[s \ {i}] \in G => F[s] \in G
  <2>1. PICK i \in s : F[s] = EmitScalarAssign(F[s \ {i}], pending[i])
    BY <1>3, <1>5 DEF FlushFold, S
  <2>2. pending[i] \in U /\ Statement(U, pending[i])
    BY <1>2 DEF Statements
  <2>3. ASSUME NEW h \in G PROVE EmitScalarAssign(h, pending[i]) \in G
    <3>1. EmitScalarAssign(h, pending[i]) \in Graphs(U)
          /\ Continues(h, EmitScalarAssign(h, pending[i]))
      BY <2>2, EmitScalarAssignKeeps
    <3> QED BY <3>1, ContinuesOn
  <2>4. F[s \ {i}] \in G => F[s] \in G
    BY <2>1, <2>3
  <2> QED BY <2>4
<1> HIDE DEF G
<1>6. F[S] \in G
  BY <1>2, <1>4, <1>5, FoldStays
<1> QED BY <1>3, <1>6 DEF FlushFold, G, S

(* flush_and_ensure.                                                       *)
LEMMA FlushAndEnsureKeeps ==
  ASSUME NEW U, Universe(U), Building(U, states), pending \in Seq(Statements(U))
  PROVE  Building(U, FlushAndEnsure)
<1>1. Len(states) \in DOMAIN states /\ Last(states) \in Built(U)
  BY DEF Building, Last
<1>2. Last(states) \in Graphs(U)
  BY <1>1 DEF Built
<1> DEFINE g == Last(states)
           h == Flushed(g)
<1> HIDE DEF g
<1>3. h \in Graphs(U) /\ Continues(g, h)
  BY <1>2, FlushedKeeps DEF g
<1> HIDE DEF h
<1>4. h \in Built(U)
  BY <1>1, <1>3, CarriedIsBuilt DEF g
<1>5. FlushAndEnsure = ReplaceCur(states, h)
  BY DEF FlushAndEnsure, h, g
<1> QED BY <1>4, <1>5, StatesGoOn

-----------------------------------------------------------------------------
(* The statements a program is made of.                                    *)
WellFormed(st) ==
  /\ st = [id |-> st.id, how |-> st.how, target |-> st.target, reads |-> st.reads,
           self |-> st.self, sees |-> st.sees]
  /\ st.id \in 1 .. MaxLength
  /\ st.target[1] \in Declared
  /\ IsFiniteSet(st.reads) /\ \A l \in st.reads : l[1] \in Declared
  /\ st.how \in {"io", "mpi"} => Root(st.target[1]) \notin {Root(d) : d \in ReadNames(st)}

(* A numbered statement of the program is one.                             *)
LEMMA InstanceIsWellFormed ==
  ASSUME NEW s \in AllStatements, count \in Nat, count < MaxLength
  PROVE  WellFormed(Instance(s))
<1> DEFINE st == Instance(s)
<1>1. st.id = count + 1 /\ st.how = s.how /\ st.target = s.target /\ st.reads = s.reads
      /\ st = [id |-> st.id, how |-> st.how, target |-> st.target, reads |-> st.reads,
               self |-> st.self, sees |-> st.sees]
  BY DEF Instance
<1> HIDE DEF st
<1>2. count + 1 \in 1 .. MaxLength
  BY StatementsAssumption
<1>3. ReadNames(st) = ReadNames(s)
  BY <1>1 DEF ReadNames
<1> QED BY <1>1, <1>2, <1>3, StatementsAssumption DEF WellFormed, st

(* A part of a statement differs from it in what it reads and assigns.     *)
LEMMA PartFields ==
  ASSUME NEW st, WellFormed(st), NEW reads, NEW target
  PROVE  LET p == Part(st, reads, target)
         IN  p.id = st.id /\ p.how = st.how /\ p.reads = reads /\ p.target = target
<1> DEFINE p == [st EXCEPT !.reads = reads]
           q == [p EXCEPT !.target = target]
           S == [l \in {Real(r) : r \in reads} |->
                   IF l \in DOMAIN st.sees THEN st.sees[l] ELSE st.id]
           w == [q EXCEPT !.sees = S]
<1>1. p.id = st.id /\ p.how = st.how /\ p.reads = reads /\ p.sees = st.sees
      /\ p = [id |-> p.id, how |-> p.how, target |-> p.target, reads |-> p.reads,
              self |-> p.self, sees |-> p.sees]
  BY DEF WellFormed
<1>2. Part(st, reads, target) = w
  BY <1>1 DEF Part, WellFormed
<1> HIDE DEF p, S
<1>3. q.id = st.id /\ q.how = st.how /\ q.reads = reads /\ q.target = target
      /\ q = [id |-> q.id, how |-> q.how, target |-> q.target, reads |-> q.reads,
              self |-> q.self, sees |-> q.sees]
  BY <1>1
<1> HIDE DEF q
<1>4. w.id = st.id /\ w.how = st.how /\ w.reads = reads /\ w.target = target
  BY <1>3
<1> QED BY <1>2, <1>4

(* What a statement adds to the names, subsets and statements.             *)
NodeParts(st) == {NodePart(st, st.reads), NodePart(st, st.reads \ Promoted(st))}
EdgeParts(st) ==
  {Part(st, Promoted(st), Minted(st.id, "promoted")),
   Part(st, {Minted(st.id, "staged")}, st.target)}
Enlarged(U, st) ==
  U \cup Declared \cup MintedNames \cup {st} \cup NodeParts(st) \cup EdgeParts(st)
    \cup {"e", st.target[2], CHOOSE d \in ReadNames(st) : TRUE}

(* The part of a statement its library node carries: like it, but into a   *)
(* transient when the statement assigns a symbol.                          *)
LEMMA NodePartIsStatement ==
  ASSUME NEW U, NEW st, WellFormed(st), NEW reads \in SUBSET st.reads
  PROVE  LET p == NodePart(st, reads)
         IN  /\ p.id = st.id /\ p.how = st.how /\ p.reads = reads
             /\ p.target = st.target \/ p.target[1] \in MintedNames
             /\ p \in Enlarged(U, st) => Statement(Enlarged(U, st), p)
<1> DEFINE t == IF st.target[1] \in Symbols THEN Minted(st.id, "staged") ELSE st.target
           p == NodePart(st, reads)
           V == Enlarged(U, st)
<1>1. p.id = st.id /\ p.how = st.how /\ p.reads = reads /\ p.target = t
  BY PartFields DEF NodePart
<1>2. t = st.target \/ (t[1] \in MintedNames /\ t[2] = "e")
  BY DEF Minted, MintedNames, WellFormed
<1>3. t[1] \in V /\ t[2] \in V
  BY <1>2 DEF Enlarged, WellFormed
<1>4. IsFiniteSet(ReadNames(p)) /\ ReadNames(p) \subseteq V
  <2> DEFINE N == {l[1] : l \in reads}
  <2>1. IsFiniteSet(reads)
    BY FS_Subset DEF WellFormed
  <2>2. IsFiniteSet(N)
    BY <2>1, NamesAreFinite
  <2>3. ReadNames(p) \subseteq N
    BY <1>1 DEF ReadNames
  <2>4. N \subseteq Declared
    BY DEF WellFormed
  <2> HIDE DEF N
  <2>5. IsFiniteSet(ReadNames(p))
    BY <2>2, <2>3, FS_Subset
  <2> QED BY <2>3, <2>4, <2>5 DEF Enlarged
<1>5. p \in V => Statement(V, p)
  BY <1>1, <1>3, <1>4 DEF Statement
<1> QED BY <1>1, <1>2, <1>5

(* Enlarged by a statement, a universe has all the statement needs.        *)
LEMMA EnlargedHolds ==
  ASSUME NEW U, Universe(U), NEW st, WellFormed(st)
  PROVE  LET V == Enlarged(U, st)
         IN  /\ U \subseteq V /\ Universe(V) /\ Statement(V, st)
             /\ \A p \in NodeParts(st) : Statement(V, p)
             /\ EdgeParts(st) \subseteq V
             /\ (CHOOSE d \in ReadNames(st) : TRUE) \in V
<1> DEFINE V == Enlarged(U, st)
<1>1. U \subseteq V /\ EdgeParts(st) \subseteq V /\ NodeParts(st) \subseteq V /\ st \in V
      /\ (CHOOSE d \in ReadNames(st) : TRUE) \in V
      /\ Declared \subseteq V /\ st.target[2] \in V
  BY DEF Enlarged
<1>2. \A p \in NodeParts(st) : Statement(V, p)
  <2>1. st.reads \ Promoted(st) \in SUBSET st.reads /\ st.reads \in SUBSET st.reads
    OBVIOUS
  <2> QED BY <1>1, <2>1, NodePartIsStatement DEF NodeParts
<1> HIDE DEF V
<1>3. Statement(V, st)
  <2> DEFINE N == {l[1] : l \in st.reads}
  <2>1. IsFiniteSet(N)
    BY NamesAreFinite DEF WellFormed
  <2>2. ReadNames(st) \subseteq N
    BY DEF ReadNames
  <2>3. N \subseteq V
    BY <1>1 DEF WellFormed
  <2>4. st.target[1] \in V
    BY <1>1 DEF WellFormed
  <2> HIDE DEF N
  <2>5. IsFiniteSet(ReadNames(st))
    BY <2>1, <2>2, FS_Subset
  <2> QED BY <1>1, <2>2, <2>3, <2>4, <2>5 DEF Statement
<1>4. Universe(V)
  BY <1>1, LargerUniverse
<1> QED BY <1>1, <1>2, <1>3, <1>4 DEF V

-----------------------------------------------------------------------------
(* The emitters.                                                           *)
Prepared(V, st) ==
  /\ Universe(V) /\ WellFormed(st) /\ Statement(V, st)
  /\ \A p \in NodeParts(st) : Statement(V, p)
  /\ EdgeParts(st) \subseteq V /\ (CHOOSE d \in ReadNames(st) : TRUE) \in V

(* The current state goes on, ...                                          *)
LEMMA CurrentGoesOn ==
  ASSUME NEW V, NEW all, Building(V, all), NEW h \in Graphs(V),
         Continues(Last(all), h) \/ Carries(Last(all), h)
  PROVE  Building(V, ReplaceCur(all, h))
<1> DEFINE g == Last(all)
<1>1. g \in Built(V)
  BY DEF Building, Last
<1> HIDE DEF g
<1>2. h \in Built(V)
  BY <1>1, CarriedIsBuilt DEF g
<1> QED BY <1>2, StatesGoOn

(* ... or a new one is opened and goes on from there.                      *)
LEMMA OpenedGoesOn ==
  ASSUME NEW V, NEW all, Building(V, all), NEW g \in Built(V), NEW h \in Graphs(V),
         Continues(g, h)
  PROVE  Building(V, Append(all, h))
BY CarriedIsBuilt, StatesGoOn

(* The last of the states built is a state built.                          *)
LEMMA LastIsBuilt ==
  ASSUME NEW V, NEW all, Building(V, all)
  PROVE  Last(all) \in Built(V) /\ Last(all) \in Graphs(V)
BY DEF Building, Last, Built

(* emit_assign: an array.                                                  *)
LEMMA EmitArrayKeeps ==
  ASSUME NEW V, NEW st, Prepared(V, st), NEW all, Building(V, all), EmitArray(all, st)
  PROVE  Building(V, states')
<1> DEFINE h == EmitTasklet(Last(all), st)
           k == EmitTasklet(EmptyState, st)
<1>1. Universe(V) /\ Statement(V, st) /\ NoStatement \in V
  BY DEF Prepared, Universe
<1>2. EmptyState \in Built(V) /\ EmptyState \in Graphs(V)
  BY <1>1, FreshState DEF EmptyState
<1>3. h \in Graphs(V) /\ Continues(Last(all), h)
  BY <1>1, LastIsBuilt, EmitTaskletKeeps
<1>4. k \in Graphs(V) /\ Continues(EmptyState, k)
  BY <1>1, <1>2, EmitTaskletKeeps
<1>5. states' = IF Hazard(Last(all), st) THEN Append(all, k) ELSE ReplaceCur(all, h)
  BY DEF EmitArray
<1> HIDE DEF h, k
<1>6. Building(V, ReplaceCur(all, h))
  BY <1>3, CurrentGoesOn
<1>7. Building(V, Append(all, k))
  BY <1>2, <1>4, OpenedGoesOn
<1> QED BY <1>5, <1>6, <1>7

(* A state of its own for a whole-array write: nothing of d is in it.      *)
LEMMA WholeWriteState ==
  ASSUME NEW V, Universe(V), NEW all, Building(V, all), NEW d
  PROVE  LET own == StateForWholeWrite(all, d)
         IN  Building(V, own) /\ ~Cached(Last(own), d)
<1> DEFINE own == StateForWholeWrite(all, d)
           g == Last(all)
<1>1. EmptyState \in Built(V) /\ DOMAIN EmptyState.cache = {}
  <2>1. NoStatement \in V
    BY DEF Universe
  <2> QED BY <2>1, FreshState DEF EmptyState
<1>2. g \in Graphs(V)
  BY LastIsBuilt
<1>3. own = IF \E n \in DataNodes(g) : g.nodes[n].data = d
            THEN Append(all, EmptyState) ELSE all
  BY DEF StateForWholeWrite
<1> HIDE DEF g, own
<1>4. CASE \E n \in DataNodes(g) : g.nodes[n].data = d
  <2>1. own = Append(all, EmptyState)
    BY <1>3, <1>4
  <2>2. Building(V, own) /\ Last(own) = EmptyState
    BY <1>1, <2>1, StatesGoOn
  <2> QED BY <1>1, <2>2 DEF Cached, own
<1>5. CASE ~\E n \in DataNodes(g) : g.nodes[n].data = d
  <2>1. own = all
    BY <1>3, <1>5
  <2>2. ~Cached(g, d)
    BY <1>2, <1>5, GraphsAreGraphs DEF CacheOK, Points, Cached, DataNodes
  <2> QED BY <2>1, <2>2 DEF own, g
<1> QED BY <1>4, <1>5

(* emit_copy and emit_memset.                                              *)
LEMMA EmitCopyKeeps ==
  ASSUME NEW V, NEW st, Prepared(V, st), NEW all, Building(V, all), EmitCopy(all, st)
  PROVE  Building(V, states')
<1> DEFINE own == StateForWholeWrite(all, Resolve(st.target[1]))
           h == AddCopyNode(Last(own), st)
<1>1. Building(V, own)
  BY WholeWriteState DEF Prepared
<1>2. states' = ReplaceCur(own, h)
  BY DEF EmitCopy, AppendCopy
<1> HIDE DEF own
<1>3. h \in Graphs(V) /\ Continues(Last(own), h)
  BY <1>1, LastIsBuilt, AddCopyNodeKeeps DEF Prepared
<1> HIDE DEF h
<1> QED BY <1>1, <1>2, <1>3, CurrentGoesOn

(* ... and the state after it.                                             *)
LEMMA EmitMemsetKeeps ==
  ASSUME NEW V, NEW st, Prepared(V, st), NEW all, Building(V, all), EmitMemset(all, st)
  PROVE  Building(V, states')
<1> DEFINE own == StateForWholeWrite(all, Resolve(st.target[1]))
           h == AddFill(Last(own), st)
           next == ReplaceCur(own, h)
<1>1. Building(V, own) /\ ~Cached(Last(own), Resolve(st.target[1]))
  BY WholeWriteState DEF Prepared
<1>2. states' = Append(next, EmptyState)
  BY DEF EmitMemset, AppendFill
<1> HIDE DEF own
<1>3. h \in Graphs(V) /\ Continues(Last(own), h)
  BY <1>1, LastIsBuilt, AddFillKeeps DEF Prepared
<1> HIDE DEF h
<1>4. Building(V, next)
  BY <1>1, <1>3, CurrentGoesOn
<1>5. EmptyState \in Built(V)
  <2>1. NoStatement \in V /\ Universe(V)
    BY DEF Universe, Prepared
  <2> QED BY <2>1, FreshState DEF EmptyState
<1> HIDE DEF next
<1> QED BY <1>2, <1>4, <1>5, StatesGoOn

-----------------------------------------------------------------------------
(* Library nodes.                                                          *)

(* The edges into and out of the state of a node carry the parts of its    *)
(* statement.                                                              *)
LEMMA PromotionIsBuilt ==
  ASSUME NEW V, NEW st, Prepared(V, st)
  PROVE  /\ Promotion(st) \in Built(V) /\ Promotion(st) \in Graphs(V)
         /\ EmptyState \in Built(V) /\ EmptyState \in Graphs(V)
         /\ DOMAIN EmptyState.cache = {}
<1> DEFINE p == Part(st, Promoted(st), Minted(st.id, "promoted"))
<1>1. Universe(V) /\ NoStatement \in V /\ p \in V
  BY DEF Prepared, Universe, EdgeParts
<1>2. Promotion(st) = IF Promoted(st) = {} THEN EmptyState ELSE StateAfter(p)
  BY DEF Promotion
<1> HIDE DEF p
<1>3. EmptyState \in Built(V) /\ EmptyState \in Graphs(V) /\ DOMAIN EmptyState.cache = {}
  BY <1>1, FreshState DEF EmptyState
<1>4. StateAfter(p) \in Built(V) /\ StateAfter(p) \in Graphs(V)
  BY <1>1, FreshState
<1> QED BY <1>2, <1>3, <1>4

(* The edge out of it keeps the states built.                              *)
LEMMA BindSymbolKeeps ==
  ASSUME NEW V, NEW st, Prepared(V, st), NEW all, Building(V, all)
  PROVE  Building(V, BindSymbol(all, st))
<1> DEFINE p == Part(st, {Minted(st.id, "staged")}, st.target)
<1>1. Universe(V) /\ p \in V
  BY DEF Prepared, EdgeParts
<1>2. BindSymbol(all, st) =
        IF st.target[1] \notin Symbols THEN all ELSE Append(all, StateAfter(p))
  BY DEF BindSymbol
<1> HIDE DEF p
<1>3. StateAfter(p) \in Built(V)
  BY <1>1, FreshState
<1>4. Building(V, Append(all, StateAfter(p)))
  BY <1>3, StatesGoOn
<1> QED BY <1>2, <1>4

(* emit_libcall: the one node that may close a cycle.                      *)
LEMMA EmitLibcallKeeps ==
  ASSUME NEW V, NEW st, Prepared(V, st), NEW all, Building(V, all), EmitLibcall(all, st)
  PROVE  Building(V, states')
<1> DEFINE p == NodePart(st, st.reads \ Promoted(st))
           own == IF Promoted(st) = {} THEN all ELSE Append(all, Promotion(st))
           h == AddCachedNode(Last(own), p)
           next == ReplaceCur(own, h)
<1>1. Building(V, own)
  <2>1. Building(V, Append(all, Promotion(st)))
    BY PromotionIsBuilt, StatesGoOn
  <2> QED BY <2>1
<1>2. states' = BindSymbol(next, st)
  BY DEF EmitLibcall, AppendLibcall
<1>3. Universe(V) /\ WellFormed(st) /\ Statement(V, p) /\ st.id \in Nat /\ st.how = "libcall"
  BY DEF Prepared, NodeParts, WellFormed, EmitLibcall
<1>4. p.id = st.id /\ p.how = st.how
  BY <1>3, NodePartIsStatement
<1> HIDE DEF own, p
<1>5. h \in Graphs(V) /\ Carries(Last(own), h)
  <2>1. Last(own) \in Graphs(V)
    BY <1>1, LastIsBuilt
  <2> QED BY <1>3, <1>4, <2>1, IntrinsicCarries
<1> HIDE DEF h
<1>6. Building(V, next)
  BY <1>1, <1>5, CurrentGoesOn
<1> HIDE DEF next
<1> QED BY <1>2, <1>6, BindSymbolKeeps

(* The containers a state caches for the reads of a statement ...          *)
ReadContainers(R) ==
  {Resolve(d) : d \in R} \cup {SourceOf[Resolve(d)] : d \in {e \in R : Resolve(e) \in Views}}

(* ... stand for the storage that is read.                                 *)
LEMMA ReadStorage ==
  ASSUME NEW R, R \subseteq Declared
  PROVE  /\ Caching(ReadContainers(R), R) /\ ReadContainers(R) \subseteq Declared
         /\ \A c \in ReadContainers(R) : \E d \in R : Root(c) = Root(d)
         /\ \A d : Root(Resolve(d)) = Root(d)
         /\ \A d \in MintedNames : Resolve(d) = d /\ d \notin Declared
<1>1. \A d : Root(Resolve(d)) = Root(d)
  BY NamesAssumption DEF Root, Resolve
<1>2. \A d : Resolve(d) \in Views => Root(SourceOf[Resolve(d)]) = Root(Resolve(d))
  BY NamesAssumption DEF Root
<1>3. \A d \in MintedNames : Resolve(d) = d /\ d \notin Declared
  BY StatementsAssumption DEF Resolve, Declared, Named
<1>4. ReadContainers(R) \subseteq Declared
  BY NamesAssumption DEF ReadContainers, Declared, Named, Resolve
<1>5. Caching(ReadContainers(R), R)
  BY DEF Caching, ReadContainers
<1>6. \A c \in ReadContainers(R) : \E d \in R : Root(c) = Root(d)
  BY <1>1, <1>2 DEF ReadContainers
<1> QED BY <1>1, <1>3, <1>4, <1>5, <1>6

(* A call with effects outside the containers: alone in its state.         *)
LEMMA OwnStateKeeps ==
  ASSUME NEW V, NEW st, Prepared(V, st), NEW all, Building(V, all), st.how \in {"io", "mpi"}
  PROVE  Building(V, OwnState(all, st))
<1> DEFINE p == NodePart(st, st.reads)
           h == AddCachedNode(EmptyState, p)
           next == Append(all, h)
           C == ReadContainers(ReadNames(p))
<1>1. Universe(V) /\ WellFormed(st) /\ Statement(V, p)
  BY DEF Prepared, NodeParts
<1>2. p.reads = st.reads /\ (p.target = st.target \/ p.target[1] \in MintedNames)
  <2>1. st.reads \in SUBSET st.reads
    OBVIOUS
  <2> QED BY <1>1, <2>1, NodePartIsStatement
<1>3. OwnState(all, st) = BindSymbol(next, st)
  BY DEF OwnState
<1> HIDE DEF p
<1>4. ReadNames(p) = ReadNames(st) /\ ReadNames(p) \subseteq Declared
  BY <1>1, <1>2 DEF ReadNames, WellFormed
<1>5. Resolve(p.target[1]) \notin C
  <2> SUFFICES ASSUME Resolve(p.target[1]) \in C PROVE FALSE
    OBVIOUS
  <2>1. PICK d \in ReadNames(p) : Root(Resolve(p.target[1])) = Root(d)
    BY <1>4, ReadStorage
  <2>2. Root(p.target[1]) = Root(d)
    BY <1>4, <2>1, ReadStorage
  <2>3. CASE p.target = st.target
    BY <1>1, <1>4, <2>2, <2>3 DEF WellFormed
  <2>4. CASE p.target[1] \in MintedNames
    BY <1>4, <2>4, ReadStorage
  <2> QED BY <1>2, <2>3, <2>4
<1>6. Caching(C, ReadNames(p))
  BY <1>4, ReadStorage
<1>7. EmptyState \in Built(V) /\ EmptyState \in Graphs(V) /\ DOMAIN EmptyState.cache \subseteq C
  BY PromotionIsBuilt
<1> HIDE DEF C
<1>8. h \in Graphs(V) /\ Continues(EmptyState, h)
  BY <1>1, <1>5, <1>6, <1>7, AloneKeeps
<1> HIDE DEF h
<1>9. Building(V, next)
  BY <1>7, <1>8, OpenedGoesOn
<1> HIDE DEF next
<1> QED BY <1>3, <1>9, BindSymbolKeeps

(* A node with access nodes of its own, in a state of its own.             *)
LEMMA UncachedStateKeeps ==
  ASSUME NEW V, NEW all, Building(V, all), NEW g \in Built(V), NEW p, Universe(V),
         Statement(V, p)
  PROVE  Building(V, Append(all, AddUncachedNode(g, p)))
<1>1. g \in Graphs(V)
  BY DEF Built
<1>2. AddUncachedNode(g, p) \in Graphs(V) /\ Continues(g, AddUncachedNode(g, p))
  BY <1>1, AddUncachedNodeKeeps
<1> QED BY <1>2, OpenedGoesOn

-----------------------------------------------------------------------------
(* The build and the run.                                                  *)

(* Every state built so far is free of cycles, or an intrinsic in it has   *)
(* overtaken an earlier node; the queue holds statements of the program.   *)
Emitting(U) == Universe(U) /\ Building(U, states) /\ pending \in Seq(Statements(U))

(* A statement emitted keeps this.                                         *)
LEMMA EmitKeeps ==
  ASSUME count \in Nat, NEW s \in AllStatements, Emit(s),
         NEW U, Emitting(U)
  PROVE  count' \in Nat /\ \E V : Emitting(V)'
<1> DEFINE st == Instance(s)
           all == FlushAndEnsure
           V == Enlarged(U, st)
<1>1. /\ count < MaxLength /\ count' = count + 1
      /\ \/ EmitSymbol(all, st)
         \/ EmitArray(all, st)
         \/ EmitScalar(st)
         \/ EmitCopy(all, st)
         \/ EmitMemset(all, st)
         \/ EmitLibcall(all, st)
         \/ EmitIo(all, st)
         \/ EmitMpi(all, st)
         \/ EmitCollective(all, st)
         \/ EmitBlas(all, st)
         \/ EmitLapack(all, st)
         \/ EmitFft(all, st)
  BY DEF Emit
<1>2. WellFormed(st)
  BY <1>1, InstanceIsWellFormed
<1> HIDE DEF st
<1>3. Prepared(V, st) /\ U \subseteq V
  BY <1>2, EnlargedHolds DEF Prepared, Emitting
<1> HIDE DEF V
<1>4. Building(V, states) /\ pending \in Seq(Statements(V)) /\ Universe(V) /\ Statement(V, st)
  BY <1>3, LargerUniverse DEF Emitting, Building, Prepared
<1>5. Building(V, all)
  BY <1>4, FlushAndEnsureKeeps
<1> HIDE DEF all
<1>6. <<>> \in Seq(Statements(V)) /\ st \in Statements(V)
  BY <1>4 DEF Statements, Statement
<1>7. \A p \in NodeParts(st) : Statement(V, p)
  BY <1>3 DEF Prepared
<1>8. Promotion(st) \in Built(V) /\ EmptyState \in Built(V)
  BY <1>3, PromotionIsBuilt
<1>9. Building(V, states') /\ pending' \in Seq(Statements(V))
  <2>1. CASE EmitSymbol(all, st)
    <3>1. CASE st.self
      BY <1>4, <2>1, <3>1 DEF EmitSymbol
    <3>2. CASE ~st.self
      <4>1. StateAfter(st) \in Built(V)
        BY <1>4, FreshState DEF Statement
      <4>2. Building(V, Append(all, StateAfter(st)))
        BY <1>5, <4>1, StatesGoOn
      <4> QED BY <1>6, <2>1, <3>2, <4>2 DEF EmitSymbol
    <3> QED BY <3>1, <3>2
  <2>2. CASE EmitArray(all, st)
    BY <1>3, <1>5, <1>6, <2>2, EmitArrayKeeps DEF EmitArray
  <2>3. CASE EmitScalar(st)
    <3>1. Append(pending, st) \in Seq(Statements(V))
      BY <1>4, <1>6
    <3> QED BY <1>4, <2>3, <3>1 DEF EmitScalar
  <2>4. CASE EmitCopy(all, st)
    BY <1>3, <1>5, <1>6, <2>4, EmitCopyKeeps DEF EmitCopy
  <2>5. CASE EmitMemset(all, st)
    BY <1>3, <1>5, <1>6, <2>5, EmitMemsetKeeps DEF EmitMemset
  <2>6. CASE EmitLibcall(all, st)
    BY <1>3, <1>5, <1>6, <2>6, EmitLibcallKeeps DEF EmitLibcall
  <2>7. CASE EmitIo(all, st)
    BY <1>3, <1>5, <1>6, <2>7, OwnStateKeeps DEF EmitIo
  <2>8. CASE EmitMpi(all, st)
    BY <1>3, <1>5, <1>6, <2>8, OwnStateKeeps DEF EmitMpi
  <2>9. CASE EmitCollective(all, st)
    BY <1>4, <1>5, <1>6, <1>8, <2>9, UncachedStateKeeps DEF EmitCollective
  <2>10. CASE EmitBlas(all, st)
    <3>1. Statement(V, NodePart(st, st.reads \ Promoted(st)))
      BY <1>7 DEF NodeParts
    <3> QED BY <1>4, <1>5, <1>6, <1>8, <2>10, <3>1, UncachedStateKeeps DEF EmitBlas
  <2>11. CASE EmitLapack(all, st)
    BY <1>4, <1>5, <1>6, <1>8, <2>11, UncachedStateKeeps DEF EmitLapack
  <2>12. CASE EmitFft(all, st)
    BY <1>4, <1>5, <1>6, <1>8, <2>12, UncachedStateKeeps DEF EmitFft
  <2> QED BY <1>1, <2>1, <2>2, <2>3, <2>4, <2>5, <2>6, <2>7, <2>8, <2>9, <2>10, <2>11, <2>12
<1> QED BY <1>1, <1>4, <1>9 DEF Emitting

(* The ordering pass keeps what the run needs of a state.                  *)
LEMMA OrderStateExcused ==
  ASSUME NEW U, NEW g \in Built(U)
  PROVE  IsGraph(OrderState(g)) /\ Excused(OrderState(g))
<1> DEFINE h == OrderState(g)
<1>1. g \in Graphs(U) /\ Excused(g)
  BY DEF Built
<1>2. IsGraph(g)
  BY <1>1, GraphsAreGraphs
<1>3. IsGraph(h) /\ h.nodes = g.nodes /\ g.edges \subseteq h.edges /\ (Loopless(g) => Loopless(h))
  BY <1>2, OrderStateKeeps
<1> HIDE DEF h
<1>4. Len(g.nodes) <= Len(h.nodes)
  BY <1>2, <1>3 DEF IsGraph, Wired
<1>5. Overtakes(g) => Overtakes(h)
  BY <1>2, <1>3, <1>4, OvertakenStays
<1> QED BY <1>1, <1>3, <1>5 DEF Excused, h

(* What NeverStuck rests on: while statements are emitted, Emitting; while *)
(* the code runs, every state is a graph without a cycle or with an        *)
(* intrinsic that has overtaken a node, and the nodes that have run are    *)
(* code nodes of the current state.                                        *)
BuildInv ==
  /\ code \in DOMAIN Codes /\ count \in Nat
  /\ phase = "emit" => at = 1 /\ done = {} /\ \E U : Emitting(U)
RunInv ==
  phase = "run" =>
    /\ Len(states) \in Nat /\ DOMAIN states = 1 .. Len(states)
    /\ at \in DOMAIN states /\ done \subseteq CodeNodes(states[at])
    /\ \A i \in DOMAIN states : IsGraph(states[i]) /\ Excused(states[i])
PhaseInv == phase \in {"emit", "run"}
StuckInv == BuildInv /\ RunInv /\ PhaseInv

(* At the start the one state is empty.                                    *)
LEMMA StuckInvInit == Init => StuckInv
<1> SUFFICES ASSUME Init PROVE StuckInv
  OBVIOUS
<1> DEFINE U == {NoStatement, "read", "all", "order"} \cup Named
<1>1. Universe(U) /\ NoStatement \in U
  BY DEF Universe
<1>2. EmptyState \in Built(U)
  BY <1>1, FreshState DEF EmptyState
<1> HIDE DEF U
<1>3. Building(U, states) /\ pending \in Seq(Statements(U))
  <2>1. states = <<EmptyState>> /\ pending = <<>>
    BY DEF Init
  <2> HIDE DEF Init
  <2> QED BY <1>2, <2>1 DEF Building
<1>4. Emitting(U)
  BY <1>1, <1>3 DEF Emitting
<1> QED BY <1>4 DEF Init, StuckInv, BuildInv, RunInv, PhaseInv

(* Every step of the build and of the run keeps it.                        *)
LEMMA StuckInvStep == StuckInv /\ [Next]_vars => StuckInv'
<1> SUFFICES ASSUME StuckInv, [Next]_vars PROVE StuckInv'
  OBVIOUS
<1> USE DEF StuckInv, BuildInv, RunInv, PhaseInv
<1>1. ASSUME NEW s \in Codes[code], Emit(s) PROVE StuckInv'
  <2>1. s \in AllStatements
    BY DEF AllStatements, Range
  <2>2. phase = "emit" /\ UNCHANGED <<code, phase, at, done>>
    BY <1>1 DEF Emit
  <2>3. PICK U : Emitting(U)
    BY <2>2
  <2>4. count' \in Nat /\ \E V : Emitting(V)'
    BY <1>1, <2>1, <2>3, EmitKeeps
  <2> QED BY <2>2, <2>4
<1>2. CASE FinishBuild
  <2> DEFINE all == FlushAndEnsure
             S == {OrderState(all[i]) : i \in DOMAIN all}
  <2>1. PICK U : Emitting(U)
    BY <1>2 DEF FinishBuild
  <2>2. Building(U, all)
    BY <2>1, FlushAndEnsureKeeps DEF Emitting
  <2>3. states' = [i \in DOMAIN all |-> OrderState(all[i])] /\ phase' = "run"
        /\ at' = 1 /\ done' = {} /\ count' = count /\ code' = code
    BY <1>2 DEF FinishBuild
  <2> HIDE DEF all
  <2>4. /\ Len(all) \in Nat \ {0} /\ DOMAIN all = 1 .. Len(all)
        /\ \A i \in DOMAIN all : all[i] \in Built(U)
    BY <2>2 DEF Building
  <2>5. DOMAIN states' = 1 .. Len(all) /\ states' \in Seq(S)
    BY <2>3, <2>4
  <2> HIDE DEF S
  <2>6. Len(states') = Len(all)
    BY <2>4, <2>5
  <2>7. \A i \in DOMAIN states' : IsGraph(states'[i]) /\ Excused(states'[i])
    <3> SUFFICES ASSUME NEW i \in DOMAIN all
                 PROVE  IsGraph(states'[i]) /\ Excused(states'[i])
      BY <2>3
    <3>1. all[i] \in Built(U) /\ states'[i] = OrderState(all[i])
      BY <2>3, <2>4
    <3> QED BY <3>1, OrderStateExcused
  <2> QED BY <2>3, <2>4, <2>5, <2>6, <2>7
<1>3. CASE RunNode
  <2>1. /\ phase = "run" /\ UNCHANGED <<code, count, phase, at, states>>
        /\ \E t \in Ready(states[at], done) : done' = done \cup {t}
    BY <1>3 DEF RunNode, buildVars
  <2>2. done' \subseteq CodeNodes(states[at])
    BY <2>1 DEF Ready
  <2> QED BY <2>1, <2>2
<1>4. CASE NextState
  <2>1. /\ phase = "run" /\ UNCHANGED <<code, count, phase, states>>
        /\ at < Len(states) /\ at' = at + 1 /\ done' = {}
    BY <1>4 DEF NextState, buildVars
  <2>2. at' \in DOMAIN states
    BY <2>1
  <2> QED BY <2>1, <2>2
<1>5. CASE UNCHANGED vars
  BY <1>5 DEF vars, Emitting
<1> QED BY <1>1, <1>2, <1>3, <1>4, <1>5 DEF Next

(* A state without a cycle has a node that waits for no other.             *)
LEMMA StuckInvNeverStuck == StuckInv => NeverStuck
<1> SUFFICES ASSUME RunInv, Stuck PROVE Overtaken
  BY DEF NeverStuck, StuckInv
<1> DEFINE g == states[at]
<1>1. at \in DOMAIN states /\ done \subseteq CodeNodes(g) /\ IsGraph(g) /\ Excused(g)
  BY DEF RunInv, Stuck
<1>2. CodeNodes(g) \ done # {} /\ Ready(g, done) = {}
  BY <1>1 DEF Stuck
<1> HIDE DEF g
<1>3. ~Loopless(g)
  BY <1>1, <1>2, SomeReady DEF IsGraph, Loopless
<1> QED BY <1>1, <1>3 DEF Excused, Overtaken, g

(* enforce_statement_order and the emitters leave no state whose code      *)
(* waits for itself, whatever the program: an execution can only be stuck  *)
(* when an intrinsic has overwritten a node that was read before it.       *)
THEOREM NeverWaits == Spec => []NeverStuck
<1>1. Spec => []StuckInv
  BY StuckInvInit, StuckInvStep, PTL DEF Spec
<1> QED BY <1>1, StuckInvNeverStuck, PTL

-----------------------------------------------------------------------------
(* Programs that reach every container by a name of its own storage or by  *)
(* a section of it: assignments, whole-array copies and fills, I/O and     *)
(* messages.  Their statements store into access nodes of the state's      *)
(* cache, one node each; only I/O and messages touch what is outside.      *)
Direct(s) ==
  /\ s.how \in {"assign", "copy", "memset", "io", "mpi"}
  /\ s.target[1] \notin Views /\ s.target[2] # "order" /\ \A l \in s.reads : l[1] \notin Views
  /\ s.how \in {"assign", "copy", "memset"} =>
       s.target[1] \notin Outside /\ \A l \in s.reads : l[1] \notin Outside
  /\ s.how # "assign" => s.target[1] \notin Symbols
  /\ s.how = "copy" => \E d : ReadNames(s) = {d}
  /\ s.how = "memset" => s.reads = {}
  /\ s.self => s.how = "copy" \/ (s.how = "assign" /\ s.target[1] \in Scalars \cup Symbols)

(* The statements a state executes: one on the edge into it, one for each  *)
(* code node.                                                              *)
Entry(g) == {g.entry} \ {NoStatement}
Carried(g, T) == {g.nodes[t].stmt : t \in T}
Work(g) == Entry(g) \cup Carried(g, CodeNodes(g))
Listed(all) == UNION {Work(all[i]) : i \in DOMAIN all}

Before(S, T) == \A s \in S, t \in T : s.id < t.id

(* Within a state and from state to state they are in program order, and   *)
(* what is outside is touched by the first one only.                       *)
InSequence(g) ==
  /\ Before(Entry(g), Carried(g, CodeNodes(g)))
  /\ \A t, u \in CodeNodes(g) : t < u => g.nodes[t].stmt.id < g.nodes[u].stmt.id
Touching(st) == {Real(st.target)} \cup ReadLocations(st)
Apart(g) ==
  \A t, u \in CodeNodes(g) :
    t # u /\ g.nodes[t].stmt.target[1] \in Outside =>
      Real(g.nodes[t].stmt.target) \notin Touching(g.nodes[u].stmt)
Dataflow(st) == Plain(st) /\ st.target[1] \notin Symbols
Sound(g) ==
  /\ Tidy(g) /\ InSequence(g) /\ Apart(g)
  /\ \A t \in CodeNodes(g) : Dataflow(g.nodes[t].stmt)
Drafts(U) == {g \in Graphs(U) : Sound(g)}
InTurn(all) == \A i, j \in DOMAIN all : i < j => Before(Work(all[i]), Work(all[j]))
Plan(U, all) ==
  all \in Seq(Drafts(U)) /\ Len(all) # 0 /\ InTurn(all) /\ all[1].entry = NoStatement

(* A statement that touches nothing outside.                               *)
Inside(st) == st.target[1] \notin Outside /\ \A l \in st.reads : l[1] \notin Outside

(* What a statement adds to a state comes last in it.                      *)
LEMMA GrowsInSequence ==
  ASSUME NEW U, NEW g \in Drafts(U), NEW h \in Graphs(U), NEW st, Dataflow(st),
         Grows(g, h, st), Before(Work(g), {st}), Inside(st) \/ CodeNodes(g) = {}
  PROVE  h \in Drafts(U) /\ Work(h) = Work(g) \cup {st} /\ h.entry = g.entry
<1>1. g \in Graphs(U) /\ Sound(g) /\ Tidy(h) /\ Kept(g, h)
  BY DEF Drafts, Grows
<1>2. PICK t : Gains(g, h, t, st)
  BY DEF Grows
<1>3. IsGraph(g) /\ IsGraph(h)
  BY <1>1, GraphsAreGraphs
<1>4. /\ t \notin DOMAIN g.nodes /\ CodeNodes(h) = CodeNodes(g) \cup {t} /\ h.nodes[t].stmt = st
      /\ h.entry = g.entry /\ \A u \in CodeNodes(g) : h.nodes[u] = g.nodes[u]
  BY <1>1, <1>2 DEF Gains, Kept, CodeNodes
<1>5. t \in Nat /\ \A u \in CodeNodes(g) : u \in Nat /\ u < t
  BY <1>3, <1>4 DEF IsGraph, Wired, CodeNodes
<1>6. Carried(h, CodeNodes(h)) = Carried(g, CodeNodes(g)) \cup {st}
  BY <1>4 DEF Carried
<1>7. Work(h) = Work(g) \cup {st} /\ Entry(h) = Entry(g)
  BY <1>4, <1>6 DEF Work, Entry
<1>8. InSequence(h)
  <2>1. Before(Entry(h), Carried(h, CodeNodes(h)))
    BY <1>1, <1>6, <1>7 DEF Sound, InSequence, Before, Work
  <2>2. ASSUME NEW a \in CodeNodes(h), NEW b \in CodeNodes(h), a < b
        PROVE  h.nodes[a].stmt.id < h.nodes[b].stmt.id
    <3>1. a \in CodeNodes(g)
      <4>1. a # t
        BY <1>4, <1>5, <2>2
      <4> QED BY <1>4, <4>1
    <3>2. CASE b \in CodeNodes(g)
      BY <1>1, <1>4, <2>2, <3>1, <3>2 DEF Sound, InSequence
    <3>3. CASE b = t
      <4>1. g.nodes[a].stmt \in Work(g)
        BY <3>1 DEF Work, Carried
      <4> QED BY <1>4, <3>1, <3>3, <4>1 DEF Before
    <3> QED BY <1>4, <3>2, <3>3
  <2> QED BY <2>1, <2>2 DEF InSequence
<1>9. Apart(h)
  <2>1. CASE CodeNodes(g) = {}
    BY <1>4, <2>1 DEF Apart
  <2>2. CASE Inside(st)
    <3>1. \A d \in Outside : Root(d) = d
      BY NamesAssumption DEF Root, Named
    <3>2. \A l \in {st.target} \cup st.reads : Root(l[1]) \notin Outside
      BY <2>2, NamesAssumption DEF Inside, Root, Named
    <3>3. \A l : l[1] \in Outside => Real(l) \notin Touching(st)
      BY <3>1, <3>2 DEF Touching, Real, ReadLocations
    <3>4. \A a, b \in CodeNodes(g) :
            a # b /\ h.nodes[a].stmt.target[1] \in Outside =>
              Real(h.nodes[a].stmt.target) \notin Touching(h.nodes[b].stmt)
      BY <1>1, <1>4 DEF Sound, Apart
    <3>5. st.target[1] \notin Outside
      BY <2>2 DEF Inside
    <3> QED BY <1>4, <3>3, <3>4, <3>5 DEF Apart
  <2> QED BY <2>1, <2>2
<1>10. \A a \in CodeNodes(h) : Dataflow(h.nodes[a].stmt)
  BY <1>1, <1>4 DEF Sound
<1> QED BY <1>1, <1>4, <1>7, <1>8, <1>9, <1>10 DEF Drafts, Sound

(* A state that begins after all that has been listed may be appended ...  *)
LEMMA PlanGrows ==
  ASSUME NEW U, NEW all, Plan(U, all), NEW h \in Drafts(U), Before(Listed(all), Work(h))
  PROVE  LET next == Append(all, h)
         IN  /\ Plan(U, next) /\ Last(next) = h /\ Last(next) \in Drafts(U)
             /\ Listed(next) = Listed(all) \cup Work(h)
<1> DEFINE next == Append(all, h)
           n == Len(all)
<1>1. all \in Seq(Drafts(U)) /\ n \in Nat \ {0} /\ DOMAIN all = 1 .. n
  BY DEF Plan
<1>2. /\ next \in Seq(Drafts(U)) /\ Len(next) = n + 1 /\ DOMAIN next = 1 .. n + 1
      /\ next[n + 1] = h /\ \A i \in DOMAIN all : next[i] = all[i]
  BY <1>1
<1>3. Last(next) = h
  BY <1>2 DEF Last
<1> HIDE DEF next, n
<1>4. DOMAIN next = DOMAIN all \cup {n + 1}
  BY <1>1, <1>2
<1>5. Listed(next) = Listed(all) \cup Work(h)
  BY <1>2, <1>4 DEF Listed
<1>6. InTurn(next)
  <2> SUFFICES ASSUME NEW i \in DOMAIN next, NEW j \in DOMAIN next, i < j
               PROVE  Before(Work(next[i]), Work(next[j]))
    BY DEF InTurn
  <2>1. i \in DOMAIN all
    BY <1>1, <1>2
  <2>2. CASE j \in DOMAIN all
    BY <1>2, <2>1, <2>2 DEF Plan, InTurn
  <2>3. CASE j = n + 1
    <3>1. Work(all[i]) \subseteq Listed(all)
      BY <2>1 DEF Listed
    <3> QED BY <1>2, <2>1, <2>3, <3>1 DEF Before
  <2> QED BY <1>4, <2>2, <2>3
<1>7. Len(next) # 0 /\ next[1].entry = NoStatement
  BY <1>1, <1>2 DEF Plan
<1> QED BY <1>2, <1>3, <1>5, <1>6, <1>7 DEF Plan, next

(* ... and the last state go on with statements after all of them.         *)
LEMMA PlanGoesOn ==
  ASSUME NEW U, NEW all, Plan(U, all), NEW h \in Drafts(U), NEW S,
         Work(h) = Work(Last(all)) \cup S, h.entry = Last(all).entry, Before(Listed(all), S)
  PROVE  LET next == ReplaceCur(all, h)
         IN  /\ Plan(U, next) /\ Last(next) = h /\ Last(next) \in Drafts(U)
             /\ Listed(next) = Listed(all) \cup S
<1> DEFINE next == ReplaceCur(all, h)
           n == Len(all)
<1>1. all \in Seq(Drafts(U)) /\ n \in Nat \ {0} /\ DOMAIN all = 1 .. n
  BY DEF Plan
<1>2. /\ next \in Seq(Drafts(U)) /\ Len(next) = n /\ DOMAIN next = 1 .. n
      /\ next[n] = h /\ \A i \in DOMAIN all : i # n => next[i] = all[i]
  BY <1>1 DEF ReplaceCur
<1>3. Last(next) = h /\ Last(all) = all[n] /\ n \in DOMAIN all
  BY <1>1, <1>2 DEF Last
<1> HIDE DEF next, n
<1>4. Work(next[n]) = Work(all[n]) \cup S
  BY <1>2, <1>3
<1>5. \A i \in DOMAIN all : Work(all[i]) \subseteq Listed(all)
  BY DEF Listed
<1>6. Listed(next) = Listed(all) \cup S
  <2>1. Listed(next) \subseteq Listed(all) \cup S
    BY <1>1, <1>2, <1>4, <1>5 DEF Listed
  <2>2. Listed(all) \subseteq Listed(next)
    <3> SUFFICES ASSUME NEW i \in DOMAIN all, NEW s \in Work(all[i]) PROVE s \in Listed(next)
      BY DEF Listed
    <3>1. i \in DOMAIN next /\ s \in Work(next[i])
      BY <1>1, <1>2, <1>4
    <3> QED BY <3>1 DEF Listed
  <2>3. S \subseteq Listed(next)
    BY <1>1, <1>2, <1>3, <1>4 DEF Listed
  <2> QED BY <2>1, <2>2, <2>3
<1>7. InTurn(next)
  <2> SUFFICES ASSUME NEW i \in 1 .. n, NEW j \in 1 .. n, i < j
               PROVE  Before(Work(next[i]), Work(next[j]))
    BY <1>2 DEF InTurn
  <2>1. Work(next[i]) = Work(all[i]) /\ i \in DOMAIN all
    BY <1>1, <1>2
  <2>2. Before(Work(all[i]), Work(all[j]))
    BY <1>1 DEF Plan, InTurn
  <2>3. CASE j # n
    BY <1>1, <1>2, <2>1, <2>2, <2>3
  <2>4. CASE j = n
    <3>1. Before(Work(all[i]), S)
      BY <1>5, <2>1 DEF Before
    <3> QED BY <1>4, <2>1, <2>2, <2>4, <3>1 DEF Before
  <2> QED BY <2>3, <2>4
<1>8. Len(next) # 0 /\ next[1].entry = NoStatement
  <2>1. all[1].entry = NoStatement
    BY DEF Plan
  <2>2. next[1].entry = all[1].entry
    BY <1>1, <1>2, <1>3
  <2> QED BY <1>1, <1>2, <2>1, <2>2
<1> QED BY <1>2, <1>3, <1>6, <1>7, <1>8 DEF Plan, next

(* Such a statement reads and assigns no view.                             *)
LEMMA DirectIsPlain ==
  ASSUME NEW st, Direct(st)
  PROVE  Plain(st) /\ (st.how \in {"assign", "copy", "memset"} => Inside(st))
<1>1. \A d : d \notin Views => Resolve(d) \notin Views
  BY NamesAssumption DEF Resolve
<1>2. \A d \in ReadNames(st) : d \notin Views
  BY DEF Direct, ReadNames
<1> QED BY <1>1, <1>2 DEF Direct, Plain, Inside

(* The queue: assignments in program order; x = x is dropped.              *)
Queued(S) == {pending[i] : i \in S}
Waiting(S) == {pending[i] : i \in {j \in S : ~pending[j].self}}
Queue(U) ==
  /\ pending \in Seq(Statements(U))
  /\ \A i \in DOMAIN pending :
       Direct(pending[i]) /\ pending[i].how = "assign" /\ pending[i].target[1] \notin Symbols
  /\ \A i, j \in DOMAIN pending : i < j => pending[i].id < pending[j].id

(* Ctx.flush goes on with them in program order.                           *)
LEMMA FlushedInSequence ==
  ASSUME NEW U, Universe(U), NEW g \in Drafts(U), Queue(U),
         Before(Work(g), Queued(DOMAIN pending))
  PROVE  /\ Flushed(g) \in Drafts(U)
         /\ Work(Flushed(g)) = Work(g) \cup Waiting(DOMAIN pending)
         /\ Flushed(g).entry = g.entry
<1> DEFINE S == DOMAIN pending
<1>1. /\ S = 1 .. Len(pending) /\ Len(pending) \in Nat
      /\ \A i \in S : i \in Nat /\ pending[i] \in Statements(U)
  BY DEF Queue
<1> HIDE DEF S
<1>2. IsFiniteSet(S)
  BY <1>1, FS_Interval
<1>3. g \in Graphs(U)
  BY DEF Drafts
<1>4. PICK F : FlushFold(g, F)
  BY <1>3, FlushedInOrder DEF Queue
<1> DEFINE Q == {s \in SUBSET S : /\ F[s] \in Drafts(U) /\ Work(F[s]) = Work(g) \cup Waiting(s)
                                  /\ F[s].entry = g.entry}
<1>5. {} \in Q
  <2>1. F[{}] = g
    BY <1>4 DEF FlushFold
  <2>2. Waiting({}) = {}
    BY DEF Waiting
  <2> QED BY <2>1, <2>2
<1>6. ASSUME NEW s \in SUBSET S, s # {}
      PROVE  \E i \in s : s \ {i} \in Q => s \in Q
  <2>1. PICK i \in s : /\ \A j \in s : j <= i
                       /\ F[s] = EmitScalarAssign(F[s \ {i}], pending[i])
    BY <1>4, <1>6 DEF FlushFold, S
  <2> DEFINE h == F[s \ {i}]
             st == pending[i]
  <2>2. SUFFICES ASSUME h \in Drafts(U), Work(h) = Work(g) \cup Waiting(s \ {i}),
                        h.entry = g.entry
                 PROVE  /\ F[s] \in Drafts(U) /\ Work(F[s]) = Work(g) \cup Waiting(s)
                        /\ F[s].entry = g.entry
    <3> HIDE DEF h
    <3> QED BY DEF h
  <2>3. st \in U /\ Statement(U, st) /\ Direct(st) /\ Plain(st) /\ Dataflow(st) /\ Inside(st)
    BY <1>1, DirectIsPlain DEF Statements, Queue, S, Dataflow
  <2>4. F[s] = IF st.self THEN h ELSE EmitTasklet(h, st)
    BY <2>1 DEF EmitScalarAssign
  <2>5. Waiting(s) = IF st.self THEN Waiting(s \ {i}) ELSE Waiting(s \ {i}) \cup {st}
    BY DEF Waiting
  <2>6. Before(Work(h), {st})
    <3>1. \A j \in s \ {i} : pending[j].id < st.id
      <4> SUFFICES ASSUME NEW j \in s \ {i} PROVE pending[j].id < st.id
        OBVIOUS
      <4>1. j < i
        BY <1>1, <2>1
      <4> QED BY <4>1 DEF Queue, S
    <3>2. \A w \in Work(g) : w.id < st.id
      BY DEF Before, Queued, S
    <3> QED BY <2>2, <3>1, <3>2 DEF Before, Waiting
  <2> HIDE DEF h, st
  <2>7. CASE st.self
    BY <2>2, <2>4, <2>5, <2>7
  <2>8. CASE ~st.self
    <3>1. h \in Graphs(U) /\ Tidy(h)
      BY <2>2 DEF Drafts, Sound
    <3> DEFINE k == EmitTasklet(h, st)
    <3>2. k \in Graphs(U) /\ Grows(h, k, st)
      BY <2>3, <3>1, EmitTaskletGrows
    <3>3. F[s] = k
      BY <2>4, <2>8
    <3> HIDE DEF k
    <3>4. h \in Drafts(U) /\ Dataflow(st) /\ Inside(st)
      BY <2>2, <2>3
    <3>5. k \in Drafts(U) /\ Work(k) = Work(h) \cup {st} /\ k.entry = h.entry
      BY <2>6, <3>2, <3>4, GrowsInSequence
    <3> QED BY <2>2, <2>5, <2>8, <3>3, <3>5
  <2> QED BY <2>7, <2>8
<1> HIDE DEF Q
<1>7. S \in Q
  BY <1>2, <1>5, <1>6, ElementByElement
<1> QED BY <1>4, <1>7 DEF FlushFold, Q, S

(* flush_and_ensure.                                                       *)
LEMMA FlushedPlan ==
  ASSUME NEW U, Universe(U), Plan(U, states), Queue(U),
         Before(Listed(states), Queued(DOMAIN pending))
  PROVE  /\ Plan(U, FlushAndEnsure)
         /\ Listed(FlushAndEnsure) = Listed(states) \cup Waiting(DOMAIN pending)
<1> DEFINE g == Last(states)
           h == Flushed(g)
           D == DOMAIN pending
<1>1. g \in Drafts(U) /\ Work(g) \subseteq Listed(states)
  <2>1. states \in Seq(Drafts(U)) /\ Len(states) \in DOMAIN states /\ g = states[Len(states)]
    BY DEF Plan, Last
  <2> HIDE DEF g
  <2> QED BY <2>1 DEF Listed
<1>2. FlushAndEnsure = ReplaceCur(states, h)
  BY DEF FlushAndEnsure
<1> HIDE DEF g
<1>3. Before(Work(g), Queued(D))
  BY <1>1 DEF Before
<1>4. h \in Drafts(U) /\ Work(h) = Work(g) \cup Waiting(D) /\ h.entry = g.entry
  BY <1>1, <1>3, FlushedInSequence
<1> HIDE DEF h, D
<1>5. Waiting(D) \subseteq Queued(D)
  BY DEF Waiting, Queued
<1>6. Before(Listed(states), Waiting(D))
  BY <1>5 DEF Before, D
<1> QED BY <1>2, <1>4, <1>6, PlanGoesOn DEF g, D

-----------------------------------------------------------------------------
(* What the emitters make of the plan.                                     *)
Adds(U, all, next, S) == Plan(U, next) /\ Listed(next) = Listed(all) \cup S

(* A fresh state holds the statement on its edge, if any.                  *)
LEMMA FreshDraft ==
  ASSUME NEW U, Universe(U), NEW st \in U
  PROVE  LET g == StateAfter(st)
         IN  g \in Drafts(U) /\ Work(g) = {st} \ {NoStatement} /\ DOMAIN g.nodes = {}
<1> DEFINE g == StateAfter(st)
<1>1. /\ g \in Graphs(U) /\ Tidy(g) /\ DOMAIN g.nodes = {} /\ CodeNodes(g) = {}
      /\ g.entry = st
  BY FreshStateIsTidy
<1> HIDE DEF g
<1>2. Carried(g, CodeNodes(g)) = {}
  BY <1>1 DEF Carried
<1>3. Sound(g)
  BY <1>1, <1>2 DEF Sound, InSequence, Apart, Before
<1>4. Work(g) = {st} \ {NoStatement}
  BY <1>1, <1>2 DEF Work, Entry
<1> QED BY <1>1, <1>3, <1>4 DEF Drafts, g

(* The statement joins the current state ...                               *)
LEMMA StatementGoesOn ==
  ASSUME NEW U, NEW all, Plan(U, all), NEW st, Dataflow(st), Inside(st),
         Before(Listed(all), {st}), NEW h \in Graphs(U), Grows(Last(all), h, st)
  PROVE  Adds(U, all, ReplaceCur(all, h), {st})
<1> DEFINE g == Last(all)
<1>1. g \in Drafts(U) /\ Work(g) \subseteq Listed(all)
  <2>1. all \in Seq(Drafts(U)) /\ Len(all) \in DOMAIN all /\ g = all[Len(all)]
    BY DEF Plan, Last
  <2> HIDE DEF g
  <2> QED BY <2>1 DEF Listed
<1> HIDE DEF g
<1>2. Before(Work(g), {st})
  BY <1>1 DEF Before
<1>3. h \in Drafts(U) /\ Work(h) = Work(g) \cup {st} /\ h.entry = g.entry
  BY <1>1, <1>2, GrowsInSequence DEF g
<1> QED BY <1>3, PlanGoesOn DEF Adds, g

(* ... or opens one.                                                       *)
LEMMA StatementOpens ==
  ASSUME NEW U, Universe(U), NEW all, Plan(U, all), NEW st, Dataflow(st),
         Before(Listed(all), {st}), NEW h \in Graphs(U), Grows(EmptyState, h, st)
  PROVE  Adds(U, all, Append(all, h), {st})
<1> DEFINE g == EmptyState
<1>1. NoStatement \in U
  BY DEF Universe
<1>2. g \in Drafts(U) /\ Work(g) = {} /\ DOMAIN g.nodes = {} /\ Grows(g, h, st)
  BY <1>1, FreshDraft DEF EmptyState
<1> HIDE DEF g
<1>3. CodeNodes(g) = {} /\ Before(Work(g), {st}) /\ g \in Drafts(U) /\ Grows(g, h, st)
  BY <1>2 DEF CodeNodes, Before
<1>4. h \in Drafts(U) /\ Work(h) = Work(g) \cup {st}
  BY <1>3, GrowsInSequence
<1>5. Work(h) = {st}
  BY <1>2, <1>4
<1> QED BY <1>4, <1>5, PlanGrows DEF Adds

(* An empty state may follow.                                              *)
LEMMA EmptyFollows ==
  ASSUME NEW U, Universe(U), NEW all, Plan(U, all)
  PROVE  /\ Adds(U, all, Append(all, EmptyState), {})
         /\ Last(Append(all, EmptyState)) = EmptyState
         /\ EmptyState \in Drafts(U) /\ EmptyState \in Graphs(U) /\ Tidy(EmptyState)
         /\ Last(all) \in Drafts(U) /\ Last(all) \in Graphs(U) /\ Tidy(Last(all))
<1>1. NoStatement \in U
  BY DEF Universe
<1>2. EmptyState \in Drafts(U) /\ Work(EmptyState) = {}
  BY <1>1, FreshDraft DEF EmptyState
<1>3. Before(Listed(all), Work(EmptyState))
  BY <1>2 DEF Before
<1>4. Adds(U, all, Append(all, EmptyState), {}) /\ Last(Append(all, EmptyState)) = EmptyState
  <2> DEFINE h == EmptyState
             next == Append(all, h)
  <2>1. h \in Drafts(U) /\ Before(Listed(all), Work(h)) /\ Work(h) = {}
    BY <1>2, <1>3
  <2> HIDE DEF h
  <2>2. Plan(U, next) /\ Last(next) = h /\ Listed(next) = Listed(all) \cup Work(h)
    BY <2>1, PlanGrows
  <2> HIDE DEF next
  <2>3. Adds(U, all, next, {}) /\ Last(next) = h
    BY <2>1, <2>2 DEF Adds
  <2> QED BY <2>3 DEF next, h
<1>5. Last(all) \in Drafts(U)
  <2>1. all \in Seq(Drafts(U)) /\ Len(all) \in DOMAIN all
    BY DEF Plan
  <2> QED BY <2>1 DEF Last
<1> QED BY <1>2, <1>4, <1>5 DEF Drafts, Sound

(* What the emitters are given: a numbered statement of a direct program.  *)
Shaped(st) == WellFormed(st) /\ st.sees = [l \in ReadLocations(st) |-> st.sees[l]]
Given(U, all, st) ==
  /\ Universe(U) /\ Statement(U, st) /\ Shaped(st) /\ Direct(st) /\ Plan(U, all)
  /\ Before(Listed(all), {st})

(* emit_assign, a symbol.                                                  *)
LEMMA SymbolAdds ==
  ASSUME NEW U, NEW all, NEW st, Given(U, all, st)
  PROVE  Adds(U, all, Append(all, StateAfter(st)), {st})
<1> DEFINE g == StateAfter(st)
<1>1. st \in U /\ Universe(U) /\ st # NoStatement
  <2>1. st.id # 0 /\ NoStatement.id = 0
    BY DEF Given, Shaped, WellFormed, NoStatement
  <2> QED BY <2>1 DEF Given, Statement
<1>2. g \in Drafts(U) /\ Work(g) = {st} \ {NoStatement}
  BY <1>1, FreshDraft
<1> HIDE DEF g
<1>3. Work(g) = {st}
  BY <1>1, <1>2
<1>4. Before(Listed(all), Work(g)) /\ Plan(U, all)
  BY <1>3 DEF Given
<1>5. Plan(U, Append(all, g)) /\ Listed(Append(all, g)) = Listed(all) \cup Work(g)
  BY <1>2, <1>4, PlanGrows
<1> QED BY <1>3, <1>5 DEF Adds, g

(* emit_assign, an array or a value read from one.                         *)
LEMMA ArrayAdds ==
  ASSUME NEW U, NEW all, NEW st, Given(U, all, st), EmitArray(all, st)
  PROVE  Adds(U, all, states', {st})
<1> DEFINE h == EmitTasklet(Last(all), st)
           k == EmitTasklet(EmptyState, st)
<1>1. /\ Universe(U) /\ Statement(U, st) /\ Plain(st) /\ Dataflow(st) /\ Inside(st)
      /\ Plan(U, all) /\ Before(Listed(all), {st})
  <2>1. st.how = "assign" /\ st.target[1] \notin Symbols
    BY DEF EmitArray
  <2>2. Direct(st)
    BY DEF Given
  <2>3. Plain(st) /\ Dataflow(st) /\ Inside(st)
    BY <2>1, <2>2, DirectIsPlain DEF Dataflow
  <2> QED BY <2>3 DEF Given
<1>2. h \in Graphs(U) /\ Grows(Last(all), h, st)
  BY <1>1, EmptyFollows, EmitTaskletGrows
<1>3. k \in Graphs(U) /\ Grows(EmptyState, k, st)
  BY <1>1, EmptyFollows, EmitTaskletGrows
<1>4. states' = IF Hazard(Last(all), st) THEN Append(all, k) ELSE ReplaceCur(all, h)
  BY DEF EmitArray
<1> HIDE DEF h, k
<1>5. Adds(U, all, ReplaceCur(all, h), {st})
  BY <1>1, <1>2, StatementGoesOn
<1>6. Adds(U, all, Append(all, k), {st})
  BY <1>1, <1>3, StatementOpens
<1> QED BY <1>4, <1>5, <1>6

(* _state_for_whole_write: a state that does not hold the container yet.   *)
LEMMA WholeWriteBegins ==
  ASSUME NEW U, NEW all, NEW st, Given(U, all, st), NEW d
  PROVE  LET base == StateForWholeWrite(all, d)
         IN  Given(U, base, st) /\ Listed(base) = Listed(all) /\ ~Cached(Last(base), d)
<1> DEFINE g == Last(all)
           more == Append(all, EmptyState)
           base == StateForWholeWrite(all, d)
<1>1. Plan(U, all) /\ Universe(U)
  BY DEF Given
<1>2. Adds(U, all, more, {}) /\ Last(more) = EmptyState
  BY <1>1, EmptyFollows
<1>3. g \in Graphs(U)
  BY <1>1, EmptyFollows
<1>4. base = IF \E n \in DataNodes(g) : g.nodes[n].data = d THEN more ELSE all
  BY DEF StateForWholeWrite
<1> HIDE DEF base, more, g
<1>5. Plan(U, base) /\ Listed(base) = Listed(all)
  BY <1>1, <1>2, <1>4 DEF Adds
<1>6. ~Cached(Last(base), d)
  <2>1. CASE base = more
    BY <1>2, <2>1 DEF Cached, EmptyState, StateAfter
  <2>2. CASE base = all /\ ~\E n \in DataNodes(g) : g.nodes[n].data = d
    <3>1. CacheOK(g)
      BY <1>3, GraphsAreGraphs
    <3>2. ~Cached(g, d)
      BY <2>2, <3>1 DEF Cached, CacheOK, Points, DataNodes
    <3> QED BY <2>2, <3>2 DEF g
  <2> QED BY <1>4, <2>1, <2>2
<1>7. Given(U, base, st)
  BY <1>5 DEF Given
<1> QED BY <1>5, <1>6, <1>7 DEF base

(* The facts about the current state the emitters rest on.                 *)
LEMMA GivenCurrent ==
  ASSUME NEW U, NEW all, NEW st, Given(U, all, st)
  PROVE  /\ Universe(U) /\ Statement(U, st) /\ Direct(st) /\ Plain(st) /\ Plan(U, all)
         /\ Before(Listed(all), {st}) /\ Last(all) \in Drafts(U) /\ Last(all) \in Graphs(U)
         /\ Tidy(Last(all)) /\ Tidy(EmptyState) /\ EmptyState \in Graphs(U)
         /\ st.how \in {"assign", "copy", "memset"} => Inside(st)
         /\ st.how # "assign" => Dataflow(st)
<1>1. Universe(U) /\ Statement(U, st) /\ Direct(st) /\ Plan(U, all) /\ Before(Listed(all), {st})
  BY DEF Given
<1>2. Plain(st) /\ (st.how \in {"assign", "copy", "memset"} => Inside(st))
  BY <1>1, DirectIsPlain
<1>3. st.how # "assign" => Dataflow(st)
  BY <1>1, <1>2 DEF Direct, Dataflow
<1> QED BY <1>1, <1>2, <1>3, EmptyFollows

(* emit_copy.                                                              *)
LEMMA CopyAdds ==
  ASSUME NEW U, NEW all, NEW st, Given(U, all, st), EmitCopy(all, st)
  PROVE  Adds(U, all, states', IF st.self THEN {} ELSE {st})
<1> DEFINE d == Resolve(st.target[1])
           base == StateForWholeWrite(all, d)
           g == Last(base)
           h == AddCopyNode(g, st)
<1>1. states' = ReplaceCur(base, h)
  BY DEF EmitCopy, AppendCopy
<1>2. Given(U, base, st) /\ Listed(base) = Listed(all)
  BY WholeWriteBegins
<1>3. st.how = "copy"
  BY DEF EmitCopy
<1> HIDE DEF base
<1>4. /\ Universe(U) /\ Statement(U, st) /\ Direct(st) /\ Plain(st) /\ Plan(U, base)
      /\ Before(Listed(base), {st}) /\ g \in Drafts(U) /\ g \in Graphs(U) /\ Tidy(g) /\ Inside(st)
      /\ Dataflow(st)
  BY <1>2, <1>3, GivenCurrent
<1>5. CASE st.self
  <2>1. h = g
    BY <1>5 DEF AddCopyNode
  <2>2. Work(h) = Work(g) \cup {} /\ h.entry = g.entry /\ Before(Listed(base), {})
    BY <2>1 DEF Before
  <2> HIDE DEF h
  <2>3. Plan(U, ReplaceCur(base, h)) /\ Listed(ReplaceCur(base, h)) = Listed(base) \cup {}
    BY <1>4, <2>1, <2>2, PlanGoesOn
  <2> QED BY <1>1, <1>2, <1>5, <2>3 DEF Adds
<1>6. CASE ~st.self
  <2>1. PICK name : ReadNames(st) = {name}
    BY <1>3, <1>4 DEF Direct
  <2> HIDE DEF g
  <2>2. h \in Graphs(U) /\ Grows(g, h, st)
    BY <1>4, <1>6, <2>1, AddCopyNodeGrows
  <2> HIDE DEF h
  <2>3. Adds(U, base, ReplaceCur(base, h), {st})
    BY <1>4, <2>2, StatementGoesOn DEF g
  <2> QED BY <1>1, <1>2, <1>6, <2>3 DEF Adds
<1> QED BY <1>5, <1>6

(* emit_memset.                                                            *)
LEMMA FillAdds ==
  ASSUME NEW U, NEW all, NEW st, Given(U, all, st), EmitMemset(all, st)
  PROVE  Adds(U, all, states', {st})
<1> DEFINE d == Resolve(st.target[1])
           base == StateForWholeWrite(all, d)
           g == Last(base)
           h == AddFill(g, st)
           next == ReplaceCur(base, h)
<1>1. states' = Append(next, EmptyState)
  BY DEF EmitMemset, AppendFill
<1>2. Given(U, base, st) /\ Listed(base) = Listed(all) /\ ~Cached(g, d)
  BY WholeWriteBegins
<1>3. st.how = "memset"
  BY DEF EmitMemset
<1> HIDE DEF base
<1>4. /\ Universe(U) /\ Statement(U, st) /\ Direct(st) /\ Plain(st) /\ Plan(U, base)
      /\ Before(Listed(base), {st}) /\ g \in Drafts(U) /\ g \in Graphs(U) /\ Tidy(g) /\ Inside(st)
      /\ Dataflow(st)
  BY <1>2, <1>3, GivenCurrent
<1>5. ReadNames(st) = {}
  BY <1>3, <1>4 DEF Direct, ReadNames
<1> HIDE DEF g
<1>6. h \in Graphs(U) /\ Grows(g, h, st)
  BY <1>2, <1>4, <1>5, AddFillGrows
<1> HIDE DEF h
<1>7. Adds(U, base, next, {st})
  BY <1>4, <1>6, StatementGoesOn DEF g
<1> HIDE DEF next
<1>8. Adds(U, next, Append(next, EmptyState), {})
  BY <1>4, <1>7, EmptyFollows DEF Adds
<1> QED BY <1>1, <1>2, <1>7, <1>8 DEF Adds

(* The part of a statement that reads and assigns what it does is it.      *)
LEMMA WholePart ==
  ASSUME NEW st, Shaped(st)
  PROVE  Part(st, st.reads, st.target) = st
<1> DEFINE p == [st EXCEPT !.reads = st.reads]
           q == [p EXCEPT !.target = st.target]
           S == [l \in {Real(r) : r \in st.reads} |->
                   IF l \in DOMAIN st.sees THEN st.sees[l] ELSE st.id]
<1>1. st = [id |-> st.id, how |-> st.how, target |-> st.target, reads |-> st.reads,
            self |-> st.self, sees |-> st.sees]
      /\ st.sees = [l \in {Real(r) : r \in st.reads} |-> st.sees[l]]
  BY DEF Shaped, WellFormed, ReadLocations
<1>2. DOMAIN st.sees = {Real(r) : r \in st.reads}
  BY <1>1
<1>3. S = st.sees
  <2>1. S = [l \in {Real(r) : r \in st.reads} |-> st.sees[l]]
    BY <1>2
  <2> QED BY <1>1, <2>1
<1>4. p = st
  BY <1>1
<1>5. q = st
  BY <1>1, <1>4
<1>6. Part(st, st.reads, st.target)
        = [st EXCEPT !.reads = st.reads, !.target = st.target, !.sees = S]
  BY DEF Part
<1> HIDE DEF S
<1>7. [st EXCEPT !.reads = st.reads, !.target = st.target, !.sees = S] = [q EXCEPT !.sees = S]
  BY <1>1
<1>8. [st EXCEPT !.sees = st.sees] = st
  BY <1>1
<1> HIDE DEF q
<1> QED BY <1>3, <1>5, <1>6, <1>7, <1>8

(* emit_io and emit_mpi.                                                   *)
LEMMA CallAdds ==
  ASSUME NEW U, NEW all, NEW st, Given(U, all, st), st.how \in {"io", "mpi"}
  PROVE  Adds(U, all, OwnState(all, st), {st})
<1> DEFINE h == AddCachedNode(EmptyState, st)
<1>1. /\ Universe(U) /\ Statement(U, st) /\ Direct(st) /\ Plain(st) /\ Dataflow(st)
      /\ Plan(U, all) /\ Before(Listed(all), {st})
      /\ Tidy(EmptyState) /\ EmptyState \in Graphs(U)
  BY GivenCurrent
<1>2. WellFormed(st) /\ Shaped(st)
  BY DEF Given, Shaped
<1>3. st.target[1] \notin Symbols
  BY <1>1 DEF Direct
<1>4. OwnState(all, st) = Append(all, h)
  <2>1. NodePart(st, st.reads) = st
    BY <1>2, <1>3, WholePart DEF NodePart
  <2> QED BY <1>3, <2>1 DEF OwnState, BindSymbol
<1>5. \A d \in ReadNames(st) : Resolve(d) # Resolve(st.target[1])
  <2>1. \A d \in ReadNames(st) : Root(st.target[1]) # Root(d)
    BY <1>2 DEF WellFormed
  <2>2. \A d : Root(Resolve(d)) = Root(d)
    BY NamesAssumption DEF Root, Resolve
  <2> QED BY <2>1, <2>2
<1>6. DOMAIN EmptyState.nodes = {}
  BY DEF EmptyState, StateAfter
<1>7. h \in Graphs(U) /\ Grows(EmptyState, h, st)
  BY <1>1, <1>5, <1>6, AddCachedNodeGrows
<1> HIDE DEF h
<1> QED BY <1>1, <1>4, <1>7, StatementOpens

-----------------------------------------------------------------------------
(* What sequential Fortran reads.                                          *)

(* v is the number of the last statement of X before number n that assigns *)
(* location l, 0 if none does.                                             *)
Newest(X, l, n, v) ==
  /\ v \in Nat /\ v < n
  /\ v = 0 \/ \E w \in X : Real(w.target) = l /\ w.id = v
  /\ \A w \in X : Real(w.target) = l /\ w.id < n => w.id <= v

(* The statements X are the first n of the program; they know what they    *)
(* read, and r what they leave.                                            *)
Faithful(X, n, s) ==
  /\ Direct(s) /\ s.id \in 1 .. n /\ Real(s.target) \in Locations
  /\ DOMAIN s.sees = ReadLocations(s)
  /\ \A l \in ReadLocations(s) : l \in Locations /\ Newest(X, l, s.id, s.sees[l])
History(X, n, r) ==
  /\ n \in Nat /\ r \in [Locations -> Nat]
  /\ \A s \in X : Faithful(X, n, s)
  /\ \A l \in Locations : Newest(X, l, n + 1, r[l])

(* There is one such number.                                               *)
LEMMA OneNewest ==
  ASSUME NEW X, NEW l, NEW n \in Nat, NEW m \in Nat, NEW v, NEW w, NEW Y,
         Newest(X, l, n, v), Newest(Y, l, m, w), \A s \in X \cup Y : s.id \in Nat \ {0},
         \A s \in X : Real(s.target) = l /\ s.id < n => s \in Y /\ s.id < m,
         \A s \in Y : Real(s.target) = l /\ s.id < m => s \in X /\ s.id < n
  PROVE  v = w
<1>1. v \in Nat /\ w \in Nat /\ v < n /\ w < m
  BY DEF Newest
<1>2. v <= w
  <2>1. CASE v = 0
    BY <1>1, <2>1
  <2>2. CASE v # 0
    <3>1. PICK s \in X : Real(s.target) = l /\ s.id = v
      BY <2>2 DEF Newest
    <3>2. s \in Y /\ s.id < m
      BY <1>1, <3>1
    <3> QED BY <3>1, <3>2 DEF Newest
  <2> QED BY <2>1, <2>2
<1>3. w <= v
  <2>1. CASE w = 0
    BY <1>1, <2>1
  <2>2. CASE w # 0
    <3>1. PICK s \in Y : Real(s.target) = l /\ s.id = w
      BY <2>2 DEF Newest
    <3>2. s \in X /\ s.id < n
      BY <1>1, <3>1
    <3> QED BY <3>1, <3>2 DEF Newest
  <2> QED BY <2>1, <2>2
<1> QED BY <1>1, <1>2, <1>3

(* A later statement changes nothing for the earlier ones.                 *)
LEMMA LaterIsNotNewest ==
  ASSUME NEW X, NEW l, NEW n \in Nat, NEW v, Newest(X, l, n, v), NEW st, st.id \in Nat,
         n <= st.id
  PROVE  Newest(X \cup {st}, l, n, v)
<1>1. ~(st.id < n)
  OBVIOUS
<1> QED BY <1>1 DEF Newest

(* The next statement of the program.                                      *)
LEMMA HistoryGrows ==
  ASSUME NEW X, NEW n, NEW r, History(X, n, r), NEW st,
         st.id = n + 1, Direct(st), Real(st.target) \in Locations,
         ReadLocations(st) \subseteq Locations,
         st.sees = [l \in ReadLocations(st) |-> r[l]]
  PROVE  LET Y == IF st.self THEN X ELSE X \cup {st}
             q == IF st.self THEN r ELSE [r EXCEPT ![Real(st.target)] = st.id]
         IN  History(Y, n + 1, q)
<1>1. n \in Nat /\ r \in [Locations -> Nat] /\ n + 1 \in Nat
  BY DEF History
<1>2. \A s \in X : Faithful(X, n, s) /\ s.id \in Nat /\ s.id <= n /\ s.id < n + 1
  BY <1>1 DEF History, Faithful
<1>3. \A l \in Locations : Newest(X, l, n + 1, r[l]) /\ r[l] \in Nat /\ r[l] < n + 1
  BY DEF History, Newest
<1>4. CASE st.self
  <2>1. \A s \in X : Faithful(X, n + 1, s)
    BY <1>1, <1>2 DEF Faithful
  <2>2. \A l \in Locations : Newest(X, l, n + 1 + 1, r[l])
    BY <1>1, <1>2, <1>3 DEF Newest
  <2>3. History(X, n + 1, r)
    BY <1>1, <2>1, <2>2 DEF History
  <2> QED BY <1>4, <2>3
<1>5. CASE ~st.self
  <2> DEFINE Y == X \cup {st}
             q == [r EXCEPT ![Real(st.target)] = st.id]
  <2>1. q \in [Locations -> Nat]
    BY <1>1
  <2>2. \A s \in X : Faithful(Y, n + 1, s)
    <3> SUFFICES ASSUME NEW s \in X PROVE Faithful(Y, n + 1, s)
      OBVIOUS
    <3>1. Faithful(X, n, s) /\ s.id \in 1 .. n + 1 /\ s.id \in Nat /\ s.id <= st.id
      <4>1. Faithful(X, n, s) /\ s.id \in 1 .. n
        BY <1>2 DEF Faithful
      <4> QED BY <1>1, <4>1
    <3> HIDE DEF Y
    <3>2. \A l \in ReadLocations(s) : l \in Locations /\ Newest(Y, l, s.id, s.sees[l])
      BY <1>1, <3>1, LaterIsNotNewest DEF Faithful, Y
    <3> QED BY <3>1, <3>2 DEF Faithful
  <2>3. Faithful(Y, n + 1, st)
    <3>1. \A l \in Locations : Newest(Y, l, n + 1, r[l])
      BY <1>1, <1>3, LaterIsNotNewest
    <3>2. DOMAIN st.sees = ReadLocations(st) /\ \A l \in ReadLocations(st) : st.sees[l] = r[l]
      OBVIOUS
    <3>3. st.id \in 1 .. n + 1
      BY <1>1
    <3> HIDE DEF Y
    <3> QED BY <3>1, <3>2, <3>3 DEF Faithful
  <2>4. \A l \in Locations : Newest(Y, l, n + 1 + 1, q[l])
    <3> SUFFICES ASSUME NEW l \in Locations PROVE Newest(Y, l, n + 1 + 1, q[l])
      OBVIOUS
    <3>1. CASE l = Real(st.target)
      <4>1. q[l] = n + 1 /\ q[l] < n + 1 + 1 /\ q[l] \in Nat
        BY <1>1, <3>1
      <4>2. \A w \in Y : w.id <= n + 1
        BY <1>1, <1>2
      <4> QED BY <3>1, <4>1, <4>2 DEF Newest
    <3>2. CASE l # Real(st.target)
      <4>1. q[l] = r[l]
        BY <1>1, <3>2
      <4>2. \A w \in Y : Real(w.target) = l => w \in X /\ w.id < n + 1
        BY <1>2, <3>2
      <4>3. r[l] < n + 1 + 1
        BY <1>1, <1>3
      <4> QED BY <1>3, <4>1, <4>2, <4>3 DEF Newest
    <3> QED BY <3>1, <3>2
  <2> HIDE DEF Y, q
  <2>5. \A s \in Y : Faithful(Y, n + 1, s)
    BY <2>2, <2>3 DEF Y
  <2>6. History(Y, n + 1, q)
    BY <1>1, <2>1, <2>4, <2>5 DEF History
  <2> QED BY <1>5, <2>6 DEF Y, q
<1> QED BY <1>4, <1>5

(* A numbered statement of a direct program is one, and sees what it reads.*)
LEMMA InstanceIsDirect ==
  ASSUME NEW s \in AllStatements, Direct(s), count \in Nat, count < MaxLength
  PROVE  LET st == Instance(s)
         IN  /\ Shaped(st) /\ Direct(st) /\ st.id = count + 1
             /\ st.sees = [l \in ReadLocations(st) |-> ref[l]]
             /\ Real(st.target) \in Locations /\ ReadLocations(st) \subseteq Locations
<1> DEFINE st == Instance(s)
<1>1. /\ st.id = count + 1 /\ st.how = s.how /\ st.target = s.target /\ st.reads = s.reads
      /\ st.self = s.self /\ st.sees = [l \in {Real(r) : r \in s.reads} |-> ref[l]]
  BY DEF Instance
<1>2. WellFormed(st)
  BY InstanceIsWellFormed
<1> HIDE DEF st
<1>3. ReadNames(st) = ReadNames(s)
  BY <1>1 DEF ReadNames
<1>4. Direct(st)
  BY <1>1, <1>3 DEF Direct
<1>5. ReadLocations(st) = {Real(r) : r \in s.reads}
  BY <1>1 DEF ReadLocations
<1>6. st.sees = [l \in ReadLocations(st) |-> ref[l]]
  BY <1>1, <1>5
<1>7. st.sees = [l \in ReadLocations(st) |-> st.sees[l]]
  BY <1>6
<1>8. Real(st.target) \in Locations /\ ReadLocations(st) \subseteq Locations
  BY <1>1, <1>5 DEF Locations
<1> QED BY <1>1, <1>2, <1>4, <1>6, <1>7, <1>8 DEF Shaped, st

-----------------------------------------------------------------------------
(* The build of a direct program.                                          *)
Issued == Listed(states) \cup Waiting(DOMAIN pending)
Drafting(U) ==
  /\ Universe(U) /\ Plan(U, states) /\ Queue(U)
  /\ Before(Listed(states), Queued(DOMAIN pending))
  /\ \A i \in DOMAIN pending : pending[i].id \in 1 .. count
  /\ History(Issued, count, ref)

LEMMA LargerDrafts ==
  ASSUME NEW U, Universe(U), NEW V, U \subseteq V
  PROVE  (\A all : Plan(U, all) => Plan(V, all)) /\ (Queue(U) => Queue(V))
<1>1. Graphs(U) \subseteq Graphs(V) /\ Statements(U) \subseteq Statements(V)
  BY LargerUniverse
<1>2. Drafts(U) \subseteq Drafts(V)
  BY <1>1 DEF Drafts
<1>3. ASSUME NEW all, Plan(U, all) PROVE Plan(V, all)
  <2>1. all \in Seq(Drafts(V))
    BY <1>2, <1>3 DEF Plan
  <2> QED BY <1>3, <2>1 DEF Plan
<1>4. ASSUME Queue(U) PROVE Queue(V)
  <2>1. pending \in Seq(Statements(V))
    BY <1>1, <1>4 DEF Queue
  <2> QED BY <1>4, <2>1 DEF Queue
<1> QED BY <1>3, <1>4

(* What a step does: the statement is listed behind all others, is dropped *)
(* or waits in the queue.                                                  *)
IsListed(V, st) ==
  Adds(V, FlushAndEnsure, states', IF st.self THEN {} ELSE {st}) /\ pending' = <<>>
IsDropped(st) == st.self /\ states' = states /\ pending' = pending
IsQueued(st) ==
  /\ st.how = "assign" /\ st.target[1] \notin Symbols
  /\ states' = states /\ pending' = Append(pending, st)
EmitsDirect(V, st) == IsListed(V, st) \/ IsDropped(st) \/ IsQueued(st)

LEMMA EmitOutcome ==
  ASSUME NEW s \in AllStatements, Emit(s), NEW V, Given(V, FlushAndEnsure, Instance(s))
  PROVE  EmitsDirect(V, Instance(s))
<1> DEFINE st == Instance(s)
           all == FlushAndEnsure
<1>1. \/ EmitSymbol(all, st)
      \/ EmitArray(all, st)
      \/ EmitScalar(st)
      \/ EmitCopy(all, st)
      \/ EmitMemset(all, st)
      \/ EmitLibcall(all, st)
      \/ EmitIo(all, st)
      \/ EmitMpi(all, st)
      \/ EmitCollective(all, st)
      \/ EmitBlas(all, st)
      \/ EmitLapack(all, st)
      \/ EmitFft(all, st)
  BY DEF Emit
<1>2. Given(V, all, st) /\ Direct(st) /\ (st.self => st.reads = {st.target})
  <2>1. st.self = s.self /\ st.reads = s.reads /\ st.target = s.target
    BY DEF Instance
  <2> HIDE DEF st
  <2> QED BY <2>1, StatementsAssumption DEF Given, st
<1> HIDE DEF st, all
<1> DEFINE S == IF st.self THEN {} ELSE {st}
<1>3. SUFFICES (Adds(V, all, states', S) /\ pending' = <<>>) \/ IsDropped(st) \/ IsQueued(st)
  BY DEF EmitsDirect, IsListed, st, all
<1>4. CASE EmitSymbol(all, st)
  <2>1. CASE st.self
    BY <1>4, <2>1 DEF EmitSymbol, IsDropped
  <2>2. CASE ~st.self
    BY <1>2, <1>4, <2>2, SymbolAdds DEF EmitSymbol
  <2> QED BY <2>1, <2>2
<1>5. CASE EmitArray(all, st)
  <2>1. Adds(V, all, states', {st})
    BY <1>2, <1>5, ArrayAdds
  <2>2. pending' = <<>>
    BY <1>5 DEF EmitArray
  <2>3. ~st.self
    <3> SUFFICES ASSUME st.self PROVE FALSE
      OBVIOUS
    <3>1. st.how = "assign" /\ st.target[1] \notin Symbols
          /\ (st.target[1] \in Named \/ ReadsArray(st))
      BY <1>5 DEF EmitArray
    <3>2. st.target[1] \in Scalars
      BY <1>2, <3>1 DEF Direct
    <3>3. ReadNames(st) \subseteq {st.target[1]}
      BY <1>2 DEF ReadNames
    <3> QED BY <3>1, <3>2, <3>3, NamesAssumption DEF ReadsArray
  <2> QED BY <2>1, <2>2, <2>3
<1>6. CASE EmitScalar(st)
  BY <1>6 DEF EmitScalar, IsQueued
<1>7. CASE EmitCopy(all, st)
  <2>1. pending' = <<>>
    BY <1>7 DEF EmitCopy
  <2> QED BY <1>2, <1>7, <2>1, CopyAdds
<1>8. CASE EmitMemset(all, st)
  <2>1. Adds(V, all, states', {st})
    BY <1>2, <1>8, FillAdds
  <2>2. pending' = <<>> /\ ~st.self
    BY <1>2, <1>8 DEF EmitMemset, Direct
  <2> QED BY <2>1, <2>2
<1>9. CASE EmitIo(all, st) \/ EmitMpi(all, st)
  <2>1. st.how \in {"io", "mpi"} /\ states' = OwnState(all, st) /\ pending' = <<>>
    BY <1>9 DEF EmitIo, EmitMpi
  <2>2. ~st.self
    BY <1>2, <2>1 DEF Direct
  <2> QED BY <1>2, <2>1, <2>2, CallAdds
<1>10. CASE \/ EmitLibcall(all, st) \/ EmitCollective(all, st) \/ EmitBlas(all, st)
            \/ EmitLapack(all, st) \/ EmitFft(all, st)
  BY <1>2, <1>10 DEF EmitLibcall, EmitCollective, EmitBlas, EmitLapack, EmitFft, Direct
<1> QED BY <1>1, <1>4, <1>5, <1>6, <1>7, <1>8, <1>9, <1>10

(* What is queued grows with the queue.                                    *)
LEMMA QueueGrows ==
  ASSUME NEW V, Queue(V), NEW st, st \in Statements(V), Direct(st),
         st.how = "assign", st.target[1] \notin Symbols,
         Before(Queued(DOMAIN pending), {st}), pending' = Append(pending, st)
  PROVE  /\ Queue(V)'
         /\ (Queued(DOMAIN pending))' = Queued(DOMAIN pending) \cup {st}
         /\ (Waiting(DOMAIN pending))' =
              Waiting(DOMAIN pending) \cup IF st.self THEN {} ELSE {st}
<1> DEFINE n == Len(pending)
<1>1. pending \in Seq(Statements(V)) /\ n \in Nat /\ DOMAIN pending = 1 .. n
  BY DEF Queue
<1>2. pending' \in Seq(Statements(V))
  BY <1>1
<1>3. /\ DOMAIN pending' = DOMAIN pending \cup {n + 1} /\ n + 1 \notin DOMAIN pending
      /\ \A i \in DOMAIN pending : pending'[i] = pending[i] /\ i < n + 1
      /\ pending'[n + 1] = st
  BY <1>1
<1> HIDE DEF n
<1>4. \A i \in DOMAIN pending : pending[i].id < st.id
  BY DEF Before, Queued
<1>5. \A i \in DOMAIN pending' : /\ Direct(pending'[i]) /\ pending'[i].how = "assign"
                                 /\ pending'[i].target[1] \notin Symbols
  BY <1>3 DEF Queue
<1>6. ASSUME NEW i \in DOMAIN pending', NEW j \in DOMAIN pending', i < j
      PROVE  pending'[i].id < pending'[j].id
  <2>1. i \in DOMAIN pending
    <3>1. CASE i = n + 1
      BY <1>1, <1>3, <1>6, <3>1 DEF n
    <3> QED BY <1>3, <3>1
  <2> QED BY <1>3, <1>4, <1>6, <2>1 DEF Queue
<1>7. Queue(V)'
  BY <1>2, <1>5, <1>6 DEF Queue
<1>8. (Queued(DOMAIN pending))' = Queued(DOMAIN pending) \cup {st}
  BY <1>3 DEF Queued
<1>9. (Waiting(DOMAIN pending))' =
              Waiting(DOMAIN pending) \cup IF st.self THEN {} ELSE {st}
  BY <1>3 DEF Waiting
<1> QED BY <1>7, <1>8, <1>9

(* A statement emitted keeps the plan and the history.                     *)
LEMMA EmitDrafts ==
  ASSUME NEW s \in AllStatements, Direct(s), Emit(s), NEW U, Drafting(U)
  PROVE  \E V : Drafting(V)'
<1> PICK st : st = Instance(s)
  OBVIOUS
<1> PICK V : V = Enlarged(U, st)
  OBVIOUS
<1> DEFINE all == FlushAndEnsure
           Y == IF st.self THEN Issued ELSE Issued \cup {st}
<1>0. st = Instance(s) /\ V = Enlarged(U, st)
  OBVIOUS
<1>1. count < MaxLength /\ count' = count + 1 /\ RefStep(st)
  BY <1>0 DEF Emit
<1>2. History(Issued, count, ref) /\ count \in Nat
  BY DEF Drafting, History
<1>3. /\ Shaped(st) /\ Direct(st) /\ st.id = count + 1
      /\ st.sees = [l \in ReadLocations(st) |-> ref[l]]
      /\ Real(st.target) \in Locations /\ ReadLocations(st) \subseteq Locations
  BY <1>0, <1>1, <1>2, InstanceIsDirect
<1>4. U \subseteq V /\ Universe(V) /\ Statement(V, st)
  BY <1>0, <1>3, EnlargedHolds DEF Drafting, Shaped
<1>5. Plan(V, states) /\ Queue(V) /\ Before(Listed(states), Queued(DOMAIN pending))
  BY <1>4, LargerDrafts DEF Drafting
<1>6. Plan(V, all) /\ Listed(all) = Issued
  BY <1>4, <1>5, FlushedPlan DEF Issued
<1> HIDE DEF all
<1>7. \A w \in Issued : w.id < st.id
  BY <1>2, <1>3 DEF History, Faithful
<1>8. Given(V, all, st)
  BY <1>3, <1>4, <1>6, <1>7 DEF Given, Before
<1>9. EmitsDirect(V, st)
  BY <1>0, <1>8, EmitOutcome DEF all
<1>10. History(Y, count', ref')
  <2>1. ref' = IF st.self THEN ref ELSE [ref EXCEPT ![Real(st.target)] = st.id]
    BY <1>1 DEF RefStep
  <2>2. History(Y, count + 1, IF st.self THEN ref ELSE [ref EXCEPT ![Real(st.target)] = st.id])
    BY <1>2, <1>3, HistoryGrows
  <2> QED BY <1>1, <2>1, <2>2
<1>11. SUFFICES Drafting(V)'
  OBVIOUS
<1>12. CASE IsListed(V, st)
  <2>1. Plan(V, states') /\ Listed(states') = Issued \cup (IF st.self THEN {} ELSE {st})
    BY <1>6, <1>12 DEF IsListed, Adds, all
  <2>2. pending' = <<>>
    BY <1>12 DEF IsListed
  <2>3. Queue(V)'
    BY <2>2 DEF Queue
  <2>4. (Queued(DOMAIN pending))' = {} /\ (Waiting(DOMAIN pending))' = {}
    BY <2>2 DEF Queued, Waiting
  <2>5. Issued' = Y
    BY <2>1, <2>4 DEF Issued
  <2>6. Before(Listed(states'), {})
    BY DEF Before
  <2>7. \A i \in DOMAIN pending' : pending'[i].id \in 1 .. count'
    BY <2>2
  <2>8. History(Issued', count', ref')
    BY <1>10, <2>5
  <2> HIDE DEF Y
  <2> QED BY <1>4, <2>1, <2>3, <2>4, <2>6, <2>7, <2>8 DEF Drafting
<1>13. CASE IsDropped(st)
  <2>1. states' = states /\ pending' = pending /\ st.self
    BY <1>13 DEF IsDropped
  <2>2. Queue(V)' /\ Plan(V, states')
    BY <1>5, <2>1 DEF Queue
  <2>3. (Queued(DOMAIN pending))' = Queued(DOMAIN pending)
        /\ (Waiting(DOMAIN pending))' = Waiting(DOMAIN pending)
    BY <2>1 DEF Queued, Waiting
  <2>4. Issued' = Y
    BY <2>1, <2>3 DEF Issued
  <2>5. \A i \in DOMAIN pending' : pending'[i].id \in 1 .. count'
    <3>1. \A i \in DOMAIN pending : pending[i].id \in 1 .. count
      BY DEF Drafting
    <3> QED BY <1>1, <1>2, <2>1, <3>1
  <2>6. History(Issued', count', ref')
    BY <1>10, <2>4
  <2>7. Before(Listed(states'), Queued(DOMAIN pending)')
    BY <1>5, <2>1, <2>3
  <2> HIDE DEF Y
  <2> QED BY <1>4, <2>2, <2>3, <2>5, <2>6, <2>7 DEF Drafting
<1>14. CASE IsQueued(st)
  <2>1. /\ states' = states /\ pending' = Append(pending, st) /\ st.how = "assign"
        /\ st.target[1] \notin Symbols
    BY <1>14 DEF IsQueued
  <2>2. \A i \in DOMAIN pending : pending[i].id \in 1 .. count
    BY DEF Drafting
  <2>3. Before(Queued(DOMAIN pending), {st})
    BY <1>2, <1>3, <2>2 DEF Before, Queued
  <2>4. st \in Statements(V)
    BY <1>4 DEF Statements, Statement
  <2>5. /\ Queue(V)'
        /\ (Queued(DOMAIN pending))' = Queued(DOMAIN pending) \cup {st}
        /\ (Waiting(DOMAIN pending))' =
             Waiting(DOMAIN pending) \cup IF st.self THEN {} ELSE {st}
    BY <1>3, <1>5, <2>1, <2>3, <2>4, QueueGrows
  <2>6. Issued' = Y
    BY <2>1, <2>5 DEF Issued
  <2>7. \A q \in Queued(DOMAIN pending) \cup {st} : q.id \in 1 .. count'
    BY <1>1, <1>2, <1>3, <2>2 DEF Queued
  <2>8. \A i \in DOMAIN pending' : pending'[i].id \in 1 .. count'
    BY <2>5, <2>7 DEF Queued
  <2>9. History(Issued', count', ref')
    BY <1>10, <2>6
  <2>10. Before(Listed(states'), Queued(DOMAIN pending)')
    <3>1. \A w \in Listed(states) : w.id < st.id
      BY <1>7 DEF Issued
    <3> QED BY <1>5, <2>1, <2>5, <3>1 DEF Before
  <2>11. Plan(V, states')
    BY <1>5, <2>1
  <2> HIDE DEF Y
  <2> QED BY <1>4, <2>5, <2>8, <2>9, <2>10, <2>11 DEF Drafting
<1> QED BY <1>9, <1>12, <1>13, <1>14 DEF EmitsDirect

(* At the start there is nothing.                                          *)
LEMMA InitDrafts == Init => \E U : Drafting(U)
<1> SUFFICES ASSUME Init PROVE \E U : Drafting(U)
  OBVIOUS
<1> DEFINE U == {NoStatement, "read", "all", "order"} \cup Named
<1>1. Universe(U) /\ NoStatement \in U
  BY DEF Universe
<1> HIDE DEF U
<1>2. EmptyState \in Drafts(U) /\ Work(EmptyState) = {}
  BY <1>1, FreshDraft DEF EmptyState
<1>3. states = <<EmptyState>> /\ pending = <<>> /\ count = 0 /\ ref = [l \in Locations |-> 0]
  BY DEF Init
<1> HIDE DEF Init
<1>4. DOMAIN states = {1} /\ states[1] = EmptyState
  BY <1>3
<1>5. Listed(states) = {} /\ InTurn(states)
  BY <1>2, <1>4 DEF Listed, InTurn
<1>6. Plan(U, states)
  <2>1. EmptyState.entry = NoStatement
    BY DEF EmptyState, StateAfter
  <2> QED BY <1>2, <1>3, <1>5, <2>1 DEF Plan
<1>7. Queue(U) /\ Issued = {} /\ Queued(DOMAIN pending) = {}
  BY <1>3, <1>5 DEF Queue, Issued, Queued, Waiting
<1>8. History({}, 0, ref)
  BY <1>3 DEF History, Newest
<1>9. \A i \in DOMAIN pending : pending[i].id \in 1 .. count
  BY <1>3
<1>10. History(Issued, count, ref)
  BY <1>3, <1>7, <1>8
<1>11. Before(Listed(states), Queued(DOMAIN pending))
  BY <1>5 DEF Before
<1> QED BY <1>1, <1>6, <1>7, <1>9, <1>10, <1>11 DEF Drafting

-----------------------------------------------------------------------------
(* The run of a direct program.                                            *)

(* A state the run meets: the statements of its nodes are in sequence, and *)
(* of two that conflict the earlier one leads to the later one.            *)
Scheduled(g) ==
  /\ InSequence(g) /\ Apart(g) /\ CodeNodes(g) \subseteq Nat
  /\ \A t \in CodeNodes(g) : Dataflow(g.nodes[t].stmt)
  /\ \A t, u \in CodeNodes(g) :
       t < u /\ Conflicting(g.nodes[t].stmt, g.nodes[u].stmt) => u \in Descendants(g, t)

(* The states of a program of n statements that leaves r.                  *)
Scheduling(all, n, r) ==
  /\ Len(all) \in Nat /\ DOMAIN all = 1 .. Len(all) /\ InTurn(all)
  /\ \A i \in DOMAIN all : Scheduled(all[i])
  /\ History(Listed(all), n, r)

(* The ordering pass makes one of a state of the plan.                     *)
LEMMA OrderStateSchedules ==
  ASSUME NEW U, NEW g \in Drafts(U)
  PROVE  LET h == OrderState(g)
         IN  Scheduled(h) /\ Work(h) = Work(g) /\ h.entry = g.entry
<1> DEFINE h == OrderState(g)
<1>1. g \in Graphs(U) /\ Sound(g)
  BY DEF Drafts
<1>2. IsGraph(g)
  BY <1>1, GraphsAreGraphs
<1>3. h.nodes = g.nodes /\ h.entry = g.entry
  BY <1>2, OrderStateKeeps
<1>4. ASSUME NEW t \in CodeNodes(g), NEW u \in CodeNodes(g), t < u,
             Conflicting(g.nodes[t].stmt, g.nodes[u].stmt)
      PROVE  u \in Descendants(h, t)
  <2>1. Tidy(g) /\ \A c \in CodeNodes(g) : Plain(g.nodes[c].stmt)
    BY <1>1 DEF Sound, Dataflow
  <2> QED BY <1>4, <2>1, ConflictsOrdered
<1> HIDE DEF h
<1>5. CodeNodes(h) = CodeNodes(g)
  BY <1>3 DEF CodeNodes, DataNodes
<1>6. CodeNodes(g) \subseteq Nat
  BY <1>2 DEF IsGraph, Wired, CodeNodes
<1>7. Carried(h, CodeNodes(h)) = Carried(g, CodeNodes(g)) /\ Entry(h) = Entry(g)
  BY <1>3, <1>5 DEF Carried, Entry
<1>8. InSequence(h) /\ Apart(h)
  BY <1>1, <1>3, <1>5, <1>7 DEF Sound, InSequence, Apart
<1>9. \A t \in CodeNodes(h) : Dataflow(h.nodes[t].stmt)
  BY <1>1, <1>3, <1>5 DEF Sound
<1>10. Scheduled(h)
  BY <1>3, <1>4, <1>5, <1>6, <1>8, <1>9 DEF Scheduled
<1> QED BY <1>3, <1>7, <1>10 DEF Work, h

(* What has been executed when the nodes T of state i have run.            *)
Executed(all, i, T) ==
  (UNION {Work(all[j]) : j \in {k \in DOMAIN all : k < i}})
    \cup Entry(all[i]) \cup Carried(all[i], T)

(* No node that is left leads to one that has run.                         *)
NoneLeftBefore(g, T) ==
  /\ T \subseteq CodeNodes(g)
  /\ \A t \in T, u \in CodeNodes(g) \ T : t \notin Descendants(g, u)

(* Everything before st that assigns what it touches has been executed,    *)
(* and nothing behind it.                                                  *)
Due(L, X, st) ==
  /\ X \subseteq L /\ st \in L
  /\ \A w \in X : Real(w.target) \in Touching(st) => w.id < st.id
  /\ \A w \in L : Real(w.target) \in Touching(st) /\ w.id < st.id => w \in X

(* What has been executed is part of the program.                          *)
LEMMA ExecutedIsListed ==
  ASSUME NEW all, NEW i \in DOMAIN all, NEW T \in SUBSET CodeNodes(all[i])
  PROVE  Executed(all, i, T) \subseteq Listed(all)
<1>1. Entry(all[i]) \cup Carried(all[i], T) \subseteq Work(all[i])
  BY DEF Work, Carried
<1> QED BY <1>1 DEF Executed, Listed

(* Two nodes of one state, one of which assigns what the other touches.    *)
LEMMA TouchedIsOrdered ==
  ASSUME NEW g, Scheduled(g), NEW t \in CodeNodes(g), NEW u \in CodeNodes(g), t # u,
         Real(g.nodes[u].stmt.target) \in Touching(g.nodes[t].stmt)
  PROVE  /\ t < u => u \in Descendants(g, t)
         /\ u < t => t \in Descendants(g, u)
         /\ t < u \/ u < t
<1> DEFINE s == g.nodes[t].stmt
           w == g.nodes[u].stmt
<1>1. Dataflow(w) /\ Dataflow(s)
  BY DEF Scheduled
<1>2. w.target[1] \notin Outside
  BY DEF Scheduled, Apart
<1> HIDE DEF s, w
<1>3. Stores(w)
  BY <1>1, <1>2 DEF Stores, Dataflow
<1>4. Conflicting(s, w) /\ Conflicting(w, s)
  BY <1>3 DEF Conflicting, StoresInto, Touching, s, w
<1>5. t \in Nat /\ u \in Nat
  BY DEF Scheduled
<1> QED BY <1>4, <1>5 DEF Scheduled, s, w

(* A node that waits for no other is due.                                  *)
LEMMA ReadyIsDue ==
  ASSUME NEW all, NEW n, NEW r, Scheduling(all, n, r), NEW i \in DOMAIN all, NEW T,
         NoneLeftBefore(all[i], T), NEW t \in Ready(all[i], T)
  PROVE  Due(Listed(all), Executed(all, i, T), all[i].nodes[t].stmt)
<1> DEFINE g == all[i]
           st == g.nodes[t].stmt
           X == Executed(all, i, T)
           L == Listed(all)
<1>1. /\ Scheduled(g) /\ InTurn(all) /\ T \subseteq CodeNodes(g) /\ t \in CodeNodes(g) \ T
      /\ \A u \in CodeNodes(g) \ T : t \notin Descendants(g, u)
      /\ \A u \in T : u \notin Descendants(g, t)
  BY DEF Scheduling, NoneLeftBefore, Ready
<1>2. \A k \in DOMAIN all : k \in Nat
  BY DEF Scheduling
<1>3. \A w \in L : w.id \in Nat
  BY DEF Scheduling, History, Faithful
<1>4. st \in Carried(g, CodeNodes(g)) /\ st \in Work(g)
  BY <1>1 DEF Work, Carried
<1>5. st \in L
  BY <1>4 DEF Listed
<1>6. X \subseteq L
  BY <1>1, ExecutedIsListed
<1> HIDE DEF L
<1>7. ASSUME NEW u \in CodeNodes(g), u # t, Real(g.nodes[u].stmt.target) \in Touching(st)
      PROVE  /\ u \in T => g.nodes[u].stmt.id < st.id
             /\ u \notin T => st.id < g.nodes[u].stmt.id
  <2>1. /\ t < u => u \in Descendants(g, t)
        /\ u < t => t \in Descendants(g, u)
        /\ t < u \/ u < t
    BY <1>1, <1>7, TouchedIsOrdered
  <2>2. /\ u < t => g.nodes[u].stmt.id < st.id
        /\ t < u => st.id < g.nodes[u].stmt.id
    BY <1>1 DEF Scheduled, InSequence
  <2> QED BY <1>1, <2>1, <2>2
<1> HIDE DEF st
<1>8. ASSUME NEW w \in X, Real(w.target) \in Touching(st) PROVE w.id < st.id
  <2>1. CASE \E k \in DOMAIN all : k < i /\ w \in Work(all[k])
    BY <1>1, <1>4, <2>1 DEF InTurn, Before
  <2>2. CASE w \in Entry(g)
    BY <1>1, <1>4, <2>2 DEF Scheduled, InSequence, Before
  <2>3. CASE w \in Carried(g, T)
    <3>1. PICK u \in T : w = g.nodes[u].stmt
      BY <2>3 DEF Carried
    <3> QED BY <1>1, <1>7, <1>8, <3>1
  <2> QED BY <2>1, <2>2, <2>3 DEF Executed
<1>9. ASSUME NEW w \in L, Real(w.target) \in Touching(st), w.id < st.id PROVE w \in X
  <2>1. PICK k \in DOMAIN all : w \in Work(all[k])
    BY DEF L, Listed
  <2>2. ~(st.id < w.id)
    BY <1>3, <1>5, <1>9
  <2>3. CASE k < i
    BY <2>1, <2>3 DEF Executed
  <2>4. CASE i < k
    BY <1>1, <1>4, <2>1, <2>2, <2>4 DEF InTurn, Before
  <2>5. CASE k = i
    <3>1. CASE w \in Entry(g)
      BY <3>1 DEF Executed
    <3>2. CASE w \in Carried(g, CodeNodes(g))
      <4>1. PICK u \in CodeNodes(g) : w = g.nodes[u].stmt
        BY <3>2 DEF Carried
      <4>2. u # t
        BY <1>3, <1>5, <1>9, <4>1 DEF st
      <4>3. u \in T
        BY <1>7, <1>9, <2>2, <4>1, <4>2
      <4>4. w \in Carried(g, T)
        BY <4>1, <4>3 DEF Carried
      <4> QED BY <4>4 DEF Executed
    <3> QED BY <2>1, <2>5, <3>1, <3>2 DEF Work
  <2> QED BY <1>2, <2>3, <2>4, <2>5
<1> HIDE DEF X
<1>10. Due(L, X, st)
  BY <1>5, <1>6, <1>8, <1>9 DEF Due
<1> QED BY <1>10 DEF L, X, st

(* So is the statement on the edge into the next state.                    *)
LEMMA EntryIsDue ==
  ASSUME NEW all, NEW n, NEW r, Scheduling(all, n, r), NEW i \in DOMAIN all,
         i + 1 \in DOMAIN all, NEW st \in Entry(all[i + 1])
  PROVE  Due(Listed(all), Executed(all, i, CodeNodes(all[i])), st)
<1> DEFINE X == Executed(all, i, CodeNodes(all[i]))
           L == Listed(all)
<1>1. InTurn(all) /\ Scheduled(all[i + 1]) /\ \A k \in DOMAIN all : k \in Nat
  BY DEF Scheduling
<1>2. \A w \in L : w.id \in Nat
  BY DEF Scheduling, History, Faithful
<1>3. st \in Work(all[i + 1])
  BY DEF Work
<1>4. st \in L
  BY <1>3 DEF Listed
<1>5. X \subseteq L
  BY ExecutedIsListed
<1>6. ASSUME NEW w \in X PROVE \E k \in DOMAIN all : k < i + 1 /\ w \in Work(all[k])
  <2>1. CASE \E k \in DOMAIN all : k < i /\ w \in Work(all[k])
    BY <1>1, <2>1
  <2>2. CASE w \in Work(all[i])
    BY <1>1, <2>2
  <2> QED BY <2>1, <2>2 DEF Executed, Work
<1>7. \A w \in X : w.id < st.id
  BY <1>1, <1>3, <1>6 DEF InTurn, Before
<1> HIDE DEF L
<1>8. ASSUME NEW w \in L, w.id < st.id PROVE w \in X
  <2>1. PICK k \in DOMAIN all : w \in Work(all[k])
    BY DEF L, Listed
  <2>2. ~(st.id < w.id) /\ w # st
    BY <1>2, <1>4, <1>8
  <2>3. CASE k < i \/ k = i
    BY <2>1, <2>3 DEF Executed, Work
  <2>4. CASE i + 1 < k
    BY <1>1, <1>3, <2>1, <2>2, <2>4 DEF InTurn, Before
  <2>5. CASE k = i + 1
    <3>1. CASE w \in Entry(all[i + 1])
      BY <2>2, <3>1 DEF Entry
    <3>2. CASE w \in Carried(all[i + 1], CodeNodes(all[i + 1]))
      BY <1>1, <2>2, <3>2 DEF Scheduled, InSequence, Before
    <3> QED BY <2>1, <2>5, <3>1, <3>2 DEF Work
  <2> QED BY <1>1, <2>3, <2>4, <2>5
<1> HIDE DEF X
<1>9. Due(L, X, st)
  BY <1>4, <1>5, <1>7, <1>8 DEF Due
<1> QED BY <1>9 DEF X, L

(* The memory holds what the statements X have left.                       *)
Remembers(X, n, m) ==
  /\ m \in [Locations \cup MintedLocations -> Nat]
  /\ \A l \in Locations : Newest(X, l, n + 1, m[l])

(* A statement that is due reads what Fortran would have it read.          *)
LEMMA DueReadsRight ==
  ASSUME NEW L, NEW X, NEW n, NEW r, History(L, n, r), NEW st, Due(L, X, st),
         NEW m, Remembers(X, n, m)
  PROVE  /\ \A l \in DOMAIN st.sees : m[l] = st.sees[l]
         /\ Remembers(X \cup {st}, n, [m EXCEPT ![Real(st.target)] = st.id])
<1>1. Faithful(L, n, st) /\ X \subseteq L /\ st \in L /\ n \in Nat
  BY DEF History, Due
<1>2. st.id \in 1 .. n /\ Real(st.target) \in Locations /\ DOMAIN st.sees = ReadLocations(st)
  BY <1>1 DEF Faithful
<1>3. \A w \in L : w.id \in Nat \ {0} /\ w.id < n + 1
  BY <1>1 DEF History, Faithful
<1>4. ASSUME NEW l \in ReadLocations(st) PROVE m[l] = st.sees[l]
  <2>1. l \in Locations /\ Newest(L, l, st.id, st.sees[l]) /\ Newest(X, l, n + 1, m[l])
    BY <1>1 DEF Faithful, Remembers
  <2>2. \A w \in X \cup L : w.id \in Nat \ {0}
    BY <1>1, <1>3
  <2>3. \A w \in X : Real(w.target) = l /\ w.id < n + 1 => w \in L /\ w.id < st.id
    BY <1>1 DEF Due, Touching
  <2>4. \A w \in L : Real(w.target) = l /\ w.id < st.id => w \in X /\ w.id < n + 1
    BY <1>3 DEF Due, Touching
  <2>5. n + 1 \in Nat /\ st.id \in Nat
    BY <1>1, <1>2
  <2> QED BY <2>1, <2>2, <2>3, <2>4, <2>5, OneNewest
<1> DEFINE k == Real(st.target)
           q == [m EXCEPT ![k] = st.id]
           Y == X \cup {st}
<1>5. q \in [Locations \cup MintedLocations -> Nat]
  BY <1>1, <1>2 DEF Remembers
<1>6. ASSUME NEW l \in Locations PROVE Newest(Y, l, n + 1, q[l])
  <2>1. m \in [Locations \cup MintedLocations -> Nat] /\ Newest(X, l, n + 1, m[l])
    BY DEF Remembers
  <2>2. st.id \in Nat /\ st.id < n + 1
    BY <1>1, <1>2
  <2>3. CASE l = k
    <3>1. q[l] = st.id
      BY <2>1, <2>3
    <3>2. \A w \in X : Real(w.target) = l => w.id <= st.id
      <4> SUFFICES ASSUME NEW w \in X, Real(w.target) = l PROVE w.id <= st.id
        OBVIOUS
      <4>1. w.id < st.id /\ w.id \in Nat
        BY <1>1, <1>3, <2>3 DEF Due, Touching
      <4> QED BY <2>2, <4>1
    <3> QED BY <2>2, <2>3, <3>1, <3>2 DEF Newest
  <2>4. CASE l # k
    <3>1. q[l] = m[l]
      BY <2>1, <2>4
    <3>2. \A w \in Y : Real(w.target) = l => w \in X
      BY <2>4
    <3> QED BY <2>1, <3>1, <3>2 DEF Newest
  <2> QED BY <2>3, <2>4
<1> HIDE DEF q, Y
<1>7. Remembers(Y, n, q)
  BY <1>5, <1>6 DEF Remembers
<1> QED BY <1>2, <1>4, <1>7 DEF q, Y

(* What SequentialSemantics rests on, for a direct program: while its      *)
(* statements are emitted, Drafting; while the code runs, the memory holds *)
(* what sequential Fortran has left after the statements that have run,    *)
(* and all reads were right.                                               *)
DirectProgram == \A s \in Codes[code] : Direct(s)
DraftInv ==
  phase = "emit" =>
    /\ at = 1 /\ done = {} /\ misread = FALSE
    /\ mem = [l \in Locations \cup MintedLocations |-> 0]
    /\ \E U : Drafting(U)
MemoryInv ==
  phase = "run" =>
    /\ Scheduling(states, count, ref) /\ at \in DOMAIN states
    /\ NoneLeftBefore(states[at], done)
    /\ Remembers(Executed(states, at, done), count, mem) /\ misread = FALSE
DirectInv ==
  PhaseInv /\ code \in DOMAIN Codes /\ (DirectProgram => DraftInv /\ MemoryInv)

(* The build ends with states that can be run.                             *)
LEMMA FinishBuildSchedules ==
  ASSUME FinishBuild, NEW U, Drafting(U)
  PROVE  Scheduling(states', count, ref) /\ Entry(states'[1]) = {} /\ 1 \in DOMAIN states'
<1> DEFINE all == FlushAndEnsure
           H == {OrderState(all[i]) : i \in DOMAIN all}
<1>1. Plan(U, all) /\ Listed(all) = Issued
  BY FlushedPlan DEF Drafting, Issued
<1>2. History(Issued, count, ref)
  BY DEF Drafting
<1>3. states' = [i \in DOMAIN all |-> OrderState(all[i])]
  BY DEF FinishBuild
<1> HIDE DEF all
<1>4. /\ Len(all) \in Nat \ {0} /\ DOMAIN all = 1 .. Len(all) /\ InTurn(all)
      /\ all[1].entry = NoStatement /\ \A i \in DOMAIN all : all[i] \in Drafts(U)
  BY <1>1 DEF Plan
<1>5. /\ DOMAIN states' = DOMAIN all
      /\ \A i \in DOMAIN all : Scheduled(states'[i]) /\ Work(states'[i]) = Work(all[i])
                               /\ states'[i].entry = all[i].entry
  BY <1>3, <1>4, OrderStateSchedules
<1>6. states' \in Seq(H) /\ Len(states') = Len(all)
  <2>1. states' \in [1 .. Len(all) -> H]
    BY <1>3, <1>4
  <2> QED BY <1>4, <1>5, <2>1
<1>7. Listed(states') = Issued /\ InTurn(states')
  BY <1>1, <1>4, <1>5 DEF Listed, InTurn
<1>8. 1 \in DOMAIN states' /\ states'[1].entry = NoStatement
  BY <1>4, <1>5
<1>9. Entry(states'[1]) = {}
  BY <1>8 DEF Entry
<1>10. Scheduling(states', count, ref)
  BY <1>2, <1>4, <1>5, <1>6, <1>7 DEF Scheduling
<1> QED BY <1>8, <1>9, <1>10

(* At the start.                                                           *)
LEMMA DirectInvInit == Init => DirectInv
<1> SUFFICES ASSUME Init PROVE DirectInv
  OBVIOUS
<1>1. \E U : Drafting(U)
  BY InitDrafts
<1> QED BY <1>1 DEF Init, DirectInv, DraftInv, MemoryInv, PhaseInv

(* The run executes a statement that is due.                               *)
LEMMA ExecuteRemembers ==
  ASSUME NEW all, NEW n, NEW r, Scheduling(all, n, r), NEW X, Remembers(X, n, mem),
         misread = FALSE, NEW st, Due(Listed(all), X, st), Execute(st)
  PROVE  Remembers(X \cup {st}, n, mem') /\ misread' = FALSE
<1>1. History(Listed(all), n, r)
  BY DEF Scheduling
<1>2. /\ \A l \in DOMAIN st.sees : mem[l] = st.sees[l]
      /\ Remembers(X \cup {st}, n, [mem EXCEPT ![Real(st.target)] = st.id])
  BY <1>1, DueReadsRight
<1> QED BY <1>2 DEF Execute

(* A node that has run, in the order the code may choose.                  *)
LEMMA RunNodeRemembers ==
  ASSUME MemoryInv, RunNode
  PROVE  MemoryInv'
<1> DEFINE g == states[at]
<1>1. /\ phase = "run" /\ states' = states /\ count' = count /\ ref' = ref /\ at' = at
      /\ \E t \in Ready(g, done) : Execute(g.nodes[t].stmt) /\ done' = done \cup {t}
  BY DEF RunNode, buildVars
<1>2. PICK t \in Ready(g, done) : Execute(g.nodes[t].stmt) /\ done' = done \cup {t}
  BY <1>1
<1>3. /\ Scheduling(states, count, ref) /\ at \in DOMAIN states /\ NoneLeftBefore(g, done)
      /\ Remembers(Executed(states, at, done), count, mem) /\ misread = FALSE
  BY <1>1 DEF MemoryInv
<1> DEFINE st == g.nodes[t].stmt
           X == Executed(states, at, done)
<1>4. Due(Listed(states), X, st)
  BY <1>3, ReadyIsDue
<1>5. Execute(st) /\ Remembers(X, count, mem)
  BY <1>2, <1>3
<1>6. X \cup {st} = Executed(states, at, done \cup {t})
  <2>1. Carried(g, done \cup {t}) = Carried(g, done) \cup {st}
    BY DEF Carried
  <2> QED BY <2>1 DEF Executed
<1>7. NoneLeftBefore(g, done \cup {t})
  BY <1>3 DEF NoneLeftBefore, Ready
<1> HIDE DEF st, X
<1>8. Remembers(X \cup {st}, count, mem') /\ misread' = FALSE
  BY <1>3, <1>4, <1>5, ExecuteRemembers
<1> HIDE DEF g
<1> QED BY <1>1, <1>2, <1>3, <1>6, <1>7, <1>8 DEF MemoryInv, g

(* The edge into the next state.                                           *)
LEMMA NextStateRemembers ==
  ASSUME MemoryInv, NextState
  PROVE  MemoryInv'
<1> DEFINE g == states[at]
           h == states[at + 1]
           X == Executed(states, at, CodeNodes(g))
<1>1. /\ phase = "run" /\ states' = states /\ count' = count /\ ref' = ref /\ phase' = phase
      /\ at < Len(states) /\ done = CodeNodes(g) /\ at' = at + 1 /\ done' = {}
      /\ IF h.entry = NoStatement THEN UNCHANGED <<mem, misread>> ELSE Execute(h.entry)
  BY DEF NextState, buildVars
<1>2. /\ Scheduling(states, count, ref) /\ at \in DOMAIN states
      /\ Remembers(X, count, mem) /\ misread = FALSE
  BY <1>1 DEF MemoryInv
<1>3. at \in Nat /\ at + 1 \in DOMAIN states /\ \A k \in DOMAIN states : k \in Nat
  BY <1>1, <1>2 DEF Scheduling
<1>4. Executed(states, at + 1, {}) = X \cup Entry(h)
  <2>1. {k \in DOMAIN states : k < at + 1} = {k \in DOMAIN states : k < at} \cup {at}
    BY <1>2, <1>3
  <2>2. Carried(h, {}) = {}
    BY DEF Carried
  <2>3. Work(g) = Entry(g) \cup Carried(g, CodeNodes(g))
    BY DEF Work
  <2>4. (UNION {Work(states[j]) : j \in {k \in DOMAIN states : k < at + 1}})
          = (UNION {Work(states[j]) : j \in {k \in DOMAIN states : k < at}}) \cup Work(g)
    BY <2>1
  <2> QED BY <2>2, <2>3, <2>4 DEF Executed
<1>5. Remembers(X \cup Entry(h), count, mem') /\ misread' = FALSE
  <2>1. CASE h.entry = NoStatement
    <3>1. X \cup Entry(h) = X
      BY <2>1 DEF Entry
    <3> QED BY <1>1, <1>2, <2>1, <3>1
  <2>2. CASE h.entry # NoStatement
    <3> DEFINE st == h.entry
    <3>1. st \in Entry(h) /\ Entry(h) = {st} /\ Execute(st)
      BY <1>1, <2>2 DEF Entry
    <3>2. Due(Listed(states), X, st)
      BY <1>2, <1>3, <3>1, EntryIsDue
    <3> HIDE DEF X, st
    <3>3. Remembers(X \cup {st}, count, mem') /\ misread' = FALSE
      BY <1>2, <3>1, <3>2, ExecuteRemembers
    <3> QED BY <3>1, <3>3
  <2> QED BY <2>1, <2>2
<1>6. NoneLeftBefore(h, {})
  BY DEF NoneLeftBefore
<1> HIDE DEF h, X
<1> QED BY <1>1, <1>2, <1>3, <1>4, <1>5, <1>6 DEF MemoryInv, h

(* Every step keeps it.                                                    *)
LEMMA DirectInvStep == DirectInv /\ [Next]_vars => DirectInv'
<1> SUFFICES ASSUME DirectInv, [Next]_vars PROVE DirectInv'
  OBVIOUS
<1>1. code' = code /\ PhaseInv' /\ code' \in DOMAIN Codes
  <2>1. CASE \E s \in Codes[code] : Emit(s)
    BY <2>1 DEF Emit, DirectInv, PhaseInv
  <2>2. CASE FinishBuild \/ RunNode \/ NextState \/ UNCHANGED vars
    BY <2>2 DEF FinishBuild, RunNode, NextState, buildVars, vars, DirectInv, PhaseInv
  <2> QED BY <2>1, <2>2 DEF Next
<1> SUFFICES ASSUME DirectProgram PROVE DraftInv' /\ MemoryInv'
  BY <1>1 DEF DirectInv, DirectProgram
<1>2. DraftInv /\ MemoryInv /\ code \in DOMAIN Codes
  BY DEF DirectInv
<1>3. ASSUME NEW s \in Codes[code], Emit(s) PROVE DraftInv' /\ MemoryInv'
  <2>1. s \in AllStatements
    BY <1>2 DEF AllStatements, Range
  <2>2. phase = "emit" /\ phase' = "emit" /\ UNCHANGED <<code, at, done, mem, misread>>
    BY <1>3 DEF Emit
  <2>3. PICK U : Drafting(U)
    BY <1>2, <2>2 DEF DraftInv
  <2>4. \E V : Drafting(V)'
    BY <1>3, <2>1, <2>3, EmitDrafts DEF DirectProgram
  <2>5. DraftInv'
    BY <1>2, <2>2, <2>4 DEF DraftInv
  <2>6. MemoryInv'
    BY <2>2 DEF MemoryInv
  <2> QED BY <2>5, <2>6
<1>4. CASE FinishBuild
  <2>1. /\ phase = "emit" /\ phase' = "run"
        /\ UNCHANGED <<code, count, ref, at, done, mem, misread>>
    BY <1>4 DEF FinishBuild
  <2>2. /\ at = 1 /\ done = {} /\ misread = FALSE
        /\ mem = [l \in Locations \cup MintedLocations |-> 0]
    BY <1>2, <2>1 DEF DraftInv
  <2>3. PICK U : Drafting(U)
    BY <1>2, <2>1 DEF DraftInv
  <2>4. Scheduling(states', count, ref) /\ Entry(states'[1]) = {} /\ 1 \in DOMAIN states'
    BY <1>4, <2>3, FinishBuildSchedules
  <2>5. Executed(states', 1, {}) = {}
    <3>1. {k \in DOMAIN states' : k < 1} = {}
      BY <2>4 DEF Scheduling
    <3> QED BY <2>4, <3>1 DEF Executed, Carried
  <2>6. count \in Nat
    BY <2>4 DEF Scheduling, History
  <2>7. Remembers({}, count, mem)
    BY <2>2, <2>6 DEF Remembers, Newest
  <2>8. NoneLeftBefore(states'[1], {})
    BY DEF NoneLeftBefore
  <2>9. MemoryInv'
    BY <2>1, <2>2, <2>4, <2>5, <2>7, <2>8 DEF MemoryInv
  <2> QED BY <2>1, <2>9 DEF DraftInv
<1>5. CASE RunNode
  <2>1. phase' = "run"
    BY <1>5 DEF RunNode, buildVars
  <2> QED BY <1>2, <1>5, <2>1, RunNodeRemembers DEF DraftInv
<1>6. CASE NextState
  <2>1. phase' = "run"
    BY <1>6 DEF NextState, buildVars
  <2> QED BY <1>2, <1>6, <2>1, NextStateRemembers DEF DraftInv
<1>7. CASE UNCHANGED vars
  <2>1. UNCHANGED <<code, states, pending, count, ref, phase, at, done, mem, misread>>
    BY <1>7 DEF vars
  <2>2. ASSUME NEW U, Drafting(U) PROVE Drafting(U)'
    BY <2>1, <2>2 DEF Drafting, Queue, Queued, Waiting, Issued
  <2>3. DraftInv'
    BY <1>2, <2>1, <2>2 DEF DraftInv
  <2>4. MemoryInv'
    BY <1>2, <2>1 DEF MemoryInv
  <2> QED BY <2>3, <2>4
<1> QED BY <1>3, <1>4, <1>5, <1>6, <1>7 DEF Next

(* When everything has run, the memory is Fortran's.                       *)
LEMMA FinishedRemembers ==
  ASSUME MemoryInv, Finished, NEW l \in Locations
  PROVE  mem[l] = ref[l]
<1> DEFINE g == states[at]
           L == Listed(states)
           X == Executed(states, at, CodeNodes(g))
<1>1. /\ Scheduling(states, count, ref) /\ at \in DOMAIN states /\ at = Len(states)
      /\ Remembers(X, count, mem)
  BY DEF Finished, MemoryInv
<1>2. /\ History(L, count, ref) /\ DOMAIN states = 1 .. Len(states) /\ Len(states) \in Nat
  BY <1>1 DEF Scheduling
<1>3. \A k \in DOMAIN states : k < at \/ k = at
  BY <1>1, <1>2
<1>4. X = L
  <2>1. X \subseteq L
    BY <1>1, ExecutedIsListed
  <2>2. ASSUME NEW w \in L PROVE w \in X
    <3>1. PICK k \in DOMAIN states : w \in Work(states[k])
      BY DEF Listed
    <3>2. CASE k < at
      BY <3>1, <3>2 DEF Executed
    <3>3. CASE k = at
      BY <3>1, <3>3 DEF Executed, Work
    <3> QED BY <1>3, <3>2, <3>3
  <2> HIDE DEF X, L
  <2> QED BY <2>1, <2>2
<1> HIDE DEF X, L
<1>5. count \in Nat /\ count + 1 \in Nat /\ \A w \in L : w.id \in Nat \ {0}
  BY <1>2 DEF History, Faithful
<1>6. Newest(L, l, count + 1, ref[l]) /\ Newest(L, l, count + 1, mem[l])
  BY <1>1, <1>2, <1>4 DEF History, Remembers
<1> QED BY <1>5, <1>6, OneNewest

(* Programs of assignments, whole-array copies and fills, I/O and messages *)
(* over scalars, arrays, sections and symbols compute what Fortran does,   *)
(* however many statements they have and whatever order the code of each   *)
(* state picks: the flushes of the queue, the hazards that open a state,   *)
(* the fresh sinks and the order edges are enough.                         *)
THEOREM DirectPrograms == Spec => [](DirectProgram => SequentialSemantics)
<1>1. DirectInv => (DirectProgram => SequentialSemantics)
  <2> SUFFICES ASSUME DirectInv, DirectProgram PROVE SequentialSemantics
    OBVIOUS
  <2>1. DraftInv /\ MemoryInv /\ PhaseInv
    BY DEF DirectInv
  <2>2. misread = FALSE
    BY <2>1 DEF DraftInv, MemoryInv, PhaseInv
  <2>3. Finished => \A l \in Locations : mem[l] = ref[l]
    BY <2>1, FinishedRemembers
  <2> QED BY <2>2, <2>3 DEF SequentialSemantics
<1>2. Spec => []DirectInv
  BY DirectInvInit, DirectInvStep, PTL DEF Spec
<1> QED BY <1>1, <1>2, PTL
=============================================================================
