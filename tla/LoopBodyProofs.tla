--------------------------- MODULE LoopBodyProofs ---------------------------
(***************************************************************************)
(* The code a DO loop over assignments is lowered to computes what the     *)
(* source computes, for every body that does not use one indirect index    *)
(* on both sides of its redefinition: on the fast path, which hoists the   *)
(* symbol assignments, and on the source-order path.                       *)
(***************************************************************************)
EXTENDS LoopBody, LibraryNodesProofs

-----------------------------------------------------------------------------
(* Bodies.                                                                 *)

IndexLocations(p) == {<<p[1], "e">>, <<p[2], "e">>}
Proper(st) ==
  /\ IsFiniteSet(st.reads) /\ IsFiniteSet(st.ind) /\ st.target[2] # "order"
  /\ \A l \in {st.target} \cup st.reads :
       l \in Locations /\ l[1] \in Scalars \cup Arrays \cup Symbols
  /\ IsSymbol(st) => st.ind = {}
  /\ \A p \in st.ind : p \in Indirects /\ IndexLocations(p) \subseteq Locations

Of(b) == {b[n] : n \in DOMAIN b}
Numbered(b) ==
  /\ Len(b) \in Nat /\ DOMAIN b = 1 .. Len(b)
  /\ \A n \in DOMAIN b : b[n].id = n /\ Proper(b[n])

(* A statement of the source is one of such a body.                        *)
LEMMA StatementIsProper ==
  ASSUME NEW s \in Statements, NEW n
  PROVE  LET st == [id |-> n, target |-> s.target, reads |-> s.reads, ind |-> s.ind]
         IN  st.id = n /\ Proper(st)
<1> DEFINE st == [id |-> n, target |-> s.target, reads |-> s.reads, ind |-> s.ind]
<1>1. /\ IsFiniteSet(s.reads) /\ IsFiniteSet(s.ind) /\ s.target[2] # "order"
      /\ \A l \in {s.target} \cup s.reads : l[1] \in Scalars \cup Arrays \cup Symbols
      /\ s.target[1] \in Symbols => s.ind = {}
  BY LoopAssumption
<1>2. \A l \in {s.target} \cup s.reads : l \in Locations
  BY DEF Locations
<1>3. ASSUME NEW p \in s.ind PROVE p \in Indirects /\ IndexLocations(p) \subseteq Locations
  <2>1. p \in Indirects
    BY <1>3 DEF Indirects
  <2> DEFINE names(u) == UNION {{q[1], q[2]} : q \in u.ind}
  <2>2. {p[1], p[2]} \subseteq UNION {names(u) : u \in Statements}
    <3>1. {p[1], p[2]} \subseteq names(s)
      BY <1>3
    <3> QED BY <3>1, Zenon
  <2>3. \A d \in {p[1], p[2]} : <<d, "e">> \in Locations
    BY <2>2 DEF Locations
  <2> QED BY <2>1, <2>3 DEF IndexLocations
<1>4. st.id = n /\ st.target = s.target /\ st.reads = s.reads /\ st.ind = s.ind
  OBVIOUS
<1> QED BY <1>1, <1>2, <1>3, <1>4 DEF Proper, IsSymbol

(* The names, subsets and statements of the graphs of a body.              *)
Parts(b) ==
  {NoStatement, "read", "all", "order"} \cup Named \cup Scalars \cup Symbols
    \cup Of(b) \cup {st.target[2] : st \in Of(b)}

(* A compute stores into a container that is no view.                      *)
LEMMA PartsOfBody ==
  ASSUME NEW b, Numbered(b)
  PROVE  /\ Universe(Parts(b))
         /\ \A st \in Of(b) : /\ Proper(st) /\ st.id \in DOMAIN b /\ b[st.id] = st
                              /\ Statement(Parts(b), st) /\ (~IsSymbol(st) => Stores(st))
<1>1. Universe(Parts(b))
  BY DEF Universe, Parts
<1>2. ASSUME NEW st \in Of(b)
      PROVE  /\ Proper(st) /\ st.id \in DOMAIN b /\ b[st.id] = st
             /\ Statement(Parts(b), st) /\ (~IsSymbol(st) => Stores(st))
  <2>1. PICK n \in DOMAIN b : b[n] = st
    BY DEF Of
  <2>2. Proper(st) /\ st.id \in DOMAIN b /\ b[st.id] = st
    BY <2>1 DEF Numbered
  <2>3. \A l \in {st.target} \cup st.reads : l[1] \in Scalars \cup Arrays \cup Symbols
    BY <2>2 DEF Proper
  <2>4. ReadNames(st) \subseteq Scalars \cup Arrays /\ IsFiniteSet(ReadNames(st))
    <3>1. IsFiniteSet({l[1] : l \in st.reads})
      BY <2>2, NamesAreFinite DEF Proper
    <3> QED BY <2>3, <3>1, FS_Subset DEF ReadNames
  <2>5. Statement(Parts(b), st)
    BY <2>3, <2>4 DEF Statement, Parts, Named
  <2>6. \A d \in Scalars \cup Arrays \cup Symbols : Resolve(d) \notin Views /\ d \notin Outside
    BY NamesAssumption DEF Resolve, Named
  <2>7. ASSUME ~IsSymbol(st) PROVE Stores(st)
    BY <2>2, <2>3, <2>4, <2>6, <2>7 DEF Stores, Plain, IsSymbol, Proper
  <2> QED BY <2>2, <2>5, <2>7
<1> QED BY <1>1, <1>2

(* One of two statements assigns what the other one reads or assigns.      *)
Reaching(s, v) == s.target \in {v.target} \cup v.reads
Clashing(s, v) == Reaching(s, v) \/ Reaching(v, s)

(* w may come before v in the code.                                        *)
Follows(w, v) ==
  /\ w.id # v.id
  /\ Clashing(w, v) \/ (~IsSymbol(w) /\ ~IsSymbol(v)) => w.id < v.id

(* Computes that clash conflict.                                           *)
LEMMA ClashingConflicts ==
  ASSUME NEW s, NEW v, Stores(s), Stores(v), Clashing(s, v)
  PROVE  Conflicting(s, v)
<1>1. ASSUME NEW t, NEW u, Stores(t), Reaching(t, u) PROVE StoresInto(t, u)
  BY <1>1 DEF Reaching, StoresInto, ReadLocations
<1> QED BY <1>1 DEF Clashing, Conflicting

-----------------------------------------------------------------------------
(* Regions under construction.                                             *)

Segments(b) == [load : SUBSET Indirects, edge : SUBSET Of(b), g : Graphs(Parts(b))]
Regions(b) ==
  {r \in [segs : Seq(Segments(b)), edge : SUBSET Of(b), minted : SUBSET Indirects,
          computes : Nat] : Len(r.segs) # 0}

(* A region is a record whose last segment is one of its segments.         *)
LEMMA RegionParts ==
  ASSUME NEW b, NEW r \in Regions(b)
  PROVE  /\ r = [segs |-> r.segs, edge |-> r.edge, minted |-> r.minted, computes |-> r.computes]
         /\ r.segs \in Seq(Segments(b)) /\ r.edge \subseteq Of(b) /\ r.minted \subseteq Indirects
         /\ r.computes \in Nat /\ Len(r.segs) \in Nat \ {0} /\ DOMAIN r.segs = 1 .. Len(r.segs)
         /\ Len(r.segs) \in DOMAIN r.segs /\ Last(r.segs) = r.segs[Len(r.segs)]
         /\ LastGraph(r) = r.segs[Len(r.segs)].g /\ LastGraph(r) \in Graphs(Parts(b))
<1>1. /\ r = [segs |-> r.segs, edge |-> r.edge, minted |-> r.minted, computes |-> r.computes]
      /\ r.segs \in Seq(Segments(b)) /\ r.edge \subseteq Of(b) /\ r.minted \subseteq Indirects
      /\ r.computes \in Nat /\ Len(r.segs) # 0
  BY DEF Regions
<1>2. Len(r.segs) \in Nat \ {0} /\ DOMAIN r.segs = 1 .. Len(r.segs)
  BY <1>1
<1>3. Len(r.segs) \in DOMAIN r.segs
  BY <1>2
<1>4. r.segs[Len(r.segs)] \in Segments(b)
  BY <1>1, <1>3
<1> QED BY <1>1, <1>2, <1>3, <1>4 DEF LastGraph, Last, Segments

(* A region with some of them replaced, as a record.                       *)
LEMMA RegionFields ==
  ASSUME NEW r,
         r = [segs |-> r.segs, edge |-> r.edge, minted |-> r.minted, computes |-> r.computes],
         NEW S, NEW E, NEW M, NEW C
  PROVE  /\ [r EXCEPT !.segs = S, !.edge = E] =
              [segs |-> S, edge |-> E, minted |-> r.minted, computes |-> r.computes]
         /\ [r EXCEPT !.segs = S, !.minted = M] =
              [segs |-> S, edge |-> r.edge, minted |-> M, computes |-> r.computes]
         /\ [r EXCEPT !.edge = E] =
              [segs |-> r.segs, edge |-> E, minted |-> r.minted, computes |-> r.computes]
         /\ [r EXCEPT !.segs = S, !.computes = C] =
              [segs |-> S, edge |-> r.edge, minted |-> r.minted, computes |-> C]
<1> DEFINE q == [r EXCEPT !.segs = S]
<1>1. q = [segs |-> S, edge |-> r.edge, minted |-> r.minted, computes |-> r.computes]
  OBVIOUS
<1>2. /\ [r EXCEPT !.segs = S, !.edge = E] = [q EXCEPT !.edge = E]
      /\ [r EXCEPT !.segs = S, !.minted = M] = [q EXCEPT !.minted = M]
      /\ [r EXCEPT !.segs = S, !.computes = C] = [q EXCEPT !.computes = C]
  OBVIOUS
<1>3. [r EXCEPT !.edge = E] =
        [segs |-> r.segs, edge |-> E, minted |-> r.minted, computes |-> r.computes]
  OBVIOUS
<1> HIDE DEF q
<1>4. [q EXCEPT !.edge = E] =
        [segs |-> S, edge |-> E, minted |-> r.minted, computes |-> r.computes]
  BY <1>1
<1>5. [q EXCEPT !.minted = M] =
        [segs |-> S, edge |-> r.edge, minted |-> M, computes |-> r.computes]
  BY <1>1
<1>6. [q EXCEPT !.computes = C] =
        [segs |-> S, edge |-> r.edge, minted |-> r.minted, computes |-> C]
  BY <1>1
<1> QED BY <1>2, <1>3, <1>4, <1>5, <1>6

(* A region is made of its parts.                                          *)
LEMMA PartsOfRegion ==
  ASSUME NEW b, NEW segs \in Seq(Segments(b)), Len(segs) # 0, NEW edge \in SUBSET Of(b),
         NEW minted \in SUBSET Indirects, NEW computes \in Nat
  PROVE  [segs |-> segs, edge |-> edge, minted |-> minted, computes |-> computes] \in Regions(b)
BY DEF Regions

(* An empty segment is one.                                                *)
LEMMA EmptySegment ==
  ASSUME NEW b, Numbered(b), NEW load \in SUBSET Indirects, NEW edge \in SUBSET Of(b)
  PROVE  /\ Segment(load, edge) \in Segments(b)
         /\ Segment(load, edge).load = load /\ Segment(load, edge).edge = edge
         /\ Segment(load, edge).g = EmptyState
         /\ Tidy(EmptyState) /\ CodeNodes(EmptyState) = {}
<1>1. NoStatement \in Parts(b) /\ Universe(Parts(b))
  BY PartsOfBody DEF Parts
<1>2. EmptyState \in Graphs(Parts(b)) /\ Tidy(EmptyState) /\ CodeNodes(EmptyState) = {}
  BY <1>1, FreshStateIsTidy DEF EmptyState
<1> QED BY <1>2 DEF Segment, Segments

(* A segment more.                                                         *)
LEMMA SegmentAppended ==
  ASSUME NEW b, NEW segs \in Seq(Segments(b)), NEW s \in Segments(b)
  PROVE  LET next == Append(segs, s)
             n == Len(segs)
         IN  /\ next \in Seq(Segments(b)) /\ Len(next) = n + 1 /\ n \in Nat
             /\ DOMAIN next = 1 .. n + 1 /\ DOMAIN next = DOMAIN segs \cup {n + 1}
             /\ n + 1 \notin DOMAIN segs /\ DOMAIN segs = 1 .. n
             /\ next[n + 1] = s /\ \A i \in DOMAIN segs : next[i] = segs[i]
<1> DEFINE next == Append(segs, s)
           n == Len(segs)
<1>1. n \in Nat /\ DOMAIN segs = 1 .. n
  OBVIOUS
<1>2. /\ next \in Seq(Segments(b)) /\ Len(next) = n + 1 /\ DOMAIN next = 1 .. n + 1
      /\ next[n + 1] = s /\ \A i \in DOMAIN segs : next[i] = segs[i]
  BY <1>1
<1> HIDE DEF next, n
<1>3. DOMAIN next = DOMAIN segs \cup {n + 1} /\ n + 1 \notin DOMAIN segs
  BY <1>1, <1>2
<1> QED BY <1>1, <1>2, <1>3 DEF next, n

(* The operations on a region make regions.                                *)
LEMMA CloseStays ==
  ASSUME NEW b, Numbered(b), NEW r \in Regions(b)
  PROVE  LET c == Close(r)
         IN  /\ c \in Regions(b) /\ c.segs = Append(r.segs, Segment({}, r.edge))
             /\ c.edge = {} /\ c.minted = r.minted /\ c.computes = r.computes
<1> DEFINE c == Close(r)
           s == Segment({}, r.edge)
<1>1. /\ r = [segs |-> r.segs, edge |-> r.edge, minted |-> r.minted, computes |-> r.computes]
      /\ r.segs \in Seq(Segments(b)) /\ r.edge \subseteq Of(b) /\ r.minted \subseteq Indirects
      /\ r.computes \in Nat
  BY RegionParts
<1>2. s \in Segments(b)
  BY <1>1, EmptySegment
<1> HIDE DEF s
<1>3. Append(r.segs, s) \in Seq(Segments(b)) /\ Len(Append(r.segs, s)) # 0
  BY <1>1, <1>2, SegmentAppended
<1>4. c = [segs |-> Append(r.segs, s), edge |-> {}, minted |-> r.minted, computes |-> r.computes]
  <2>1. c = [r EXCEPT !.segs = Append(r.segs, s), !.edge = {}]
    BY DEF Close, s
  <2> QED BY <1>1, <2>1, RegionFields
<1>5. c \in Regions(b)
  BY <1>1, <1>3, <1>4, PartsOfRegion
<1> QED BY <1>4, <1>5 DEF s

(* A region whose pending assignments have their state.                    *)
Settled(r) == IF r.edge = {} THEN r ELSE Close(r)

(* A load.                                                                 *)
LEMMA LoadStays ==
  ASSUME NEW b, Numbered(b), NEW r \in Regions(b), NEW p \in Indirects
  PROVE  LET c == Settled(r)
             l == Load(r, p)
         IN  /\ c \in Regions(b) /\ c.edge = {} /\ c.minted = r.minted
             /\ c.computes = r.computes
             /\ l \in Regions(b) /\ l.segs = Append(c.segs, Segment({p}, {}))
             /\ l.edge = {} /\ l.minted = r.minted \cup {p} /\ l.computes = r.computes
<1> DEFINE c == Settled(r)
           l == Load(r, p)
           s == Segment({p}, {})
<1>1. c \in Regions(b) /\ c.edge = {} /\ c.minted = r.minted /\ c.computes = r.computes
  BY CloseStays DEF Settled
<1>2. l = [c EXCEPT !.segs = Append(@, s), !.minted = @ \cup {p}]
  BY DEF Load, Settled
<1> HIDE DEF c, l
<1>3. /\ c = [segs |-> c.segs, edge |-> c.edge, minted |-> c.minted, computes |-> c.computes]
      /\ c.segs \in Seq(Segments(b)) /\ c.edge \subseteq Of(b) /\ c.minted \subseteq Indirects
      /\ c.computes \in Nat
  BY <1>1, RegionParts
<1>4. s \in Segments(b)
  BY EmptySegment
<1> HIDE DEF s
<1>5. Append(c.segs, s) \in Seq(Segments(b)) /\ Len(Append(c.segs, s)) # 0
  BY <1>3, <1>4, SegmentAppended
<1>6. l = [segs |-> Append(c.segs, s), edge |-> c.edge, minted |-> c.minted \cup {p},
           computes |-> c.computes]
  <2>1. l = [c EXCEPT !.segs = Append(c.segs, s), !.minted = c.minted \cup {p}]
    BY <1>2
  <2> QED BY <1>3, <2>1, RegionFields
<1>7. l \in Regions(b)
  BY <1>3, <1>5, <1>6, PartsOfRegion
<1> QED BY <1>1, <1>6, <1>7 DEF c, l, s

(* A symbol assignment.                                                    *)
LEMMA AssignStays ==
  ASSUME NEW b, Numbered(b), NEW r \in Regions(b), NEW st \in Of(b)
  PROVE  LET c == IF ConflictsWithEdge(r.edge, st) THEN Close(r) ELSE r
             a == AssignOnEdge(r, st)
         IN  /\ c \in Regions(b) /\ c.minted = r.minted
             /\ a \in Regions(b) /\ a.segs = c.segs /\ a.edge = c.edge \cup {st}
             /\ a.minted = c.minted
<1> DEFINE c == IF ConflictsWithEdge(r.edge, st) THEN Close(r) ELSE r
           a == AssignOnEdge(r, st)
<1>1. c \in Regions(b) /\ c.minted = r.minted
  BY CloseStays
<1>2. a = [c EXCEPT !.edge = @ \cup {st}]
  BY DEF AssignOnEdge
<1> HIDE DEF c, a
<1>3. /\ c = [segs |-> c.segs, edge |-> c.edge, minted |-> c.minted, computes |-> c.computes]
      /\ c.segs \in Seq(Segments(b)) /\ c.edge \subseteq Of(b) /\ c.minted \subseteq Indirects
      /\ c.computes \in Nat /\ Len(c.segs) # 0
  BY <1>1, RegionParts
<1>4. a = [segs |-> c.segs, edge |-> c.edge \cup {st}, minted |-> c.minted,
           computes |-> c.computes]
  <2>1. a = [c EXCEPT !.edge = c.edge \cup {st}]
    BY <1>2
  <2> QED BY <1>3, <2>1, RegionFields
<1>5. a \in Regions(b)
  BY <1>3, <1>4, PartsOfRegion
<1> QED BY <1>1, <1>4, <1>5 DEF c, a

(* A compute.                                                              *)
LEMMA EmitStays ==
  ASSUME NEW b, Numbered(b), NEW r \in Regions(b), NEW st \in Of(b)
  PROVE  LET n == Len(r.segs)
             h == EmitTasklet(r.segs[n].g, st)
             q == EmitInLast(r, st)
         IN  /\ h \in Graphs(Parts(b))
             /\ q \in Regions(b) /\ q.segs = [r.segs EXCEPT ![n] = [@ EXCEPT !.g = h]]
             /\ q.edge = r.edge /\ q.minted = r.minted /\ q.computes = r.computes + 1
<1> DEFINE n == Len(r.segs)
           h == EmitTasklet(r.segs[n].g, st)
           q == EmitInLast(r, st)
           s == [r.segs[n] EXCEPT !.g = h]
           next == [r.segs EXCEPT ![n] = s]
<1>1. /\ r = [segs |-> r.segs, edge |-> r.edge, minted |-> r.minted, computes |-> r.computes]
      /\ r.segs \in Seq(Segments(b)) /\ r.edge \subseteq Of(b) /\ r.minted \subseteq Indirects
      /\ r.computes \in Nat /\ n \in Nat \ {0} /\ n \in DOMAIN r.segs
      /\ r.segs[n].g \in Graphs(Parts(b))
  BY RegionParts
<1>2. h \in Graphs(Parts(b))
  <2>1. Universe(Parts(b)) /\ Statement(Parts(b), st)
    BY PartsOfBody
  <2> QED BY <1>1, <2>1, EmitTaskletKeeps
<1>3. q = [segs |-> next, edge |-> r.edge, minted |-> r.minted, computes |-> r.computes + 1]
  <2>1. q = [r EXCEPT !.segs = next, !.computes = r.computes + 1]
    BY DEF EmitInLast
  <2> HIDE DEF q, next
  <2> QED BY <1>1, <2>1, RegionFields
<1>4. r.segs[n] \in Segments(b)
  BY <1>1
<1> HIDE DEF h
<1>5. s \in Segments(b)
  BY <1>2, <1>4 DEF Segments
<1> HIDE DEF s, q, n
<1>6. next \in Seq(Segments(b)) /\ Len(next) = Len(r.segs)
  BY <1>1, <1>5
<1> HIDE DEF next
<1>7. q \in Regions(b)
  <2>1. Len(next) # 0 /\ r.computes + 1 \in Nat
    BY <1>1, <1>6 DEF n
  <2> QED BY <1>1, <1>3, <1>6, <2>1, PartsOfRegion
<1> QED BY <1>2, <1>3, <1>7 DEF next, s, q, n, h

-----------------------------------------------------------------------------
(* What the segments of a region do, in which order.                       *)
Carried(g) == {g.nodes[t].stmt : t \in CodeNodes(g)}
Work(seg) == seg.edge \cup Carried(seg.g)
Listed(segs) == UNION {Work(segs[i]) : i \in DOMAIN segs}
Prior(segs, i) == UNION {Work(segs[j]) : j \in {k \in DOMAIN segs : k < i}}
Loaded(segs, i) == UNION {segs[j].load : j \in {k \in DOMAIN segs : k <= i}}

Before(S, T) == \A w \in S, v \in T : Follows(w, v)

(* An index loaded when X has been executed is the one its users want.     *)
LoadFits(b, X, p) ==
  \A v \in Of(b) : p \in v.ind =>
    /\ v \notin X
    /\ \A w \in Of(b) : w.target \in IndexLocations(p) => (w \in X <=> w.id < v.id)

AllFit(b, X, S) == S \subseteq Indirects /\ \A p \in S : LoadFits(b, X, p)

(* Assignments that may share an edge.                                     *)
EdgeFits(E) == \A w \in E : IsSymbol(w) /\ \A v \in E : w = v \/ ~Clashing(w, v)

Piece(b, seg) ==
  /\ Tidy(seg.g) /\ EdgeFits(seg.edge) /\ Before(seg.edge, Carried(seg.g))
  /\ \A t, u \in CodeNodes(seg.g) :
       t < u => Follows(seg.g.nodes[t].stmt, seg.g.nodes[u].stmt)
  /\ \A v \in Carried(seg.g) : v \in Of(b) /\ Stores(v)
Layout(b, segs) ==
  /\ \A i, j \in DOMAIN segs : i < j => Before(Work(segs[i]), Work(segs[j]))
  /\ \A i \in DOMAIN segs : Piece(b, segs[i])
  /\ \A i \in DOMAIN segs : \A p \in segs[i].load : LoadFits(b, Prior(segs, i), p)
  /\ \A i \in DOMAIN segs : \A v \in Work(segs[i]) : v.ind \subseteq Loaded(segs, i)
  /\ segs[1].load = {}

Extended(segs, load, edge) == Append(segs, Segment(load, edge))
Sound(b, segs) == segs \in Seq(Segments(b)) /\ Len(segs) # 0 /\ Layout(b, segs)
Joins(b, X, edge) == edge \subseteq Of(b) /\ EdgeFits(edge) /\ Before(X, edge)

(* A segment for what has to come last.                                    *)
LEMMA AppendLays ==
  ASSUME NEW b, Numbered(b), NEW segs, Sound(b, segs),
         NEW load, AllFit(b, Listed(segs), load), NEW edge, Joins(b, Listed(segs), edge),
         NEW next, next = Extended(segs, load, edge)
  PROVE  /\ Layout(b, next) /\ Listed(next) = Listed(segs) \cup edge
         /\ Loaded(next, Len(next)) = Loaded(segs, Len(segs)) \cup load
<1> DEFINE s == Segment(load, edge)
           n == Len(segs)
<1>0. /\ segs \in Seq(Segments(b)) /\ Len(segs) # 0 /\ Layout(b, segs)
      /\ load \in SUBSET Indirects /\ edge \in SUBSET Of(b)
      /\ EdgeFits(edge) /\ Before(Listed(segs), edge)
  BY DEF Sound, AllFit, Joins
<1>1. /\ s \in Segments(b) /\ s.load = load /\ s.edge = edge /\ s.g = EmptyState
      /\ Tidy(EmptyState) /\ CodeNodes(EmptyState) = {}
  <2>1. \A w, e : /\ Segment(w, e).load = w /\ Segment(w, e).edge = e
                  /\ Segment(w, e).g = EmptyState
    BY DEF Segment
  <2> HIDE DEF s
  <2>2. s \in Segments(b) /\ Tidy(EmptyState) /\ CodeNodes(EmptyState) = {}
    BY <1>0, EmptySegment DEF s
  <2> QED BY <2>1, <2>2 DEF s
<1>1a. next = Append(segs, s)
  BY DEF Extended
<1> HIDE DEF s
<1>2. /\ next \in Seq(Segments(b)) /\ Len(next) = n + 1 /\ n \in Nat
      /\ DOMAIN next = 1 .. n + 1 /\ DOMAIN next = DOMAIN segs \cup {n + 1}
      /\ n + 1 \notin DOMAIN segs /\ DOMAIN segs = 1 .. n
      /\ next[n + 1] = s /\ \A i \in DOMAIN segs : next[i] = segs[i]
  BY <1>0, <1>1, <1>1a, SegmentAppended
<1>3. n # 0 /\ 1 \in DOMAIN segs
  BY <1>0, <1>2
<1> HIDE DEF n
<1>4. Carried(s.g) = {} /\ Work(s) = edge
  BY <1>1 DEF Carried, Work
<1>5. \A i \in DOMAIN segs : /\ i < n + 1 /\ i <= n /\ ~(n + 1 < i) /\ i \in Nat
                            /\ ~(n + 1 <= i)
  BY <1>2
<1>6. \A i \in DOMAIN segs : Prior(next, i) = Prior(segs, i) /\ Loaded(next, i) = Loaded(segs, i)
  <2> SUFFICES ASSUME NEW i \in DOMAIN segs
               PROVE  Prior(next, i) = Prior(segs, i) /\ Loaded(next, i) = Loaded(segs, i)
    OBVIOUS
  <2>1. {k \in DOMAIN next : k < i} = {k \in DOMAIN segs : k < i}
        /\ {k \in DOMAIN next : k <= i} = {k \in DOMAIN segs : k <= i}
    BY <1>2, <1>5
  <2> QED BY <1>2, <2>1 DEF Prior, Loaded
<1>7. Prior(next, n + 1) = Listed(segs)
  <2>1. {k \in DOMAIN next : k < n + 1} = DOMAIN segs
    BY <1>2, <1>5
  <2> QED BY <1>2, <2>1 DEF Prior, Listed
<1>8. Listed(next) = Listed(segs) \cup edge
  BY <1>2, <1>4 DEF Listed
<1>9. Loaded(next, n + 1) = Loaded(segs, n) \cup load
  <2>1. {k \in DOMAIN next : k <= n + 1} = DOMAIN segs \cup {n + 1}
        /\ {k \in DOMAIN segs : k <= n} = DOMAIN segs
    BY <1>2, <1>5
  <2> QED BY <1>1, <1>2, <2>1 DEF Loaded
<1>10. Layout(b, next)
  <2>1. ASSUME NEW i \in DOMAIN next, NEW j \in DOMAIN next, i < j
        PROVE  Before(Work(next[i]), Work(next[j]))
    <3>1. i \in DOMAIN segs
      BY <1>2, <1>5, <2>1
    <3>2. CASE j \in DOMAIN segs
      BY <1>0, <1>2, <2>1, <3>1, <3>2 DEF Layout
    <3>3. CASE j = n + 1
      <4>1. Work(segs[i]) \subseteq Listed(segs)
        BY <3>1 DEF Listed
      <4> QED BY <1>0, <1>2, <1>4, <3>1, <3>3, <4>1 DEF Before
    <3> QED BY <1>2, <3>2, <3>3
  <2>2. Piece(b, s)
    BY <1>0, <1>1, <1>4 DEF Piece, Before
  <2>3. ASSUME NEW i \in DOMAIN next PROVE Piece(b, next[i])
    BY <1>0, <1>2, <2>2 DEF Layout
  <2>4. ASSUME NEW i \in DOMAIN next, NEW p \in next[i].load PROVE LoadFits(b, Prior(next, i), p)
    BY <1>0, <1>1, <1>2, <1>6, <1>7, <2>4 DEF Layout, AllFit
  <2>5. ASSUME NEW i \in DOMAIN next, NEW v \in Work(next[i]) PROVE v.ind \subseteq Loaded(next, i)
    <3>1. CASE i \in DOMAIN segs
      BY <1>0, <1>2, <1>6, <2>5, <3>1 DEF Layout
    <3>2. CASE i = n + 1
      <4>1. v \in edge
        BY <1>2, <1>4, <2>5, <3>2
      <4>2. v.ind = {}
        BY <1>0, <4>1, PartsOfBody DEF EdgeFits, Proper
      <4> QED BY <4>2
    <3> QED BY <1>2, <3>1, <3>2
  <2>6. next[1].load = {}
    BY <1>0, <1>2, <1>3 DEF Layout
  <2> QED BY <2>1, <2>3, <2>4, <2>5, <2>6 DEF Layout
<1> QED BY <1>2, <1>8, <1>9, <1>10 DEF n

(* A compute joins the last segment, behind all that is in it.             *)
LEMMA GrowLays ==
  ASSUME NEW b, Numbered(b), NEW segs \in Seq(Segments(b)), Len(segs) # 0, Layout(b, segs),
         NEW st \in Of(b), Stores(st), Before(Listed(segs), {st}),
         st.ind \subseteq Loaded(segs, Len(segs)),
         NEW h \in Graphs(Parts(b)), Grows(segs[Len(segs)].g, h, st)
  PROVE  LET next == [segs EXCEPT ![Len(segs)] = [@ EXCEPT !.g = h]]
         IN  /\ Layout(b, next) /\ Listed(next) = Listed(segs) \cup {st}
             /\ Loaded(next, Len(next)) = Loaded(segs, Len(segs))
<1> DEFINE n == Len(segs)
           g == segs[n].g
           s == [segs[n] EXCEPT !.g = h]
           next == [segs EXCEPT ![n] = s]
<1>1. n \in Nat /\ n \in DOMAIN segs /\ DOMAIN segs = 1 .. n /\ \A i \in DOMAIN segs : i <= n
  OBVIOUS
<1>2. segs[n] \in Segments(b) /\ g \in Graphs(Parts(b))
  <2>1. segs[n] \in Segments(b)
    BY <1>1
  <2> QED BY <2>1 DEF Segments
<1>3. s.load = segs[n].load /\ s.edge = segs[n].edge /\ s.g = h
  BY <1>2 DEF Segments
<1> HIDE DEF s
<1>4. /\ DOMAIN next = DOMAIN segs /\ Len(next) = n /\ next[n] = s
      /\ \A i \in DOMAIN segs : i # n => next[i] = segs[i]
  BY <1>1
<1>5. \A i \in DOMAIN segs : next[i].load = segs[i].load
  BY <1>3, <1>4
<1> HIDE DEF next, n
<1>6. PICK t : Gains(g, h, t, st) /\ Kept(g, h) /\ Tidy(h)
  BY DEF Grows, n
<1> HIDE DEF g
<1>7. IsGraph(g) /\ IsGraph(h)
  BY <1>2, GraphsAreGraphs
<1>8. /\ t \notin DOMAIN g.nodes /\ CodeNodes(h) = CodeNodes(g) \cup {t} /\ h.nodes[t].stmt = st
      /\ \A u \in CodeNodes(g) : h.nodes[u] = g.nodes[u]
  BY <1>6 DEF Gains, Kept, CodeNodes
<1>9. t \in Nat /\ \A u \in CodeNodes(g) : u \in Nat /\ u < t
  BY <1>7, <1>8 DEF IsGraph, Wired, CodeNodes
<1>10. Carried(h) = Carried(g) \cup {st}
  BY <1>8 DEF Carried
<1>11. Work(s) = Work(segs[n]) \cup {st}
  BY <1>3, <1>10 DEF Work, g
<1>12. \A i \in DOMAIN segs : Work(segs[i]) \subseteq Listed(segs)
  BY DEF Listed
<1>13. \A i \in DOMAIN segs : Prior(next, i) = Prior(segs, i)
  <2>1. \A i, k \in DOMAIN segs : k < i => next[k] = segs[k]
    BY <1>1, <1>4
  <2> QED BY <1>4, <2>1 DEF Prior
<1>14. \A i \in DOMAIN segs : Loaded(next, i) = Loaded(segs, i)
  BY <1>4, <1>5 DEF Loaded
<1>15. Listed(next) = Listed(segs) \cup {st}
  <2>1. \A i \in DOMAIN segs : Work(next[i]) = IF i = n THEN Work(segs[i]) \cup {st} ELSE Work(segs[i])
    BY <1>4, <1>11
  <2> QED BY <1>1, <1>4, <2>1 DEF Listed
<1>16. Piece(b, segs[n])
  BY <1>1 DEF Layout
<1>17. Piece(b, s)
  <2>1. Before(s.edge, Carried(h))
    <3>1. Before(s.edge, Carried(g))
      BY <1>3, <1>16 DEF Piece, g
    <3>2. s.edge \subseteq Listed(segs)
      BY <1>1, <1>3, <1>12 DEF Work
    <3> QED BY <1>10, <3>1, <3>2 DEF Before
  <2>2. ASSUME NEW a \in CodeNodes(h), NEW c \in CodeNodes(h), a < c
        PROVE  Follows(h.nodes[a].stmt, h.nodes[c].stmt)
    <3>1. a \in CodeNodes(g)
      <4>1. a # t
        BY <1>8, <1>9, <2>2
      <4> QED BY <1>8, <4>1
    <3>2. CASE c \in CodeNodes(g)
      BY <1>8, <1>16, <2>2, <3>1, <3>2 DEF Piece, g
    <3>3. CASE c = t
      <4>1. g.nodes[a].stmt \in Work(segs[n])
        BY <3>1 DEF Work, Carried, g
      <4> QED BY <1>1, <1>8, <1>12, <3>1, <3>3, <4>1 DEF Before
    <3> QED BY <1>8, <3>2, <3>3
  <2>3. \A v \in Carried(h) : v \in Of(b) /\ Stores(v)
    BY <1>10, <1>16 DEF Piece, g
  <2>4. EdgeFits(s.edge)
    BY <1>3, <1>16 DEF Piece
  <2> QED BY <1>3, <1>6, <2>1, <2>2, <2>3, <2>4 DEF Piece
<1>18. Layout(b, next)
  <2>1. ASSUME NEW i \in DOMAIN next, NEW j \in DOMAIN next, i < j
        PROVE  Before(Work(next[i]), Work(next[j]))
    <3>1. i # n /\ next[i] = segs[i]
      BY <1>1, <1>4, <2>1
    <3>2. Before(Work(segs[i]), Work(segs[j]))
      BY <1>4, <2>1 DEF Layout
    <3>3. CASE j # n
      BY <1>4, <3>1, <3>2, <3>3
    <3>4. CASE j = n
      BY <1>4, <1>11, <1>12, <3>1, <3>2, <3>4 DEF Before
    <3> QED BY <3>3, <3>4
  <2>2. ASSUME NEW i \in DOMAIN next PROVE Piece(b, next[i])
    BY <1>4, <1>17 DEF Layout
  <2>3. ASSUME NEW i \in DOMAIN next, NEW p \in next[i].load PROVE LoadFits(b, Prior(next, i), p)
    BY <1>4, <1>5, <1>13, <2>3 DEF Layout
  <2>4. ASSUME NEW i \in DOMAIN next, NEW v \in Work(next[i]) PROVE v.ind \subseteq Loaded(next, i)
    <3>1. v \in Work(segs[i]) \/ (i = n /\ v = st)
      BY <1>4, <1>11, <2>4
    <3> QED BY <1>1, <1>4, <1>14, <3>1 DEF Layout, n
  <2>5. next[1].load = {}
    BY <1>1, <1>5 DEF Layout, n
  <2> QED BY <2>1, <2>2, <2>3, <2>4, <2>5 DEF Layout
<1> QED BY <1>1, <1>4, <1>14, <1>15, <1>18 DEF next, s, n

(* A region whose segments and open edge are laid out.                     *)
Laid(b, r) ==
  /\ r \in Regions(b) /\ Layout(b, r.segs)
  /\ EdgeFits(r.edge) /\ Before(Listed(r.segs), r.edge)
  /\ r.minted = Loaded(r.segs, Len(r.segs))
Issued(r) == Listed(r.segs) \cup r.edge

(* Closing the edge.                                                       *)
LEMMA CloseLays ==
  ASSUME NEW b, Numbered(b), NEW r, Laid(b, r)
  PROVE  LET c == Close(r)
         IN  /\ Laid(b, c) /\ Issued(c) = Issued(r) /\ Listed(c.segs) = Issued(r)
             /\ c.edge = {} /\ c.minted = r.minted /\ c.computes = r.computes
<1> DEFINE c == Close(r)
<1>1. /\ r \in Regions(b) /\ Layout(b, r.segs) /\ EdgeFits(r.edge)
      /\ Before(Listed(r.segs), r.edge) /\ r.minted = Loaded(r.segs, Len(r.segs))
  BY DEF Laid
<1>2. r.segs \in Seq(Segments(b)) /\ r.edge \subseteq Of(b) /\ Len(r.segs) # 0
  BY <1>1, RegionParts
<1>3. /\ c \in Regions(b) /\ c.segs = Append(r.segs, Segment({}, r.edge))
      /\ c.edge = {} /\ c.minted = r.minted /\ c.computes = r.computes
  BY <1>1, CloseStays
<1> HIDE DEF c
<1> DEFINE none == {}
<1>3a. /\ none = {} /\ AllFit(b, Listed(r.segs), none)
       /\ Sound(b, r.segs) /\ Joins(b, Listed(r.segs), r.edge)
       /\ c.segs = Extended(r.segs, none, r.edge)
  BY <1>1, <1>2, <1>3 DEF AllFit, Extended, Sound, Joins
<1> HIDE DEF none
<1>3b. /\ Layout(b, c.segs) /\ Listed(c.segs) = Listed(r.segs) \cup r.edge
      /\ Loaded(c.segs, Len(c.segs)) = Loaded(r.segs, Len(r.segs)) \cup none
  BY <1>3a, AppendLays
<1>4. /\ Layout(b, c.segs) /\ Listed(c.segs) = Listed(r.segs) \cup r.edge
      /\ Loaded(c.segs, Len(c.segs)) = Loaded(r.segs, Len(r.segs)) \cup {}
  BY <1>3a, <1>3b
<1>5. Laid(b, c)
  BY <1>1, <1>3, <1>4 DEF Laid, EdgeFits, Before
<1> QED BY <1>3, <1>4, <1>5 DEF Issued, c

(* Loading an index.                                                       *)
LEMMA LoadLays ==
  ASSUME NEW b, Numbered(b), NEW r, Laid(b, r), NEW p \in Indirects, LoadFits(b, Issued(r), p)
  PROVE  LET l == Load(r, p)
         IN  /\ Laid(b, l) /\ Issued(l) = Issued(r)
             /\ l.minted = r.minted \cup {p} /\ l.computes = r.computes
<1> DEFINE c == Settled(r)
           l == Load(r, p)
<1>1. r \in Regions(b)
  BY DEF Laid
<1>2. /\ c.edge = {} /\ c.minted = r.minted /\ c.computes = r.computes
      /\ l \in Regions(b) /\ l.segs = Append(c.segs, Segment({p}, {}))
      /\ l.edge = {} /\ l.minted = r.minted \cup {p} /\ l.computes = r.computes
  BY <1>1, LoadStays
<1>3. Laid(b, c) /\ Listed(c.segs) = Issued(r)
  <2>1. CASE r.edge = {}
    BY <2>1 DEF Issued, Settled
  <2>2. CASE r.edge # {}
    BY <2>2, CloseLays DEF Settled
  <2> QED BY <2>1, <2>2
<1> HIDE DEF c, l
<1>4. /\ c \in Regions(b) /\ Layout(b, c.segs) /\ c.minted = Loaded(c.segs, Len(c.segs))
  BY <1>3 DEF Laid
<1>5. c.segs \in Seq(Segments(b)) /\ Len(c.segs) # 0
  BY <1>4, RegionParts
<1>6. EdgeFits({}) /\ \A S : Before(S, {})
  BY DEF EdgeFits, Before
<1> DEFINE one == {p}
           none == {}
<1>7. /\ AllFit(b, Listed(c.segs), one)
      /\ Sound(b, c.segs) /\ Joins(b, Listed(c.segs), none)
      /\ l.segs = Extended(c.segs, one, none)
  BY <1>2, <1>3, <1>4, <1>5, <1>6 DEF AllFit, Extended, Sound, Joins
<1>6a. one = {p} /\ none = {}
  OBVIOUS
<1> HIDE DEF one, none
<1>7a. /\ Layout(b, l.segs) /\ Listed(l.segs) = Listed(c.segs) \cup none
       /\ Loaded(l.segs, Len(l.segs)) = Loaded(c.segs, Len(c.segs)) \cup one
  BY <1>7, AppendLays
<1>8. /\ Layout(b, l.segs) /\ Listed(l.segs) = Listed(c.segs) \cup {}
      /\ Loaded(l.segs, Len(l.segs)) = Loaded(c.segs, Len(c.segs)) \cup {p}
  BY <1>7a, <1>6a
<1>9. Laid(b, l)
  BY <1>2, <1>4, <1>6, <1>8 DEF Laid
<1> QED BY <1>2, <1>3, <1>8, <1>9 DEF Issued, l

(* A symbol assignment behind all that has been issued.                    *)
LEMMA AssignLays ==
  ASSUME NEW b, Numbered(b), NEW r, Laid(b, r), NEW st \in Of(b), IsSymbol(st),
         Before(Issued(r), {st})
  PROVE  LET a == AssignOnEdge(r, st)
         IN  /\ Laid(b, a) /\ Issued(a) = Issued(r) \cup {st} /\ a.minted = r.minted
<1> DEFINE c == IF ConflictsWithEdge(r.edge, st) THEN Close(r) ELSE r
           a == AssignOnEdge(r, st)
<1>1. r \in Regions(b)
  BY DEF Laid
<1>2. /\ a \in Regions(b) /\ a.segs = c.segs /\ a.edge = c.edge \cup {st}
      /\ a.minted = c.minted /\ c.minted = r.minted
  BY <1>1, AssignStays
<1>3. Laid(b, c) /\ Issued(c) = Issued(r) /\ ~ConflictsWithEdge(c.edge, st)
  <2>1. CASE ~ConflictsWithEdge(r.edge, st)
    BY <2>1
  <2>2. CASE ConflictsWithEdge(r.edge, st)
    BY <2>2, CloseLays DEF ConflictsWithEdge
  <2> QED BY <2>1, <2>2
<1> HIDE DEF c, a
<1>4. EdgeFits(a.edge)
  <2>1. ASSUME NEW e \in c.edge PROVE ~Clashing(e, st) /\ ~Clashing(st, e)
    <3>1. /\ e.target[1] \notin {st.target[1]} \cup Names(st)
          /\ st.target[1] \notin Names(e)
      BY <1>3 DEF ConflictsWithEdge
    <3>2. \A u : \A l \in u.reads : l[1] \in Names(u)
      BY DEF Names
    <3> QED BY <3>1, <3>2 DEF Clashing, Reaching
  <2>2. EdgeFits(c.edge)
    BY <1>3 DEF Laid
  <2> QED BY <1>2, <2>1, <2>2 DEF EdgeFits
<1>5. Before(Listed(a.segs), a.edge)
  <2>1. Before(Listed(c.segs), c.edge)
    BY <1>3 DEF Laid
  <2>2. Listed(c.segs) \subseteq Issued(r)
    BY <1>3 DEF Issued
  <2> QED BY <1>2, <2>1, <2>2 DEF Before
<1>6. Laid(b, a)
  BY <1>2, <1>3, <1>4, <1>5 DEF Laid
<1>7. Issued(a) = Issued(r) \cup {st}
  BY <1>2, <1>3 DEF Issued
<1> QED BY <1>2, <1>6, <1>7 DEF a

(* A compute behind all that has been issued.                              *)
LEMMA EmitLays ==
  ASSUME NEW b, Numbered(b), NEW r, Laid(b, r), r.edge = {}, NEW st \in Of(b), ~IsSymbol(st),
         Before(Issued(r), {st}), st.ind \subseteq r.minted
  PROVE  LET q == EmitInLast(r, st)
         IN  /\ Laid(b, q) /\ Issued(q) = Issued(r) \cup {st} /\ q.edge = {}
             /\ q.minted = r.minted
<1> DEFINE n == Len(r.segs)
           h == EmitTasklet(r.segs[n].g, st)
           q == EmitInLast(r, st)
<1>1. r \in Regions(b) /\ Layout(b, r.segs) /\ r.minted = Loaded(r.segs, n)
  BY DEF Laid
<1>2. /\ h \in Graphs(Parts(b)) /\ q \in Regions(b)
      /\ q.segs = [r.segs EXCEPT ![n] = [@ EXCEPT !.g = h]]
      /\ q.edge = r.edge /\ q.minted = r.minted
  BY <1>1, EmitStays
<1>3. r.segs \in Seq(Segments(b)) /\ n # 0 /\ n \in DOMAIN r.segs
      /\ r.segs[n].g \in Graphs(Parts(b))
  BY <1>1, RegionParts
<1>3c. st \in Of(b) /\ st.ind \subseteq Loaded(r.segs, n)
  BY <1>1
<1>4. Universe(Parts(b)) /\ Statement(Parts(b), st) /\ Stores(st) /\ Plain(st)
  BY PartsOfBody DEF Stores
<1>5. Tidy(r.segs[n].g)
  BY <1>1, <1>3 DEF Layout, Piece
<1>6. Grows(r.segs[n].g, h, st)
  BY <1>3, <1>4, <1>5, EmitTaskletGrows
<1>7. Before(Listed(r.segs), {st})
  BY DEF Issued, Before
<1> HIDE DEF h, q
<1>8. /\ Layout(b, q.segs) /\ Listed(q.segs) = Listed(r.segs) \cup {st}
      /\ Loaded(q.segs, Len(q.segs)) = Loaded(r.segs, n)
  <2> DEFINE next == [r.segs EXCEPT ![n] = [@ EXCEPT !.g = h]]
  <2>1. /\ Layout(b, next) /\ Listed(next) = Listed(r.segs) \cup {st}
        /\ Loaded(next, Len(next)) = Loaded(r.segs, n)
    <3> DEFINE segs == r.segs
    <3>1. /\ segs \in Seq(Segments(b)) /\ Len(segs) # 0 /\ Layout(b, segs)
          /\ Before(Listed(segs), {st}) /\ st.ind \subseteq Loaded(segs, Len(segs))
          /\ h \in Graphs(Parts(b)) /\ Grows(segs[Len(segs)].g, h, st)
      BY <1>1, <1>2, <1>3, <1>3c, <1>6, <1>7
    <3>2. next = [segs EXCEPT ![Len(segs)] = [@ EXCEPT !.g = h]] /\ n = Len(segs)
      OBVIOUS
    <3> HIDE DEF segs
    <3>3. segs = r.segs
      BY DEF segs
    <3>4. LET new == [segs EXCEPT ![Len(segs)] = [@ EXCEPT !.g = h]]
          IN  /\ Layout(b, new) /\ Listed(new) = Listed(segs) \cup {st}
              /\ Loaded(new, Len(new)) = Loaded(segs, Len(segs))
      BY <1>4, <3>1, GrowLays
    <3> QED BY <3>2, <3>3, <3>4
  <2>2. q.segs = next
    BY <1>2
  <2> QED BY <2>1, <2>2
<1>9. Laid(b, q)
  BY <1>1, <1>2, <1>8 DEF Laid, EdgeFits, Before
<1> QED BY <1>2, <1>8, <1>9 DEF Issued, q

(* The first state, empty.                                                 *)
LEMMA FirstLays ==
  ASSUME NEW b, Numbered(b)
  PROVE  /\ Laid(b, Close(Region)) /\ Issued(Close(Region)) = {}
         /\ Close(Region).edge = {} /\ Close(Region).minted = {} /\ Close(Region).computes = 0
<1> DEFINE c == Close(Region)
           s == Segment({}, {})
<1>1. /\ s \in Segments(b) /\ s.load = {} /\ s.edge = {} /\ s.g = EmptyState
      /\ Tidy(EmptyState) /\ CodeNodes(EmptyState) = {}
  BY EmptySegment
<1>2. c = [segs |-> <<s>>, edge |-> {}, minted |-> {}, computes |-> 0]
  <2> DEFINE f == Append(<<>>, s)
  <2>1. f = <<s>>
    OBVIOUS
  <2>2. c = [Region EXCEPT !.segs = f, !.edge = {}]
    BY DEF Close, Region
  <2>3. Region = [segs |-> Region.segs, edge |-> Region.edge, minted |-> Region.minted,
                  computes |-> Region.computes]
        /\ Region.minted = {} /\ Region.computes = 0
    BY DEF Region
  <2> HIDE DEF f, s, c
  <2> QED BY <2>1, <2>2, <2>3, RegionFields
<1> HIDE DEF s
<1>3. <<s>> \in Seq(Segments(b)) /\ Len(<<s>>) = 1 /\ DOMAIN <<s>> = {1} /\ <<s>>[1] = s
  BY <1>1
<1>4. c \in Regions(b)
  <2> DEFINE one == <<s>>
             none == {}
  <2>1. one \in Seq(Segments(b)) /\ Len(one) # 0 /\ none \in SUBSET Of(b)
        /\ none \in SUBSET Indirects /\ 0 \in Nat
    BY <1>3
  <2>2. c = [segs |-> one, edge |-> none, minted |-> none, computes |-> 0]
    BY <1>2
  <2> HIDE DEF one, none
  <2> QED BY <2>1, <2>2, PartsOfRegion
<1>5. Carried(s.g) = {} /\ Work(s) = {}
  BY <1>1 DEF Carried, Work
<1>6. Listed(<<s>>) = {} /\ Loaded(<<s>>, 1) = {}
  BY <1>1, <1>3, <1>5 DEF Listed, Loaded
<1>7. Piece(b, s)
  BY <1>1, <1>5 DEF Piece, EdgeFits, Before
<1>8. Layout(b, <<s>>)
  BY <1>1, <1>3, <1>5, <1>7 DEF Layout
<1> HIDE DEF c
<1>9. c.segs = <<s>> /\ c.edge = {} /\ c.minted = {} /\ c.computes = 0
  BY <1>2
<1>10. Laid(b, c) /\ Issued(c) = {}
  BY <1>3, <1>4, <1>6, <1>8, <1>9 DEF Laid, Issued, EdgeFits, Before
<1> QED BY <1>9, <1>10 DEF c

-----------------------------------------------------------------------------
(* The loads of several indices: what has been loaded when those of s are. *)
LoadsFold(r, S, F) ==
  /\ F[{}] = r /\ F[S] = FoldSet(LAMBDA p, c : Load(c, p), r, S)
  /\ \A s \in SUBSET S : s # {} => \E p \in s : F[s] = Load(F[s \ {p}], p)

(* They happen one after the other, in some order.                         *)
LEMMA LoadsInTurn ==
  ASSUME NEW b, Numbered(b), NEW r \in Regions(b),
         NEW S, IsFiniteSet(S), S \subseteq Indirects
  PROVE  \E F : LoadsFold(r, S, F)
<1> DEFINE
  G == Regions(b)
  op == [p \in S \X G |-> Load(p[2], p[1])]
  some(s) == CHOOSE x \in s : TRUE
  pick == [s \in SUBSET S |-> some(s)]
<1>1. \A p \in S, q \in G : Load(q, p) \in G
  BY LoadStays
<1>2. op \in [S \X G -> G]
  <2> HIDE DEF G
  <2> QED BY <1>1
<1>3. \A s \in SUBSET S : s # {} => pick[s] \in s /\ some(s) \in s
  OBVIOUS
<1>4. PICK f \in [SUBSET S -> G] : FoldOver(f, S, r, op, pick)
  <2>1. \A s \in SUBSET S : s # {} => pick[s] \in s
    BY <1>3
  <2> HIDE DEF G, op, pick
  <2>2. r \in G
    BY DEF G
  <2> QED BY <1>2, <2>1, <2>2, FoldExists
<1>5. f = [s \in SUBSET S |->
             IF s = {} THEN r ELSE Load(f[s \ {some(s)}], some(s))]
  <2> HIDE DEF G, some
  <2>1. \A s \in SUBSET S : s # {} =>
          /\ <<some(s), f[s \ {some(s)}]>> \in S \X G /\ pick[s] = some(s)
    BY <1>3
  <2>2. \A s \in SUBSET S : s # {} => f[s] = Load(f[s \ {some(s)}], some(s))
    BY <1>4, <2>1 DEF FoldOver
  <2> HIDE DEF op, pick
  <2> QED BY <1>4, <2>2 DEF FoldOver
<1>6. PICK F : /\ F = [s \in SUBSET S |->
                         IF s = {} THEN r
                         ELSE LET x == CHOOSE x \in s : TRUE IN Load(F[s \ {x}], x)]
               /\ FoldSet(LAMBDA p, c : Load(c, p), r, S) = F[S]
  <2>1. f = [s \in SUBSET S |->
               IF s = {} THEN r
               ELSE LET x == CHOOSE x \in s : TRUE IN Load(f[s \ {x}], x)]
    BY <1>5
  <2> QED BY <2>1 DEF FoldSet, MapThenFoldSet
<1>7. \A s \in SUBSET S : s # {} => some(s) \in s /\ F[s] = Load(F[s \ {some(s)}], some(s))
  BY <1>3, <1>6
<1>8. F[{}] = r
  BY <1>6
<1>9. \A s \in SUBSET S : s # {} => \E p \in s : F[s] = Load(F[s \ {p}], p)
  <2> HIDE DEF some
  <2> QED BY <1>7
<1> QED BY <1>6, <1>8, <1>9 DEF LoadsFold

(* They make a region.                                                     *)
LEMMA LoadAllStays ==
  ASSUME NEW b, Numbered(b), NEW r \in Regions(b),
         NEW S, IsFiniteSet(S), S \subseteq Indirects
  PROVE  LoadAll(r, S) \in Regions(b)
<1> DEFINE D == S \ r.minted
           G == Regions(b)
<1>1. IsFiniteSet(D) /\ D \subseteq Indirects
  BY FS_Subset
<1>2. LoadAll(r, S) = FoldSet(LAMBDA p, c : Load(c, p), r, D)
  BY DEF LoadAll
<1> HIDE DEF D
<1>3. PICK F : LoadsFold(r, D, F)
  BY <1>1, LoadsInTurn
<1>4. F[{}] \in G
  BY <1>3 DEF LoadsFold
<1>5. ASSUME NEW s \in SUBSET D, s # {}
      PROVE  \E p \in s : F[s \ {p}] \in G => F[s] \in G
  <2>1. PICK p \in s : F[s] = Load(F[s \ {p}], p)
    BY <1>3, <1>5 DEF LoadsFold
  <2>2. p \in Indirects
    BY <1>1
  <2>3. \A q \in G : Load(q, p) \in G
    BY <2>2, LoadStays
  <2> QED BY <2>1, <2>3
<1> HIDE DEF G
<1>6. F[D] \in G
  BY <1>1, <1>4, <1>5, FoldStays
<1> QED BY <1>2, <1>3, <1>6 DEF LoadsFold, G

(* Loads that fit what has been issued are laid out.                       *)
LEMMA LoadAllLays ==
  ASSUME NEW b, Numbered(b), NEW r, Laid(b, r),
         NEW S, IsFiniteSet(S), S \subseteq Indirects,
         \A p \in S \ r.minted : LoadFits(b, Issued(r), p)
  PROVE  LET l == LoadAll(r, S)
         IN  /\ Laid(b, l) /\ Issued(l) = Issued(r)
             /\ l.minted = r.minted \cup S /\ l.computes = r.computes
<1> DEFINE D == S \ r.minted
           Fine(s, q) == /\ Laid(b, q) /\ Issued(q) = Issued(r)
                         /\ q.minted = r.minted \cup s /\ q.computes = r.computes
<1>1. /\ IsFiniteSet(D) /\ D \subseteq Indirects /\ r.minted \cup D = r.minted \cup S
      /\ \A p \in D : LoadFits(b, Issued(r), p)
  BY FS_Subset
<1>2. LoadAll(r, S) = FoldSet(LAMBDA p, c : Load(c, p), r, D)
  BY DEF LoadAll
<1> HIDE DEF D
<1>3. PICK F : LoadsFold(r, D, F)
  <2>1. r \in Regions(b)
    BY DEF Laid
  <2> QED BY <1>1, <2>1, LoadsInTurn
<1> DEFINE G == {z \in {<<s, F[s]>> : s \in SUBSET D} : Fine(z[1], z[2])}
           f == [s \in SUBSET D |-> <<s, F[s]>>]
<1>4. \A s \in SUBSET D : f[s] = <<s, F[s]>> /\ (f[s] \in G <=> Fine(s, F[s]))
  OBVIOUS
<1>5. Fine({}, F[{}])
  BY <1>3 DEF LoadsFold
<1>6. ASSUME NEW s \in SUBSET D, s # {}
      PROVE  \E p \in s : Fine(s \ {p}, F[s \ {p}]) => Fine(s, F[s])
  <2>1. PICK p \in s : F[s] = Load(F[s \ {p}], p)
    BY <1>3, <1>6 DEF LoadsFold
  <2>2. p \in Indirects /\ LoadFits(b, Issued(r), p) /\ s = (s \ {p}) \cup {p}
    BY <1>1
  <2> DEFINE q == F[s \ {p}]
  <2>3. ASSUME Fine(s \ {p}, q) PROVE Fine(s, Load(q, p))
    <3> HIDE DEF q
    <3>1. /\ Laid(b, Load(q, p)) /\ Issued(Load(q, p)) = Issued(q)
          /\ Load(q, p).minted = q.minted \cup {p} /\ Load(q, p).computes = q.computes
      BY <2>2, <2>3, LoadLays
    <3> QED BY <2>2, <2>3, <3>1
  <2> QED BY <2>1, <2>3
<1> HIDE DEF Fine
<1>7. f[D] \in G
  <2>1. f[{}] \in G
    BY <1>4, <1>5
  <2>2. \A s \in SUBSET D : s # {} => \E p \in s : f[s \ {p}] \in G => f[s] \in G
    <3> HIDE DEF f, G
    <3>1. \A s \in SUBSET D : \A p \in s : s \ {p} \in SUBSET D
      OBVIOUS
    <3> QED BY <1>4, <1>6, <3>1
  <2> HIDE DEF f, G
  <2> QED BY <1>1, <2>1, <2>2, FoldStays
<1>8. Fine(D, F[D])
  BY <1>4, <1>7
<1>9. LoadAll(r, S) = F[D]
  BY <1>2, <1>3 DEF LoadsFold
<1> QED BY <1>1, <1>8, <1>9 DEF Fine


-----------------------------------------------------------------------------
(* The statements of a body, one after the other.                          *)

(* The first numbers.                                                      *)
LEMMA UpTo ==
  ASSUME NEW n \in Nat, NEW m \in 1 .. n
  PROVE  /\ 1 .. m \in SUBSET (1 .. n) /\ 1 .. m # {} /\ Max(1 .. m) = m
         /\ (1 .. m) \ {m} = 1 .. m - 1
<1>1. 1 .. m \in SUBSET (1 .. n) /\ m \in 1 .. m
  OBVIOUS
<1>2. Max(1 .. m) \in 1 .. m /\ m <= Max(1 .. m)
  BY <1>1, LastIndex
<1>3. (1 .. m) \ {m} = 1 .. m - 1
  OBVIOUS
<1> QED BY <1>1, <1>2, <1>3

(* What is emitted for a statement makes a region.                         *)
LEMMA StatementStays ==
  ASSUME NEW b, Numbered(b), NEW r \in Regions(b), NEW st \in Of(b)
  PROVE  /\ EmitInOrder(b, r, st) \in Regions(b)
         /\ HoistSymbol(r, st) \in Regions(b)
         /\ EmitCompute(b, r, st) \in Regions(b)
<1>1. \A q \in Regions(b) : /\ Close(q) \in Regions(b) /\ AssignOnEdge(q, st) \in Regions(b)
                            /\ EmitInLast(q, st) \in Regions(b)
  BY CloseStays, AssignStays, EmitStays
<1>2. LoadAll(r, st.ind) \in Regions(b)
  <2>1. IsFiniteSet(st.ind) /\ st.ind \subseteq Indirects
    BY PartsOfBody DEF Proper
  <2> QED BY <2>1, LoadAllStays
<1> QED BY <1>1, <1>2 DEF EmitInOrder, HoistSymbol, EmitCompute

(* The source-order path.                                                 *)
LEMMA EmittedInOrder ==
  ASSUME NEW b, Numbered(b), NEW r \in Regions(b)
  PROVE  \E R : /\ R[0] = r /\ R[Len(b)] = FoldLeft(LAMBDA c, st : EmitInOrder(b, c, st), r, b)
               /\ \A m \in 1 .. Len(b) : R[m] = EmitInOrder(b, R[m - 1], b[m])
<1> DEFINE
  n == Len(b)
  S == 1 .. n
  G == Regions(b)
  op == [p \in S \X G |-> EmitInOrder(b, p[2], b[p[1]])]
  pick == [s \in SUBSET S |-> Max(s)]
<1>1. n \in Nat /\ DOMAIN b = S
  BY DEF Numbered
<1>2. IsFiniteSet(S)
  BY <1>1, FS_Interval
<1>3. \A i \in S, q \in G : EmitInOrder(b, q, b[i]) \in G
  BY <1>1, StatementStays DEF Of
<1>4. \A s \in SUBSET S : s # {} => Max(s) \in s /\ \A j \in s : j <= Max(s)
  BY <1>1, LastIndex
<1>5. \A m \in S : /\ 1 .. m \in SUBSET S /\ 1 .. m # {} /\ Max(1 .. m) = m
                   /\ (1 .. m) \ {m} = 1 .. m - 1
  BY <1>1, UpTo
<1> HIDE DEF S, G
<1>6. op \in [S \X G -> G]
  BY <1>3
<1>7. \A s \in SUBSET S : s # {} => pick[s] \in s
  BY <1>4
<1>8. PICK f \in [SUBSET S -> G] : FoldOver(f, S, r, op, pick)
  <2> HIDE DEF op, pick
  <2>1. r \in G
    BY DEF G
  <2> QED BY <1>2, <1>6, <1>7, <2>1, FoldExists
<1>9. f = [s \in SUBSET S |->
             IF s = {} THEN r ELSE LET x == Max(s) IN EmitInOrder(b, f[s \ {x}], b[x])]
  <2>1. \A s \in SUBSET S : s # {} =>
          <<Max(s), f[s \ {Max(s)}]>> \in S \X G /\ pick[s] = Max(s)
    BY <1>4
  <2>2. \A s \in SUBSET S : s # {} =>
          f[s] = EmitInOrder(b, f[s \ {Max(s)}], b[Max(s)])
    BY <1>8, <2>1 DEF FoldOver
  <2> HIDE DEF op, pick
  <2> QED BY <1>8, <2>2 DEF FoldOver
<1>10. PICK F : /\ F = [s \in SUBSET S |->
                          IF s = {} THEN r
                          ELSE LET x == Max(s) IN EmitInOrder(b, F[s \ {x}], b[x])]
                /\ FoldLeft(LAMBDA c, st : EmitInOrder(b, c, st), r, b) = F[S]
  BY <1>1, <1>9 DEF FoldLeft, MapThenFoldSet
<1> DEFINE R == [m \in 0 .. n |-> F[1 .. m]]
<1>11. R[0] = r
  <2>1. 1 .. 0 = {} /\ {} \in SUBSET S /\ 0 \in 0 .. n
    BY <1>1
  <2>2. F[{}] = r
    BY <1>10, <2>1
  <2> QED BY <2>1, <2>2
<1>12. R[n] = F[S]
  BY <1>1 DEF S
<1>13. ASSUME NEW m \in S PROVE R[m] = EmitInOrder(b, R[m - 1], b[m])
  <2>1. R[m] = F[1 .. m] /\ R[m - 1] = F[1 .. m - 1]
    BY <1>1 DEF S
  <2>2. F[1 .. m] = EmitInOrder(b, F[(1 .. m) \ {m}], b[m])
    BY <1>5, <1>10
  <2> HIDE DEF R
  <2> QED BY <1>5, <2>1, <2>2
<1> HIDE DEF R
<1> QED BY <1>10, <1>11, <1>12, <1>13 DEF S

(* The symbol assignments of the fast path.                               *)
LEMMA HoistedInOrder ==
  ASSUME NEW b, Numbered(b), NEW r \in Regions(b)
  PROVE  \E R : /\ R[0] = r /\ R[Len(b)] = FoldLeft(HoistSymbol, r, b)
               /\ \A m \in 1 .. Len(b) : R[m] = HoistSymbol(R[m - 1], b[m])
<1> DEFINE
  n == Len(b)
  S == 1 .. n
  G == Regions(b)
  op == [p \in S \X G |-> HoistSymbol(p[2], b[p[1]])]
  pick == [s \in SUBSET S |-> Max(s)]
<1>1. n \in Nat /\ DOMAIN b = S
  BY DEF Numbered
<1>2. IsFiniteSet(S)
  BY <1>1, FS_Interval
<1>3. \A i \in S, q \in G : HoistSymbol(q, b[i]) \in G
  BY <1>1, StatementStays DEF Of
<1>4. \A s \in SUBSET S : s # {} => Max(s) \in s /\ \A j \in s : j <= Max(s)
  BY <1>1, LastIndex
<1>5. \A m \in S : /\ 1 .. m \in SUBSET S /\ 1 .. m # {} /\ Max(1 .. m) = m
                   /\ (1 .. m) \ {m} = 1 .. m - 1
  BY <1>1, UpTo
<1> HIDE DEF S, G
<1>6. op \in [S \X G -> G]
  BY <1>3
<1>7. \A s \in SUBSET S : s # {} => pick[s] \in s
  BY <1>4
<1>8. PICK f \in [SUBSET S -> G] : FoldOver(f, S, r, op, pick)
  <2> HIDE DEF op, pick
  <2>1. r \in G
    BY DEF G
  <2> QED BY <1>2, <1>6, <1>7, <2>1, FoldExists
<1>9. f = [s \in SUBSET S |->
             IF s = {} THEN r ELSE LET x == Max(s) IN HoistSymbol(f[s \ {x}], b[x])]
  <2>1. \A s \in SUBSET S : s # {} =>
          <<Max(s), f[s \ {Max(s)}]>> \in S \X G /\ pick[s] = Max(s)
    BY <1>4
  <2>2. \A s \in SUBSET S : s # {} =>
          f[s] = HoistSymbol(f[s \ {Max(s)}], b[Max(s)])
    BY <1>8, <2>1 DEF FoldOver
  <2> HIDE DEF op, pick
  <2> QED BY <1>8, <2>2 DEF FoldOver
<1>10. PICK F : /\ F = [s \in SUBSET S |->
                          IF s = {} THEN r
                          ELSE LET x == Max(s) IN HoistSymbol(F[s \ {x}], b[x])]
                /\ FoldLeft(HoistSymbol, r, b) = F[S]
  BY <1>1, <1>9 DEF FoldLeft, MapThenFoldSet
<1> DEFINE R == [m \in 0 .. n |-> F[1 .. m]]
<1>11. R[0] = r
  <2>1. 1 .. 0 = {} /\ {} \in SUBSET S /\ 0 \in 0 .. n
    BY <1>1
  <2>2. F[{}] = r
    BY <1>10, <2>1
  <2> QED BY <2>1, <2>2
<1>12. R[n] = F[S]
  BY <1>1 DEF S
<1>13. ASSUME NEW m \in S PROVE R[m] = HoistSymbol(R[m - 1], b[m])
  <2>1. R[m] = F[1 .. m] /\ R[m - 1] = F[1 .. m - 1]
    BY <1>1 DEF S
  <2>2. F[1 .. m] = HoistSymbol(F[(1 .. m) \ {m}], b[m])
    BY <1>5, <1>10
  <2> HIDE DEF R
  <2> QED BY <1>5, <2>1, <2>2
<1> HIDE DEF R
<1> QED BY <1>10, <1>11, <1>12, <1>13 DEF S

(* Its computes.                                                          *)
LEMMA ComputedInOrder ==
  ASSUME NEW b, Numbered(b), NEW r \in Regions(b)
  PROVE  \E R : /\ R[0] = r /\ R[Len(b)] = FoldLeft(LAMBDA c, st : EmitCompute(b, c, st), r, b)
               /\ \A m \in 1 .. Len(b) : R[m] = EmitCompute(b, R[m - 1], b[m])
<1> DEFINE
  n == Len(b)
  S == 1 .. n
  G == Regions(b)
  op == [p \in S \X G |-> EmitCompute(b, p[2], b[p[1]])]
  pick == [s \in SUBSET S |-> Max(s)]
<1>1. n \in Nat /\ DOMAIN b = S
  BY DEF Numbered
<1>2. IsFiniteSet(S)
  BY <1>1, FS_Interval
<1>3. \A i \in S, q \in G : EmitCompute(b, q, b[i]) \in G
  BY <1>1, StatementStays DEF Of
<1>4. \A s \in SUBSET S : s # {} => Max(s) \in s /\ \A j \in s : j <= Max(s)
  BY <1>1, LastIndex
<1>5. \A m \in S : /\ 1 .. m \in SUBSET S /\ 1 .. m # {} /\ Max(1 .. m) = m
                   /\ (1 .. m) \ {m} = 1 .. m - 1
  BY <1>1, UpTo
<1> HIDE DEF S, G
<1>6. op \in [S \X G -> G]
  BY <1>3
<1>7. \A s \in SUBSET S : s # {} => pick[s] \in s
  BY <1>4
<1>8. PICK f \in [SUBSET S -> G] : FoldOver(f, S, r, op, pick)
  <2> HIDE DEF op, pick
  <2>1. r \in G
    BY DEF G
  <2> QED BY <1>2, <1>6, <1>7, <2>1, FoldExists
<1>9. f = [s \in SUBSET S |->
             IF s = {} THEN r ELSE LET x == Max(s) IN EmitCompute(b, f[s \ {x}], b[x])]
  <2>1. \A s \in SUBSET S : s # {} =>
          <<Max(s), f[s \ {Max(s)}]>> \in S \X G /\ pick[s] = Max(s)
    BY <1>4
  <2>2. \A s \in SUBSET S : s # {} =>
          f[s] = EmitCompute(b, f[s \ {Max(s)}], b[Max(s)])
    BY <1>8, <2>1 DEF FoldOver
  <2> HIDE DEF op, pick
  <2> QED BY <1>8, <2>2 DEF FoldOver
<1>10. PICK F : /\ F = [s \in SUBSET S |->
                          IF s = {} THEN r
                          ELSE LET x == Max(s) IN EmitCompute(b, F[s \ {x}], b[x])]
                /\ FoldLeft(LAMBDA c, st : EmitCompute(b, c, st), r, b) = F[S]
  BY <1>1, <1>9 DEF FoldLeft, MapThenFoldSet
<1> DEFINE R == [m \in 0 .. n |-> F[1 .. m]]
<1>11. R[0] = r
  <2>1. 1 .. 0 = {} /\ {} \in SUBSET S /\ 0 \in 0 .. n
    BY <1>1
  <2>2. F[{}] = r
    BY <1>10, <2>1
  <2> QED BY <2>1, <2>2
<1>12. R[n] = F[S]
  BY <1>1 DEF S
<1>13. ASSUME NEW m \in S PROVE R[m] = EmitCompute(b, R[m - 1], b[m])
  <2>1. R[m] = F[1 .. m] /\ R[m - 1] = F[1 .. m - 1]
    BY <1>1 DEF S
  <2>2. F[1 .. m] = EmitCompute(b, F[(1 .. m) \ {m}], b[m])
    BY <1>5, <1>10
  <2> HIDE DEF R
  <2> QED BY <1>5, <2>1, <2>2
<1> HIDE DEF R
<1> QED BY <1>10, <1>11, <1>12, <1>13 DEF S

-----------------------------------------------------------------------------
(* The source-order path.                                                  *)
Stable(b) ==
  \A m, n \in DOMAIN b : m < n =>
    \A p \in b[m].ind \cap b[n].ind : \A j \in m .. (n - 1) : b[j].target[1] \notin {p[1], p[2]}
First(b, m) == {b[i] : i \in 1 .. m}
FirstIndirects(b, m) == UNION {b[i].ind : i \in 1 .. m}

(* Statements of a body are told apart by their numbers.                   *)
LEMMA NumberedStatements ==
  ASSUME NEW b, Numbered(b), NEW m \in 1 .. Len(b)
  PROVE  /\ Len(b) \in Nat /\ m \in DOMAIN b /\ b[m] \in Of(b) /\ b[m].id = m
         /\ \A v \in Of(b) : v.id \in 1 .. Len(b) /\ b[v.id] = v
         /\ \A v \in Of(b) : v \in First(b, m - 1) <=> v.id < m
         /\ First(b, m) = First(b, m - 1) \cup {b[m]} /\ First(b, m - 1) \subseteq Of(b)
         /\ FirstIndirects(b, m) = FirstIndirects(b, m - 1) \cup b[m].ind
         /\ Before(First(b, m - 1), {b[m]})
<1>1. /\ Len(b) \in Nat /\ DOMAIN b = 1 .. Len(b) /\ m \in DOMAIN b /\ b[m] \in Of(b)
      /\ \A i \in DOMAIN b : b[i].id = i
  BY DEF Numbered, Of
<1>2. \A v \in Of(b) : v.id \in 1 .. Len(b) /\ b[v.id] = v
  BY <1>1 DEF Of
<1>3. 1 .. m = (1 .. m - 1) \cup {m} /\ \A i \in 1 .. m - 1 : i \in DOMAIN b /\ i < m
  BY <1>1
<1>4. ASSUME NEW v \in Of(b) PROVE v \in First(b, m - 1) <=> v.id < m
  <2>1. v.id \in 1 .. Len(b) /\ b[v.id] = v
    BY <1>2
  <2>2. v \in First(b, m - 1) => v.id < m
    BY <1>1, <1>3 DEF First
  <2>3. v.id < m => v \in First(b, m - 1)
    BY <1>1, <2>1 DEF First
  <2> QED BY <2>2, <2>3
<1>5. First(b, m) = First(b, m - 1) \cup {b[m]}
      /\ FirstIndirects(b, m) = FirstIndirects(b, m - 1) \cup b[m].ind
  BY <1>3 DEF First, FirstIndirects
<1>6. First(b, m - 1) \subseteq Of(b)
  BY <1>3 DEF First, Of
<1>7. Before(First(b, m - 1), {b[m]})
  <2>1. ASSUME NEW w \in First(b, m - 1) PROVE w.id \in Nat /\ w.id < m
    BY <1>1, <1>3 DEF First
  <2> QED BY <1>1, <2>1 DEF Before, Follows
<1> QED BY <1>1, <1>2, <1>4, <1>5, <1>6, <1>7

(* One statement.                                                          *)
LEMMA EmitInOrderLays ==
  ASSUME NEW b, Numbered(b), Stable(b), NEW m \in 1 .. Len(b), NEW r, Laid(b, r),
         Issued(r) = First(b, m - 1), r.minted = FirstIndirects(b, m - 1)
  PROVE  LET q == EmitInOrder(b, r, b[m])
         IN  /\ Laid(b, q) /\ Issued(q) = First(b, m) /\ q.minted = FirstIndirects(b, m)
<1> DEFINE st == b[m]
           l == LoadAll(r, st.ind)
           q == EmitInOrder(b, r, st)
           c == IF \/ l.computes = 0 \/ l.edge # {} \/ SiblingRwHazard(b)
                   \/ ScalarReassign(LastGraph(l), st)
                THEN Close(l) ELSE l
<1>1. /\ Len(b) \in Nat /\ m \in DOMAIN b /\ st \in Of(b) /\ st.id = m
      /\ \A v \in Of(b) : v.id \in 1 .. Len(b) /\ b[v.id] = v
      /\ \A v \in Of(b) : v \in First(b, m - 1) <=> v.id < m
      /\ First(b, m) = First(b, m - 1) \cup {st}
      /\ FirstIndirects(b, m) = FirstIndirects(b, m - 1) \cup st.ind
      /\ Before(First(b, m - 1), {st})
  BY NumberedStatements
<1>2. IsFiniteSet(st.ind) /\ st.ind \subseteq Indirects
  BY <1>1, PartsOfBody DEF Proper
<1>3. ASSUME NEW p \in st.ind \ r.minted PROVE LoadFits(b, Issued(r), p)
  <2> SUFFICES ASSUME NEW v \in Of(b), p \in v.ind
               PROVE  /\ v \notin First(b, m - 1)
                      /\ \A w \in Of(b) : w.target \in IndexLocations(p) =>
                           (w \in First(b, m - 1) <=> w.id < v.id)
    BY DEF LoadFits
  <2>1. v.id \in 1 .. Len(b) /\ b[v.id] = v
    BY <1>1
  <2>2. ~(v.id < m)
    <3>1. v.id < m => v.id \in 1 .. m - 1
      BY <1>1, <2>1
    <3> QED BY <1>3, <2>1, <3>1 DEF FirstIndirects
  <2>3. ASSUME NEW w \in Of(b), w.target \in IndexLocations(p), ~(w.id < m), w.id < v.id
        PROVE  FALSE
    <3>1. w.id \in 1 .. Len(b) /\ b[w.id] = w
      BY <1>1
    <3>2. w.id \in m .. v.id - 1 /\ m < v.id /\ DOMAIN b = 1 .. Len(b)
      BY <1>1, <2>1, <2>3, <3>1 DEF Numbered
    <3>3. w.target[1] \notin {p[1], p[2]}
      BY <1>1, <1>3, <2>1, <3>1, <3>2 DEF Stable
    <3> QED BY <2>3, <3>3 DEF IndexLocations
  <2>4. ASSUME NEW w \in Of(b), w.id < m PROVE w.id < v.id
    BY <1>1, <2>1, <2>2, <2>4
  <2> QED BY <1>1, <2>2, <2>3, <2>4
<1>4. /\ Laid(b, l) /\ Issued(l) = First(b, m - 1) /\ l.minted = FirstIndirects(b, m)
  <2> HIDE DEF st
  <2>1. /\ Laid(b, l) /\ Issued(l) = Issued(r) /\ l.minted = r.minted \cup st.ind
    BY <1>2, <1>3, LoadAllLays
  <2> QED BY <1>1, <2>1
<1>5. q = IF IsSymbol(st) THEN AssignOnEdge(l, st) ELSE EmitInLast(c, st)
  BY DEF EmitInOrder
<1> HIDE DEF l
<1>6. /\ Laid(b, c) /\ Issued(c) = First(b, m - 1) /\ c.minted = FirstIndirects(b, m)
      /\ c.edge = {}
  <2>1. /\ Laid(b, Close(l)) /\ Issued(Close(l)) = Issued(l)
        /\ Close(l).minted = l.minted /\ Close(l).edge = {}
    BY <1>4, CloseLays
  <2> QED BY <1>4, <2>1
<1> HIDE DEF c, q
<1>7. CASE IsSymbol(st)
  <2>1. /\ Laid(b, AssignOnEdge(l, st)) /\ Issued(AssignOnEdge(l, st)) = Issued(l) \cup {st}
        /\ AssignOnEdge(l, st).minted = l.minted
    <3> HIDE DEF st
    <3> QED BY <1>1, <1>4, <1>7, AssignLays
  <2> QED BY <1>1, <1>4, <1>5, <1>7, <2>1 DEF q
<1>8. CASE ~IsSymbol(st)
  <2>1. st.ind \subseteq c.minted
    BY <1>1, <1>6
  <2>2. /\ Laid(b, EmitInLast(c, st)) /\ Issued(EmitInLast(c, st)) = Issued(c) \cup {st}
        /\ EmitInLast(c, st).minted = c.minted
    <3> HIDE DEF st
    <3> QED BY <1>1, <1>6, <1>8, <2>1, EmitLays
  <2> QED BY <1>1, <1>5, <1>6, <1>8, <2>2 DEF q
<1> QED BY <1>7, <1>8

(* A lowered body: its statements, laid out.                               *)
Covers(b, segs) ==
  segs \in Seq(Segments(b)) /\ Len(segs) # 0 /\ Layout(b, segs) /\ Listed(segs) = Of(b)

(* The source-order path makes one of every body.                          *)
LEMMA SourceOrderLays ==
  ASSUME NEW b, Numbered(b), Stable(b)
  PROVE  Covers(b, SourceOrder(b))
<1> DEFINE n == Len(b)
           Fine(m, q) == Laid(b, q) /\ Issued(q) = First(b, m) /\ q.minted = FirstIndirects(b, m)
           r == Close(Region)
           e == FoldLeft(LAMBDA c, st : EmitInOrder(b, c, st), r, b)
<1>1. Fine(0, r) /\ r \in Regions(b)
  <2>1. First(b, 0) = {} /\ FirstIndirects(b, 0) = {}
    BY DEF First, FirstIndirects
  <2> QED BY <2>1, FirstLays DEF Laid
<1>2. PICK R : /\ R[0] = r /\ R[n] = e
               /\ \A m \in 1 .. n : R[m] = EmitInOrder(b, R[m - 1], b[m])
  <2> HIDE DEF r
  <2> QED BY <1>1, EmittedInOrder
<1>3. SourceOrder(b) = IF e.edge = {} THEN e.segs ELSE Close(e).segs
  BY DEF SourceOrder
<1>4. n \in Nat /\ DOMAIN b = 1 .. n
  BY DEF Numbered
<1> HIDE DEF r, e, n
<1> DEFINE T == {m \in Nat : m <= n => Fine(m, R[m])}
<1>5. 0 \in T
  BY <1>1, <1>2
<1>6. ASSUME NEW m \in Nat, m \in T PROVE m + 1 \in T
  <2> SUFFICES ASSUME m + 1 <= n PROVE Fine(m + 1, R[m + 1])
    OBVIOUS
  <2>1. m + 1 \in 1 .. n /\ (m + 1) - 1 = m /\ Fine(m, R[m])
    BY <1>4, <1>6
  <2>2. R[m + 1] = EmitInOrder(b, R[m], b[m + 1])
    BY <1>2, <2>1
  <2> DEFINE k == m + 1
             q == R[m]
  <2>3. k \in 1 .. Len(b) /\ k - 1 = m
    BY <2>1 DEF n
  <2> HIDE DEF k, q
  <2>4. Laid(b, q) /\ Issued(q) = First(b, k - 1) /\ q.minted = FirstIndirects(b, k - 1)
    BY <2>1, <2>3 DEF q
  <2>5. Fine(k, EmitInOrder(b, q, b[k]))
    BY <2>3, <2>4, EmitInOrderLays
  <2> QED BY <2>2, <2>5 DEF k, q
<1>7. Fine(n, e)
  <2> HIDE DEF T
  <2>1. n \in T
    BY <1>4, <1>5, <1>6, AllNumbers
  <2> QED BY <1>2, <1>4, <2>1 DEF T
<1>8. First(b, n) = Of(b)
  BY <1>4 DEF First, Of
<1>9. CASE e.edge = {}
  <2>1. Laid(b, e) /\ Listed(e.segs) = Of(b)
    BY <1>7, <1>8, <1>9 DEF Issued
  <2>2. e.segs \in Seq(Segments(b)) /\ Len(e.segs) # 0
    BY <2>1, RegionParts DEF Laid
  <2> QED BY <1>3, <1>9, <2>1, <2>2 DEF Covers, Laid
<1>10. CASE e.edge # {}
  <2>1. Laid(b, Close(e)) /\ Listed(Close(e).segs) = Of(b)
    BY <1>7, <1>8, CloseLays
  <2>2. Close(e).segs \in Seq(Segments(b)) /\ Len(Close(e).segs) # 0
    BY <2>1, RegionParts DEF Laid
  <2> QED BY <1>3, <1>10, <2>1, <2>2 DEF Covers, Laid
<1> QED BY <1>9, <1>10

-----------------------------------------------------------------------------
(* The fast path.                                                          *)
Hoistable(b) == ~HoistReadsSkipped(b) /\ ~OverwrittenAfterRead(b)
SymbolsOf(S) == {v \in S : IsSymbol(v)}

(* Nothing assigns the array or the symbol of an index, no symbol reads a  *)
(* compute and no compute reads a symbol assigned behind it.               *)
LEMMA HoistableBody ==
  ASSUME NEW b, Numbered(b), Hoistable(b)
  PROVE  /\ \A p \in BodyIndirects(b), w \in Of(b) : w.target \notin IndexLocations(p)
         /\ \A w, v \in Of(b) : IsSymbol(w) /\ ~IsSymbol(v) => Follows(w, v)
<1>0. /\ DOMAIN b = 1 .. Len(b) /\ Len(b) \in Nat
      /\ \A v \in Of(b) : v.id \in DOMAIN b /\ b[v.id] = v
      /\ \A u : \A l \in u.reads : l[1] \in Names(u)
  BY DEF Numbered, Of, Names
<1>1. ASSUME NEW p \in BodyIndirects(b), NEW w \in Of(b), w.target \in IndexLocations(p)
      PROVE  FALSE
  <2>1. w.target[1] \in {p[1], p[2]}
    BY <1>1 DEF IndexLocations
  <2>2. w.target[1] \in ComputeTargets(b) \cup SymbolTargets(b)
    BY <1>0 DEF ComputeTargets, SymbolTargets
  <2> QED BY <2>1, <2>2 DEF Hoistable, HoistReadsSkipped
<1>2. ASSUME NEW w \in Of(b), NEW v \in Of(b), IsSymbol(w), ~IsSymbol(v), Clashing(w, v)
      PROVE  w.id < v.id
  <2>1. w.target[1] # v.target[1]
    BY <1>2 DEF IsSymbol
  <2>2. v.target \notin w.reads
    <3>1. v.target[1] \in ComputeTargets(b)
      BY <1>0, <1>2 DEF ComputeTargets
    <3>2. Names(w) \cap ComputeTargets(b) = {}
      BY <1>0, <1>2 DEF Hoistable, HoistReadsSkipped
    <3> QED BY <1>0, <3>1, <3>2
  <2>3. w.target[1] \in Names(v)
    BY <1>0, <1>2, <2>1, <2>2 DEF Clashing, Reaching
  <2>4. ~(v.id < w.id)
    BY <1>0, <1>2, <2>3 DEF Hoistable, OverwrittenAfterRead
  <2>5. w.id # v.id
    BY <1>0, <1>2
  <2> QED BY <1>0, <2>4, <2>5
<1>3. ASSUME NEW w \in Of(b), NEW v \in Of(b), IsSymbol(w), ~IsSymbol(v)
      PROVE  Follows(w, v)
  <2>1. w.id # v.id
    BY <1>0, <1>3
  <2> QED BY <1>2, <1>3, <2>1 DEF Follows
<1> QED BY <1>1, <1>2, <1>3

(* The symbol assignments, hoisted: every index is loaded before them.     *)
HoistedThus(b, r) ==
  /\ Laid(b, r) /\ r.edge = {} /\ Issued(r) = SymbolsOf(Of(b))
  /\ BodyIndirects(b) \subseteq r.minted

(* The fast path starts with all loads and all symbol assignments.         *)
LEMMA HoistedLays ==
  ASSUME NEW b, Numbered(b), Hoistable(b)
  PROVE  HoistedThus(b, Close(Hoisted(b)))
<1> DEFINE n == Len(b)
           none == BodyIndirects(b) = {} /\ SymbolTargets(b) = {}
           f == Close(Region)
           r == LoadAll(f, BodyIndirects(b))
           e == FoldLeft(HoistSymbol, r, b)
           Fine(m, q) == /\ Laid(b, q) /\ Issued(q) = SymbolsOf(First(b, m))
                         /\ BodyIndirects(b) \subseteq q.minted
<1>0. Laid(b, f) /\ Issued(f) = {} /\ f.edge = {}
  BY FirstLays
<1>1. n \in Nat /\ DOMAIN b = 1 .. n /\ \A v \in Of(b) : v.id \in DOMAIN b /\ b[v.id] = v
  BY DEF Numbered, Of
<1>2. Hoisted(b) = IF none THEN Region ELSE e
  BY DEF Hoisted
<1>3. CASE none
  <2>1. ASSUME NEW v \in Of(b), IsSymbol(v) PROVE FALSE
    <3>1. v.target[1] \in SymbolTargets(b)
      BY <1>1, <2>1 DEF SymbolTargets
    <3> QED BY <1>3, <3>1
  <2>2. SymbolsOf(Of(b)) = {}
    BY <2>1 DEF SymbolsOf
  <2> QED BY <1>0, <1>2, <1>3, <2>2 DEF HoistedThus
<1>4. IsFiniteSet(BodyIndirects(b)) /\ BodyIndirects(b) \subseteq Indirects
  <2>1. \A i \in DOMAIN b : IsFiniteSet(b[i].ind) /\ b[i].ind \subseteq Indirects
    BY DEF Numbered, Proper
  <2> DEFINE I == {b[i].ind : i \in DOMAIN b}
             g == [i \in DOMAIN b |-> b[i].ind]
  <2>2. g \in Surjection(DOMAIN b, I)
    BY DEF Surjection
  <2>3. IsFiniteSet(DOMAIN b)
    BY <1>1, FS_Interval
  <2>4. IsFiniteSet(I)
    <3> HIDE DEF I, g
    <3> QED BY <2>2, <2>3, FS_Surjection
  <2>5. \A s \in I : IsFiniteSet(s)
    BY <2>1
  <2>6. BodyIndirects(b) = UNION I
    BY DEF BodyIndirects
  <2>7. IsFiniteSet(UNION I)
    <3> HIDE DEF I
    <3> QED BY <2>4, <2>5, FS_UNION
  <2> QED BY <2>1, <2>6, <2>7 DEF BodyIndirects
<1>5. Laid(b, r) /\ Issued(r) = {} /\ BodyIndirects(b) \subseteq r.minted
  <2>1. \A p \in BodyIndirects(b) \ f.minted : LoadFits(b, Issued(f), p)
    BY <1>0, HoistableBody DEF LoadFits
  <2> DEFINE I == BodyIndirects(b)
  <2> HIDE DEF f, I
  <2>2. Laid(b, r) /\ Issued(r) = Issued(f) /\ r.minted = f.minted \cup BodyIndirects(b)
    <3>1. /\ Laid(b, f) /\ IsFiniteSet(I) /\ I \subseteq Indirects
          /\ \A p \in I \ f.minted : LoadFits(b, Issued(f), p)
      BY <1>0, <1>4, <2>1 DEF I
    <3>2. LET l == LoadAll(f, I) IN Laid(b, l) /\ Issued(l) = Issued(f) /\ l.minted = f.minted \cup I
      BY <3>1, LoadAllLays
    <3> QED BY <3>2 DEF I
  <2> QED BY <1>0, <2>2
<1> HIDE DEF f, none, r
<1>6. Fine(0, r)
  <2>1. First(b, 0) = {}
    BY DEF First
  <2> QED BY <1>5, <2>1 DEF SymbolsOf
<1>7. PICK R : /\ R[0] = r /\ R[n] = e
               /\ \A m \in 1 .. n : R[m] = HoistSymbol(R[m - 1], b[m])
  <2>1. r \in Regions(b)
    BY <1>5 DEF Laid
  <2> QED BY <2>1, HoistedInOrder
<1> HIDE DEF e
<1>8. ASSUME NEW k \in 1 .. n, NEW q, Fine(k - 1, q)
      PROVE  Fine(k, HoistSymbol(q, b[k]))
  <2>1. /\ b[k] \in Of(b) /\ First(b, k) = First(b, k - 1) \cup {b[k]}
        /\ Before(First(b, k - 1), {b[k]})
    BY NumberedStatements
  <2>2. CASE ~IsSymbol(b[k])
    <3>1. SymbolsOf(First(b, k)) = SymbolsOf(First(b, k - 1)) /\ HoistSymbol(q, b[k]) = q
      BY <2>1, <2>2 DEF SymbolsOf, HoistSymbol
    <3> QED BY <1>8, <3>1
  <2>3. CASE IsSymbol(b[k])
    <3> DEFINE st == b[k]
    <3>1. SymbolsOf(First(b, k)) = SymbolsOf(First(b, k - 1)) \cup {st}
          /\ HoistSymbol(q, st) = AssignOnEdge(q, st) /\ Before(Issued(q), {st})
          /\ IsSymbol(st) /\ st \in Of(b) /\ Laid(b, q)
      BY <1>8, <2>1, <2>3 DEF SymbolsOf, HoistSymbol, Before
    <3> HIDE DEF st
    <3>2. /\ Laid(b, AssignOnEdge(q, st)) /\ Issued(AssignOnEdge(q, st)) = Issued(q) \cup {st}
          /\ AssignOnEdge(q, st).minted = q.minted
      BY <3>1, AssignLays
    <3>3. Fine(k, HoistSymbol(q, st))
      BY <1>8, <3>1, <3>2
    <3> QED BY <3>3 DEF st
  <2> QED BY <2>2, <2>3
<1>9. Fine(n, e)
  <2> DEFINE T == {m \in Nat : m <= n => Fine(m, R[m])}
  <2>1. 0 \in T
    BY <1>6, <1>7
  <2>2. ASSUME NEW m \in Nat, m \in T PROVE m + 1 \in T
    <3> SUFFICES ASSUME m + 1 <= n PROVE Fine(m + 1, R[m + 1])
      OBVIOUS
    <3>1. m + 1 \in 1 .. n /\ (m + 1) - 1 = m /\ Fine(m, R[m])
      BY <1>1, <2>2
    <3>2. R[m + 1] = HoistSymbol(R[m], b[m + 1])
      BY <1>7, <3>1
    <3> HIDE DEF Fine
    <3> QED BY <1>8, <3>1, <3>2
  <2> HIDE DEF T
  <2>3. n \in T
    BY <1>1, <2>1, <2>2, AllNumbers
  <2> QED BY <1>1, <1>7, <2>3 DEF T
<1>10. First(b, n) = Of(b)
  BY <1>1 DEF First, Of
<1>11. CASE ~none
  <2>1. Laid(b, e)
    BY <1>9
  <2>2. /\ Laid(b, Close(e)) /\ Issued(Close(e)) = Issued(e) /\ Close(e).edge = {}
        /\ Close(e).minted = e.minted
    BY <2>1, CloseLays
  <2> QED BY <1>2, <1>9, <1>10, <1>11, <2>2 DEF HoistedThus
<1> QED BY <1>3, <1>11 DEF none

(* The computes behind them.                                               *)
LEMMA FastPathLays ==
  ASSUME NEW b, Numbered(b), Hoistable(b)
  PROVE  Covers(b, FastPath(b))
<1> DEFINE n == Len(b)
           r == Close(Hoisted(b))
           e == FoldLeft(LAMBDA c, st : EmitCompute(b, c, st), r, b)
           All(m) == SymbolsOf(Of(b)) \cup First(b, m)
           Fine(m, q) == /\ Laid(b, q) /\ q.edge = {} /\ Issued(q) = All(m)
                         /\ BodyIndirects(b) \subseteq q.minted
<1>1. n \in Nat /\ DOMAIN b = 1 .. n
  BY DEF Numbered
<1>2. HoistedThus(b, r)
  BY HoistedLays
<1>3. FastPath(b) = e.segs
  BY DEF FastPath
<1> HIDE DEF r
<1>4. Fine(0, r)
  <2>1. First(b, 0) = {}
    BY DEF First
  <2> QED BY <1>2, <2>1 DEF HoistedThus
<1>5. PICK R : /\ R[0] = r /\ R[n] = e
               /\ \A m \in 1 .. n : R[m] = EmitCompute(b, R[m - 1], b[m])
  <2>1. r \in Regions(b)
    BY <1>4 DEF Laid
  <2> QED BY <2>1, ComputedInOrder
<1> HIDE DEF e
<1>6. ASSUME NEW k \in 1 .. n, NEW q, Fine(k - 1, q)
      PROVE  Fine(k, EmitCompute(b, q, b[k]))
  <2> DEFINE st == b[k]
  <2>1. /\ st \in Of(b) /\ st.id = k /\ First(b, k) = First(b, k - 1) \cup {st}
        /\ k \in DOMAIN b /\ Before(First(b, k - 1), {st})
    BY NumberedStatements
  <2>2. All(k) = All(k - 1) \cup {st}
    BY <2>1
  <2>3. st.ind \subseteq BodyIndirects(b)
    BY <2>1 DEF BodyIndirects
  <2> DEFINE c == IF q.computes > 0 /\ (SiblingRwHazard(b) \/ ScalarReassign(LastGraph(q), st))
                  THEN Close(q) ELSE q
             g == EmitCompute(b, q, st)
  <2>4. g = IF IsSymbol(st) THEN q ELSE EmitInLast(c, st)
    BY DEF EmitCompute
  <2>5. CASE IsSymbol(st)
    <3>1. All(k) = All(k - 1)
      BY <2>1, <2>2, <2>5 DEF SymbolsOf
    <3> QED BY <1>6, <2>4, <2>5, <3>1
  <2>6. CASE ~IsSymbol(st)
    <3>1. /\ Laid(b, c) /\ c.edge = {} /\ Issued(c) = All(k - 1)
          /\ BodyIndirects(b) \subseteq c.minted
      <4>1. /\ Laid(b, Close(q)) /\ Issued(Close(q)) = Issued(q) /\ Close(q).edge = {}
            /\ Close(q).minted = q.minted
        BY <1>6, CloseLays
      <4> QED BY <1>6, <4>1
    <3>2. Before(All(k - 1), {st})
      <4>1. ASSUME NEW w \in SymbolsOf(Of(b)) PROVE Follows(w, st)
        BY <2>1, <2>6, HoistableBody DEF SymbolsOf
      <4> QED BY <2>1, <4>1 DEF Before
    <3>3. st.ind \subseteq c.minted
      BY <2>3, <3>1
    <3>5. Before(Issued(c), {st}) /\ ~IsSymbol(st) /\ st \in Of(b)
      BY <2>1, <2>6, <3>1, <3>2
    <3> HIDE DEF c, st, All
    <3>4. /\ Laid(b, EmitInLast(c, st)) /\ Issued(EmitInLast(c, st)) = Issued(c) \cup {st}
          /\ EmitInLast(c, st).edge = {} /\ EmitInLast(c, st).minted = c.minted
      BY <3>1, <3>3, <3>5, EmitLays
    <3> QED BY <2>2, <2>4, <2>6, <3>1, <3>4 DEF st
  <2> QED BY <2>5, <2>6
<1>7. Fine(n, e)
  <2> DEFINE T == {m \in Nat : m <= n => Fine(m, R[m])}
  <2>1. 0 \in T
    BY <1>4, <1>5
  <2>2. ASSUME NEW m \in Nat, m \in T PROVE m + 1 \in T
    <3> SUFFICES ASSUME m + 1 <= n PROVE Fine(m + 1, R[m + 1])
      OBVIOUS
    <3>1. m + 1 \in 1 .. n /\ (m + 1) - 1 = m /\ Fine(m, R[m])
      BY <1>1, <2>2
    <3>2. R[m + 1] = EmitCompute(b, R[m], b[m + 1])
      BY <1>5, <3>1
    <3> HIDE DEF Fine
    <3> QED BY <1>6, <3>1, <3>2
  <2> HIDE DEF T
  <2>3. n \in T
    BY <1>1, <2>1, <2>2, AllNumbers
  <2> QED BY <1>1, <1>5, <2>3 DEF T
<1>8. All(n) = Of(b)
  BY <1>1 DEF First, Of, SymbolsOf
<1>9. Laid(b, e) /\ Listed(e.segs) = Of(b)
  BY <1>7, <1>8 DEF Issued
<1>10. e.segs \in Seq(Segments(b)) /\ Len(e.segs) # 0
  BY <1>9, RegionParts DEF Laid
<1> QED BY <1>3, <1>9, <1>10 DEF Covers, Laid

-----------------------------------------------------------------------------
(* The lowered body.                                                       *)

(* Of two clashing computes of a state the earlier one leads to the later. *)
Sequenced(g) ==
  \A t, u \in CodeNodes(g) :
    LET s == g.nodes[t].stmt
        v == g.nodes[u].stmt
    IN  t # u => s.id # v.id /\ (Clashing(s, v) /\ s.id < v.id => u \in Descendants(g, t))
Faithful(b, c) ==
  /\ Len(c) \in Nat \ {0} /\ DOMAIN c = 1 .. Len(c) /\ Listed(c) = Of(b)
  /\ \A i, j \in DOMAIN c : i < j => Before(Work(c[i]), Work(c[j]))
  /\ \A i \in DOMAIN c :
       /\ EdgeFits(c[i].edge) /\ Before(c[i].edge, Carried(c[i].g)) /\ Sequenced(c[i].g)
       /\ c[i].load \subseteq Indirects /\ \A p \in c[i].load : LoadFits(b, Prior(c, i), p)
       /\ \A v \in Work(c[i]) : v.ind \subseteq Loaded(c, i)
  /\ c[1].load = {}

(* enforce_statement_order sequences the computes of a segment.            *)
LEMMA PieceSequenced ==
  ASSUME NEW b, Numbered(b), NEW seg \in Segments(b), Piece(b, seg)
  PROVE  LET h == OrderState(seg.g)
         IN  Carried(h) = Carried(seg.g) /\ Sequenced(h)
<1> DEFINE g == seg.g
           h == OrderState(g)
<1>1. g \in Graphs(Parts(b)) /\ Tidy(g)
  BY DEF Segments, Piece
<1>2. IsGraph(g)
  BY <1>1, GraphsAreGraphs
<1>3. IsGraph(h) /\ h.nodes = g.nodes
  BY <1>2, OrderStateKeeps
<1> HIDE DEF h
<1>4. CodeNodes(h) = CodeNodes(g)
  BY <1>3 DEF CodeNodes, DataNodes
<1>5. Carried(h) = Carried(g)
  BY <1>3, <1>4 DEF Carried
<1>6. \A t \in CodeNodes(g) : t \in Nat
  BY <1>2 DEF IsGraph, Wired, CodeNodes
<1>7. \A t \in CodeNodes(g) : g.nodes[t].stmt \in Of(b) /\ Stores(g.nodes[t].stmt)
  BY DEF Piece, Carried
<1>8. \A t, u \in CodeNodes(g) : t < u => Follows(g.nodes[t].stmt, g.nodes[u].stmt)
  BY DEF Piece
<1>9. \A v \in Of(b) : v.id \in Nat
  BY DEF Numbered, Of
<1> HIDE DEF g
<1>10. Sequenced(h)
  <2> SUFFICES ASSUME NEW t \in CodeNodes(g), NEW u \in CodeNodes(g), t # u
               PROVE  LET s == g.nodes[t].stmt
                          v == g.nodes[u].stmt
                      IN  /\ s.id # v.id
                          /\ Clashing(s, v) /\ s.id < v.id => u \in Descendants(h, t)
    BY <1>3, <1>4 DEF Sequenced
  <2> DEFINE s == g.nodes[t].stmt
             v == g.nodes[u].stmt
  <2>1. s.id \in Nat /\ v.id \in Nat /\ Stores(s) /\ Stores(v)
    BY <1>7, <1>9
  <2>2. CASE t < u
    <3>1. Follows(s, v)
      BY <1>8, <2>2
    <3>2. ASSUME Clashing(s, v) PROVE u \in Descendants(h, t)
      <4>1. Conflicting(s, v)
        BY <2>1, <3>2, ClashingConflicts
      <4>2. \A c \in CodeNodes(g) : Plain(g.nodes[c].stmt)
        BY <1>7 DEF Stores
      <4> QED BY <1>1, <2>2, <4>1, <4>2, ConflictsOrdered DEF g, h
    <3> QED BY <3>1, <3>2 DEF Follows
  <2>3. CASE u < t
    <3>1. Follows(v, s)
      BY <1>8, <2>3
    <3>2. Clashing(s, v) => v.id < s.id
      BY <3>1 DEF Follows, Clashing
    <3> QED BY <2>1, <3>1, <3>2 DEF Follows
  <2>4. t < u \/ u < t
    BY <1>6
  <2> QED BY <2>2, <2>3, <2>4
<1> QED BY <1>5, <1>10 DEF g, h

(* Whichever path emit_loop takes.                                         *)
LEMMA LowerIsFaithful ==
  ASSUME NEW b, Numbered(b), Stable(b)
  PROVE  Faithful(b, Lower(b))
<1> DEFINE segs == IF HoistReadsSkipped(b) \/ OverwrittenAfterRead(b) \/ RepeatedSymbolWrite(b)
                   THEN SourceOrder(b) ELSE FastPath(b)
           c == Lower(b)
<1>1. Covers(b, segs)
  BY SourceOrderLays, FastPathLays DEF Hoistable
<1>2. c = [i \in DOMAIN segs |-> [segs[i] EXCEPT !.g = OrderState(@)]]
  BY DEF Lower
<1> HIDE DEF segs, c
<1>3. /\ segs \in Seq(Segments(b)) /\ Layout(b, segs) /\ Listed(segs) = Of(b)
      /\ Len(segs) \in Nat \ {0} /\ DOMAIN segs = 1 .. Len(segs)
  BY <1>1 DEF Covers
<1>4. Len(c) \in Nat \ {0} /\ DOMAIN c = 1 .. Len(c) /\ DOMAIN c = DOMAIN segs
  BY <1>2, <1>3
<1>5. ASSUME NEW i \in DOMAIN segs
      PROVE  /\ segs[i] \in Segments(b) /\ Piece(b, segs[i])
             /\ c[i].load = segs[i].load /\ c[i].edge = segs[i].edge
             /\ c[i].g = OrderState(segs[i].g)
  <2>1. segs[i] \in Segments(b)
    BY <1>3
  <2>2. c[i] = [segs[i] EXCEPT !.g = OrderState(segs[i].g)]
    BY <1>2
  <2> QED BY <1>3, <2>1, <2>2 DEF Layout, Segments
<1>6. \A i \in DOMAIN segs : /\ Carried(c[i].g) = Carried(segs[i].g) /\ Sequenced(c[i].g)
  BY <1>5, PieceSequenced
<1>7. \A i \in DOMAIN segs : Work(c[i]) = Work(segs[i])
  BY <1>5, <1>6 DEF Work
<1>8. Listed(c) = Of(b)
  BY <1>3, <1>4, <1>7 DEF Listed
<1>9. \A i \in DOMAIN segs : Prior(c, i) = Prior(segs, i) /\ Loaded(c, i) = Loaded(segs, i)
  BY <1>4, <1>5, <1>7 DEF Prior, Loaded
<1>10. \A i, j \in DOMAIN c : i < j => Before(Work(c[i]), Work(c[j]))
  BY <1>3, <1>4, <1>7 DEF Layout
<1>11. ASSUME NEW i \in DOMAIN c
       PROVE  /\ EdgeFits(c[i].edge) /\ Before(c[i].edge, Carried(c[i].g)) /\ Sequenced(c[i].g)
              /\ c[i].load \subseteq Indirects
  BY <1>4, <1>5, <1>6 DEF Piece, Segments
<1>12. ASSUME NEW i \in DOMAIN c
       PROVE  /\ \A p \in c[i].load : LoadFits(b, Prior(c, i), p)
              /\ \A v \in Work(c[i]) : v.ind \subseteq Loaded(c, i)
  BY <1>3, <1>4, <1>5, <1>7, <1>9 DEF Layout
<1>13. c[1].load = {}
  BY <1>3, <1>5 DEF Layout
<1> QED BY <1>4, <1>8, <1>10, <1>11, <1>12, <1>13 DEF Faithful, c

-----------------------------------------------------------------------------
(* The memory of a loop.                                                   *)

(* What statement n of iteration i reads from l, and what l holds once the *)
(* statements of X have run in iteration i.                                *)
Value(b, i, n, l) ==
  LET writers == {m \in DOMAIN b : b[m].target = l}
      here == {m \in writers : m < n}
  IN  IF here # {} THEN (i - 1) * Len(b) + Max(here)
      ELSE IF i > 1 /\ writers # {} THEN (i - 2) * Len(b) + Max(writers)
      ELSE 0
Assigners(X, l) == {v.id : v \in {w \in X : w.target = l}}
Held(b, X, i, l) ==
  IF Assigners(X, l) # {} THEN (i - 1) * Len(b) + Max(Assigners(X, l)) ELSE Value(b, i, 1, l)
Remembers(b, X, i, m) == \A l \in Locations : m[l] = Held(b, X, i, l)

(* The assigners of a location among the statements of a body.             *)
LEMMA AssignersOfBody ==
  ASSUME NEW b, Numbered(b), NEW l
  PROVE  /\ DOMAIN b = 1 .. Len(b) /\ Len(b) \in Nat
         /\ \A v \in Of(b) : v.id \in DOMAIN b /\ b[v.id] = v
         /\ \A m \in DOMAIN b : b[m] \in Of(b) /\ b[m].id = m
         /\ Assigners(Of(b), l) = {m \in DOMAIN b : b[m].target = l}
<1>1. DOMAIN b = 1 .. Len(b) /\ Len(b) \in Nat /\ \A m \in DOMAIN b : b[m].id = m
  BY DEF Numbered
<1>2. \A v \in Of(b) : v.id \in DOMAIN b /\ b[v.id] = v
  BY <1>1 DEF Of
<1>3. \A m \in DOMAIN b : b[m] \in Of(b)
  BY DEF Of
<1>4. ASSUME NEW m \in Assigners(Of(b), l) PROVE m \in DOMAIN b /\ b[m].target = l
  BY <1>2 DEF Assigners
<1>5. ASSUME NEW m \in DOMAIN b, b[m].target = l PROVE m \in Assigners(Of(b), l)
  BY <1>1, <1>3, <1>5 DEF Assigners
<1> QED BY <1>1, <1>2, <1>3, <1>4, <1>5

(* When exactly the assigners of l before n have run, l holds what         *)
(* statement n wants.                                                      *)
LEMMA HeldForReader ==
  ASSUME NEW b, Numbered(b), NEW X, X \subseteq Of(b), NEW i, NEW n, NEW l,
         \A w \in Of(b) : w.target = l => (w \in X <=> w.id < n)
  PROVE  Held(b, X, i, l) = Value(b, i, n, l)
<1> DEFINE writers == {m \in DOMAIN b : b[m].target = l}
           here(k) == {m \in writers : m < k}
<1>1. /\ DOMAIN b = 1 .. Len(b) /\ Len(b) \in Nat
      /\ \A v \in Of(b) : v.id \in DOMAIN b /\ b[v.id] = v
      /\ \A m \in DOMAIN b : b[m] \in Of(b) /\ b[m].id = m
  BY AssignersOfBody
<1>2. Assigners(X, l) = here(n)
  <2>1. ASSUME NEW m \in Assigners(X, l) PROVE m \in here(n)
    <3>1. PICK v \in X : v.target = l /\ v.id = m
      BY DEF Assigners
    <3> QED BY <1>1, <3>1
  <2>2. ASSUME NEW m \in here(n) PROVE m \in Assigners(X, l)
    <3>1. b[m] \in X /\ b[m].target = l /\ b[m].id = m
      BY <1>1
    <3> QED BY <3>1 DEF Assigners
  <2> QED BY <2>1, <2>2
<1>3. here(1) = {}
  BY <1>1
<1>4. \A k : Value(b, i, k, l) = IF here(k) # {} THEN (i - 1) * Len(b) + Max(here(k))
                                 ELSE IF i > 1 /\ writers # {} THEN (i - 2) * Len(b) + Max(writers)
                                 ELSE 0
  BY DEF Value
<1> HIDE DEF writers, here
<1> QED BY <1>2, <1>3, <1>4 DEF Held

(* When a whole iteration has run, the next one may start.                 *)
LEMMA HeldForNext ==
  ASSUME NEW b, Numbered(b), NEW i \in Nat \ {0}, NEW l
  PROVE  Held(b, Of(b), i, l) = Value(b, i + 1, 1, l)
<1> DEFINE writers == {m \in DOMAIN b : b[m].target = l}
           here(k) == {m \in writers : m < k}
<1>1. /\ DOMAIN b = 1 .. Len(b) /\ Len(b) \in Nat /\ Assigners(Of(b), l) = writers
  BY AssignersOfBody
<1>2. here(1) = {}
  BY <1>1
<1>3. \A j : Value(b, j, 1, l) = IF here(1) # {} THEN (j - 1) * Len(b) + Max(here(1))
                                 ELSE IF j > 1 /\ writers # {} THEN (j - 2) * Len(b) + Max(writers)
                                 ELSE 0
  BY DEF Value
<1> HIDE DEF writers, here
<1>4. i + 1 > 1 /\ (i + 1) - 2 = i - 1
  OBVIOUS
<1>5. Held(b, Of(b), i, l) = IF writers # {} THEN (i - 1) * Len(b) + Max(writers)
                             ELSE Value(b, i, 1, l)
  BY <1>1 DEF Held
<1> QED BY <1>2, <1>3, <1>4, <1>5

(* Before an iteration has begun.                                          *)
LEMMA HeldAtStart ==
  ASSUME NEW b, NEW i, NEW l
  PROVE  Held(b, {}, i, l) = Value(b, i, 1, l)
<1>1. Assigners({}, l) = {}
  BY DEF Assigners
<1> QED BY <1>1 DEF Held

(* Everything before st that clashes with it has run, and nothing behind.  *)
Due(b, X, st) ==
  /\ X \subseteq Of(b) /\ st \in Of(b) /\ st \notin X
  /\ \A w \in Of(b) : Clashing(w, st) /\ w # st => (w \in X <=> w.id < st.id)

(* It reads what it wants.                                                 *)
LEMMA DueReads ==
  ASSUME NEW b, Numbered(b), NEW X, NEW st, Due(b, X, st), NEW i, NEW l \in st.reads
  PROVE  Held(b, X, i, l) = Value(b, i, st.id, l)
<1>1. /\ DOMAIN b = 1 .. Len(b) /\ Len(b) \in Nat
      /\ \A v \in Of(b) : v.id \in DOMAIN b /\ b[v.id] = v
  BY AssignersOfBody
<1>2. /\ X \subseteq Of(b) /\ st \in Of(b) /\ st \notin X
      /\ \A w \in Of(b) : Clashing(w, st) /\ w # st => (w \in X <=> w.id < st.id)
  BY DEF Due
<1>3. ASSUME NEW w \in Of(b), w.target = l PROVE w \in X <=> w.id < st.id
  <2>1. Clashing(w, st)
    BY <1>3 DEF Clashing, Reaching
  <2>2. w = st => w \notin X /\ ~(w.id < st.id)
    BY <1>1, <1>2
  <2> QED BY <1>2, <2>1, <2>2
<1> QED BY <1>2, <1>3, HeldForReader

(* Its value is the last one of its target.                                *)
LEMMA DueWrites ==
  ASSUME NEW b, Numbered(b), NEW X, NEW st, Due(b, X, st), NEW i
  PROVE  \A l : Held(b, X \cup {st}, i, l) =
                  IF l = st.target THEN (i - 1) * Len(b) + st.id ELSE Held(b, X, i, l)
<1>1. /\ DOMAIN b = 1 .. Len(b) /\ Len(b) \in Nat
      /\ \A v \in Of(b) : v.id \in DOMAIN b /\ b[v.id] = v
  BY AssignersOfBody
<1>2. /\ X \subseteq Of(b) /\ st \in Of(b) /\ st \notin X
      /\ \A w \in Of(b) : Clashing(w, st) /\ w # st => (w \in X <=> w.id < st.id)
  BY DEF Due
<1>3. ASSUME NEW l, l # st.target PROVE Held(b, X \cup {st}, i, l) = Held(b, X, i, l)
  <2>1. {w \in X \cup {st} : w.target = l} = {w \in X : w.target = l}
    BY <1>3
  <2>2. Assigners(X \cup {st}, l) = Assigners(X, l)
    BY <2>1 DEF Assigners
  <2> QED BY <2>2 DEF Held
<1>4. Held(b, X \cup {st}, i, st.target) = (i - 1) * Len(b) + st.id
  <2> DEFINE W == Assigners(X \cup {st}, st.target)
  <2>1. st.id \in W /\ W \in SUBSET (1 .. Len(b))
    BY <1>1, <1>2 DEF Assigners
  <2>2. ASSUME NEW m \in W PROVE m <= st.id
    <3>1. PICK w \in X \cup {st} : w.target = st.target /\ w.id = m
      BY DEF Assigners
    <3>2. CASE w = st
      BY <1>1, <1>2, <3>1, <3>2
    <3>3. CASE w # st
      <4>1. Clashing(w, st)
        BY <3>1 DEF Clashing, Reaching
      <4>2. w.id < st.id
        BY <1>2, <3>1, <3>3, <4>1
      <4> QED BY <1>1, <1>2, <3>1, <4>2
    <3> QED BY <3>2, <3>3
  <2> HIDE DEF W
  <2>3. Max(W) \in W /\ \A m \in W : m <= Max(W)
    <3>1. W # {}
      BY <2>1
    <3> QED BY <1>1, <2>1, <3>1, LastIndex
  <2>4. Max(W) = st.id
    <3>1. Max(W) \in 1 .. Len(b) /\ st.id \in 1 .. Len(b)
      BY <2>1, <2>3
    <3>2. Max(W) <= st.id /\ st.id <= Max(W)
      BY <2>1, <2>2, <2>3
    <3> QED BY <1>1, <3>1, <3>2
  <2> QED BY <2>1, <2>4 DEF Held, W
<1> QED BY <1>3, <1>4

-----------------------------------------------------------------------------
(* The running loop.                                                       *)

(* What has run in this iteration when the assignments L of the edge into  *)
(* segment i are left and its nodes T have run.                            *)
Executed(c, i, L, T) == Prior(c, i) \cup (c[i].edge \ L) \cup {c[i].g.nodes[t].stmt : t \in T}

(* No node that is left leads to one that has run.                         *)
NoneLeftBefore(g, T) ==
  /\ T \subseteq CodeNodes(g)
  /\ \A t \in T, u \in CodeNodes(g) \ T : t \notin Descendants(g, u)

(* Where the run of the code is.                                           *)
Position(b, c, i, L, T) ==
  /\ Faithful(b, c) /\ i \in DOMAIN c /\ L \subseteq c[i].edge
  /\ L = {} \/ T = {}
  /\ NoneLeftBefore(c[i].g, T)

(* The segments run in the order of what they do.                          *)
LEMMA SegmentsInTurn ==
  ASSUME NEW b, NEW c, Faithful(b, c), NEW i \in DOMAIN c
  PROVE  /\ i \in Nat /\ \A j \in DOMAIN c : j \in Nat
         /\ Work(c[i]) \subseteq Of(b) /\ Prior(c, i) \subseteq Of(b)
         /\ Before(Prior(c, i), Work(c[i]))
         /\ Of(b) = UNION {Work(c[j]) : j \in DOMAIN c}
         /\ \A w \in Of(b) : \/ w \in Prior(c, i) \/ w \in Work(c[i])
                             \/ \A v \in Work(c[i]) : Follows(v, w)
<1>1. /\ DOMAIN c = 1 .. Len(c) /\ Len(c) \in Nat /\ Listed(c) = Of(b)
      /\ \A k, j \in DOMAIN c : k < j => Before(Work(c[k]), Work(c[j]))
  BY DEF Faithful
<1>2. \A j \in DOMAIN c : j \in Nat
  BY <1>1
<1>3. Of(b) = UNION {Work(c[j]) : j \in DOMAIN c}
  BY <1>1 DEF Listed
<1>4. Work(c[i]) \subseteq Of(b) /\ Prior(c, i) \subseteq Of(b)
  BY <1>3 DEF Prior
<1>5. Before(Prior(c, i), Work(c[i]))
  BY <1>1 DEF Prior, Before
<1>6. ASSUME NEW w \in Of(b), w \notin Prior(c, i), w \notin Work(c[i]), NEW v \in Work(c[i])
      PROVE  Follows(v, w)
  <2>1. PICK j \in DOMAIN c : w \in Work(c[j])
    BY <1>3
  <2>2. ~(j < i) /\ j # i
    BY <1>6, <2>1 DEF Prior
  <2>3. i < j
    BY <1>2, <2>2
  <2> QED BY <1>1, <2>1, <2>3 DEF Before
<1> QED BY <1>2, <1>3, <1>4, <1>5, <1>6

(* An assignment of the edge is due, in any order.                         *)
LEMMA EdgeIsDue ==
  ASSUME NEW b, Numbered(b), NEW c, NEW i, NEW L, NEW T, Position(b, c, i, L, T), NEW e \in L
  PROVE  Due(b, Executed(c, i, L, T), e)
<1> DEFINE X == Executed(c, i, L, T)
<1>1. /\ Faithful(b, c) /\ i \in DOMAIN c /\ e \in c[i].edge /\ T = {}
      /\ EdgeFits(c[i].edge) /\ Before(c[i].edge, Carried(c[i].g)) /\ L \subseteq c[i].edge
  BY DEF Position, Faithful
<1>2. /\ Work(c[i]) \subseteq Of(b) /\ Prior(c, i) \subseteq Of(b)
      /\ Before(Prior(c, i), Work(c[i]))
      /\ \A w \in Of(b) : \/ w \in Prior(c, i) \/ w \in Work(c[i])
                          \/ \A v \in Work(c[i]) : Follows(v, w)
  BY <1>1, SegmentsInTurn
<1>3. X = Prior(c, i) \cup (c[i].edge \ L) /\ e \in Work(c[i])
      /\ Work(c[i]) = c[i].edge \cup Carried(c[i].g)
  BY <1>1 DEF Executed, Work
<1>4. \A w \in Of(b) : w.id \in Nat
  BY AssignersOfBody
<1>5. e \notin X
  BY <1>2, <1>3 DEF Before, Follows
<1>6. \A v : Clashing(e, v) <=> Clashing(v, e)
  BY DEF Clashing
<1>7. ASSUME NEW w \in Of(b), Clashing(w, e), w # e PROVE w \in X <=> w.id < e.id
  <2>1. CASE w \in Prior(c, i)
    BY <1>2, <1>3, <1>7, <2>1 DEF Before, Follows
  <2>2. w \notin c[i].edge
    BY <1>1, <1>7 DEF EdgeFits
  <2>3. CASE w \notin Prior(c, i)
    <3>1. Follows(e, w)
      BY <1>1, <1>2, <1>3, <2>2, <2>3 DEF Before
    <3>2. e.id < w.id
      BY <1>6, <1>7, <3>1 DEF Follows
    <3>3. ~(w.id < e.id)
      BY <1>2, <1>3, <1>4, <3>2
    <3> QED BY <1>3, <2>2, <2>3, <3>3
  <2> QED BY <2>1, <2>3
<1> QED BY <1>1, <1>2, <1>3, <1>5, <1>7 DEF Due

(* So is the statement of a node that waits for no other.                  *)
LEMMA NodeIsDue ==
  ASSUME NEW b, Numbered(b), NEW c, NEW i, NEW T, Position(b, c, i, {}, T),
         NEW t \in Ready(c[i].g, T)
  PROVE  Due(b, Executed(c, i, {}, T), c[i].g.nodes[t].stmt)
<1> DEFINE X == Executed(c, i, {}, T)
           g == c[i].g
           st == g.nodes[t].stmt
           Ran == {g.nodes[u].stmt : u \in T}
<1>1. /\ Faithful(b, c) /\ i \in DOMAIN c /\ T \subseteq CodeNodes(g)
      /\ \A a \in T, u \in CodeNodes(g) \ T : a \notin Descendants(g, u)
      /\ Before(c[i].edge, Carried(g)) /\ Sequenced(g)
  BY DEF Position, Faithful, NoneLeftBefore
<1>2. t \in CodeNodes(g) \ T /\ \A u \in CodeNodes(g) \ T : t \notin Descendants(g, u)
  BY DEF Ready
<1>3. /\ Work(c[i]) \subseteq Of(b) /\ Prior(c, i) \subseteq Of(b)
      /\ Before(Prior(c, i), Work(c[i]))
      /\ \A w \in Of(b) : \/ w \in Prior(c, i) \/ w \in Work(c[i])
                          \/ \A v \in Work(c[i]) : Follows(v, w)
  BY <1>1, SegmentsInTurn
<1>4. /\ X = Prior(c, i) \cup c[i].edge \cup Ran /\ Work(c[i]) = c[i].edge \cup Carried(g)
      /\ st \in Carried(g) /\ Ran \subseteq Carried(g)
  BY <1>1, <1>2 DEF Executed, Work, Carried
<1>5. \A w \in Of(b) : w.id \in Nat
  BY AssignersOfBody
<1>6. \A u \in CodeNodes(g) : u # t => g.nodes[u].stmt.id # st.id
  BY <1>1, <1>2 DEF Sequenced
<1>7. st \notin X
  <2>1. st \notin Ran
    BY <1>1, <1>2, <1>6
  <2>2. \A w \in Prior(c, i) \cup c[i].edge : w.id # st.id
    BY <1>1, <1>3, <1>4 DEF Before, Follows
  <2> QED BY <1>4, <2>1, <2>2
<1>8. \A v : Clashing(st, v) <=> Clashing(v, st)
  BY DEF Clashing
<1>9. ASSUME NEW w \in Of(b), Clashing(w, st), w # st PROVE w \in X <=> w.id < st.id
  <2>1. CASE w \in Prior(c, i) \cup c[i].edge
    BY <1>1, <1>3, <1>4, <1>9, <2>1 DEF Before, Follows
  <2>2. CASE w \in Carried(g) /\ w \notin Prior(c, i) \cup c[i].edge
    <3>1. PICK u \in CodeNodes(g) : w = g.nodes[u].stmt
      BY <2>2 DEF Carried
    <3>2. u # t
      BY <1>9, <3>1
    <3>3. /\ w.id < st.id => t \in Descendants(g, u)
          /\ st.id < w.id => u \in Descendants(g, t)
      BY <1>1, <1>2, <1>8, <1>9, <3>1, <3>2 DEF Sequenced
    <3>4. w.id # st.id /\ w.id \in Nat /\ st.id \in Nat
      BY <1>3, <1>4, <1>5, <1>6, <3>1, <3>2
    <3>5. CASE u \in T
      BY <1>1, <1>2, <1>4, <3>1, <3>3, <3>4, <3>5
    <3>6. CASE u \notin T
      <4>1. ~(w.id < st.id)
        BY <1>2, <3>3, <3>6
      <4>2. w \notin Ran
        <5>1. ASSUME NEW v \in T, g.nodes[v].stmt = w PROVE FALSE
          BY <1>1, <3>1, <3>6, <5>1 DEF Sequenced
        <5> QED BY <5>1
      <4> QED BY <1>4, <2>2, <4>1, <4>2
    <3> QED BY <3>5, <3>6
  <2>3. CASE w \notin Prior(c, i) \cup c[i].edge \cup Carried(g)
    <3>1. Follows(st, w)
      BY <1>3, <1>4, <2>3
    <3>2. st.id < w.id
      BY <1>8, <1>9, <3>1 DEF Follows
    <3>3. ~(w.id < st.id)
      BY <1>3, <1>4, <1>5, <3>2
    <3> QED BY <1>4, <2>3, <3>3
  <2> QED BY <2>1, <2>2, <2>3
<1> QED BY <1>3, <1>4, <1>7, <1>9 DEF Due

(* The indices loaded so far are those their users want.                   *)
Indexed(b, c, i, k, x) ==
  \A p \in Loaded(c, k), v \in Of(b) : p \in v.ind =>
    x[p] = <<Value(b, i, v.id, <<p[1], "e">>), Value(b, i, v.id, <<p[2], "e">>)>>

(* What SequentialStableBody rests on: the memory holds what sequential    *)
(* Fortran has left after the statements that have run, the indices are    *)
(* those of their users, and all reads were right.                         *)
BodyInv ==
  /\ phase \in {"source", "run"} /\ body \in Seq(Of(body)) /\ Numbered(body)
  /\ phase = "source" =>
       /\ it = 1 /\ at = 1 /\ left = {} /\ done = {} /\ misread = FALSE
       /\ mem = [l \in Locations |-> 0]
RunInv ==
  phase = "run" /\ StableIndices =>
    /\ Position(body, code, at, left, done) /\ it \in Nat \ {0} /\ misread = FALSE
    /\ mem = [l \in Locations |-> mem[l]]
    /\ Remembers(body, Executed(code, at, left, done), it, mem)
    /\ Indexed(body, code, it, at, idx)
LoopInv == BodyInv /\ RunInv

(* A statement that is due executes.                                       *)
LEMMA ExecuteRemembers ==
  ASSUME Numbered(body), NEW X, Remembers(body, X, it, mem), misread = FALSE,
         mem = [l \in Locations |-> mem[l]], NEW st, Due(body, X, st), Execute(st),
         \A p \in st.ind : idx[p] = <<Value(body, it, st.id, <<p[1], "e">>),
                                      Value(body, it, st.id, <<p[2], "e">>)>>
  PROVE  /\ Remembers(body, X \cup {st}, it, mem') /\ misread' = FALSE
         /\ mem' = [l \in Locations |-> mem'[l]]
<1>1. \A n, l : Expected(it, n, l) = Value(body, it, n, l)
  BY DEF Expected, Value
<1>2. st.target \in Locations /\ st.reads \subseteq Locations
  BY PartsOfBody DEF Due, Proper
<1>3. \A l \in st.reads : mem[l] = Value(body, it, st.id, l)
  <2>1. \A l \in st.reads : Held(body, X, it, l) = Value(body, it, st.id, l)
    BY DueReads
  <2> QED BY <1>2, <2>1 DEF Remembers
<1>4. /\ misread' = \/ misread
                    \/ \E l \in st.reads : mem[l] # Expected(it, st.id, l)
                    \/ \E p \in st.ind :
                         idx[p] # <<Expected(it, st.id, <<p[1], "e">>),
                                    Expected(it, st.id, <<p[2], "e">>)>>
      /\ mem' = [mem EXCEPT ![st.target] = (it - 1) * Len(body) + st.id]
  BY DEF Execute
<1>5. misread' = FALSE
  <2>1. ~ \E l \in st.reads : mem[l] # Expected(it, st.id, l)
    BY <1>1, <1>3
  <2>2. ~ \E p \in st.ind : idx[p] # <<Expected(it, st.id, <<p[1], "e">>),
                                       Expected(it, st.id, <<p[2], "e">>)>>
    BY <1>1
  <2> QED BY <1>4, <2>1, <2>2
<1>6. \A l : Held(body, X \cup {st}, it, l) =
               IF l = st.target THEN (it - 1) * Len(body) + st.id ELSE Held(body, X, it, l)
  BY DueWrites
<1>7. \A l \in Locations : mem'[l] = IF l = st.target THEN (it - 1) * Len(body) + st.id ELSE mem[l]
  BY <1>4
<1>8. mem' = [l \in Locations |-> mem'[l]]
  BY <1>4
<1>9. Remembers(body, X \cup {st}, it, mem')
  BY <1>6, <1>7 DEF Remembers
<1> QED BY <1>5, <1>8, <1>9

(* At the start.                                                           *)
LEMMA LoopInvInit == Init => LoopInv
<1> SUFFICES ASSUME Init PROVE LoopInv
  OBVIOUS
<1>1. body = <<>> /\ phase = "source"
  BY DEF Init
<1>2. Len(body) = 0 /\ DOMAIN body = {} /\ 1 .. 0 = {} /\ body \in Seq(Of(body))
  BY <1>1
<1>3. Numbered(body)
  BY <1>2 DEF Numbered
<1> QED BY <1>1, <1>2, <1>3 DEF Init, LoopInv, BodyInv, RunInv

(* The source grows.                                                       *)
LEMMA WriteKeeps ==
  ASSUME LoopInv, NEW s \in Statements, Write(s)
  PROVE  LoopInv'
<1> DEFINE st == [id |-> Len(body) + 1, target |-> s.target, reads |-> s.reads, ind |-> s.ind]
<1>1. /\ phase = "source" /\ phase' = phase /\ body' = Append(body, st)
      /\ it' = it /\ at' = at /\ left' = left /\ done' = done /\ mem' = mem
      /\ misread' = misread
  BY DEF Write, runVars
<1>2. body \in Seq(Of(body)) /\ Numbered(body)
  BY DEF LoopInv, BodyInv
<1>3. st.id = Len(body) + 1 /\ Proper(st)
  BY StatementIsProper
<1> HIDE DEF st
<1> DEFINE n == Len(body)
           S == Of(body) \cup {st}
<1>4. n \in Nat /\ DOMAIN body = 1 .. n /\ \A i \in 1 .. n : body[i].id = i /\ Proper(body[i])
  BY <1>2 DEF Numbered
<1>5. body \in Seq(S)
  BY <1>2, <1>4 DEF Of
<1>6. /\ body' \in Seq(S) /\ Len(body') = n + 1 /\ DOMAIN body' = 1 .. n + 1
      /\ body'[n + 1] = st /\ \A i \in 1 .. n : body'[i] = body[i]
  <2> HIDE DEF S, n
  <2>1. Append(body, st) \in Seq(S) /\ Len(Append(body, st)) = n + 1
        /\ DOMAIN Append(body, st) = 1 .. n + 1
        /\ Append(body, st)[n + 1] = st /\ \A i \in 1 .. n : Append(body, st)[i] = body[i]
    <3>1. st \in S
      BY DEF S
    <3> QED BY <1>4, <1>5, <3>1 DEF n
  <2> QED BY <1>1, <2>1
<1> HIDE DEF n
<1>7. 1 .. n + 1 = (1 .. n) \cup {n + 1}
  BY <1>4
<1>8. Of(body') = S
  BY <1>4, <1>6, <1>7 DEF Of
<1>9. Numbered(body')
  BY <1>3, <1>4, <1>6, <1>7 DEF Numbered, n
<1>10. BodyInv'
  <2>1. body' \in Seq(Of(body')) /\ Of(body)' = Of(body')
    BY <1>6, <1>8 DEF Of
  <2>2. Numbered(body)'
    BY <1>9 DEF Numbered, Proper, IsSymbol, Locations, Indirects, IndexLocations
  <2> QED BY <1>1, <2>1, <2>2 DEF LoopInv, BodyInv, Of
<1> QED BY <1>1, <1>10 DEF LoopInv, RunInv

(* The loop is lowered.                                                    *)
LEMMA EmitLoopKeeps ==
  ASSUME LoopInv, EmitLoop
  PROVE  LoopInv'
<1>1. /\ phase = "source" /\ phase' = "run" /\ body' = body /\ code' = Lower(body)
      /\ left' = code'[1].edge /\ it' = it /\ at' = at /\ done' = done /\ mem' = mem
      /\ misread' = misread /\ idx' = idx
  BY DEF EmitLoop
<1>2. /\ Numbered(body) /\ body \in Seq(Of(body)) /\ it = 1 /\ at = 1 /\ done = {}
      /\ misread = FALSE /\ mem = [l \in Locations |-> 0]
  BY <1>1 DEF LoopInv, BodyInv
<1>3. BodyInv'
  BY <1>1, <1>2 DEF BodyInv
<1>4. ASSUME Stable(body)
      PROVE  /\ Position(body, code', 1, code'[1].edge, {})
             /\ Remembers(body, Executed(code', 1, code'[1].edge, {}), 1, mem)
             /\ Indexed(body, code', 1, 1, idx)
  <2> DEFINE c == Lower(body)
  <2>1. Faithful(body, c)
    BY <1>2, <1>4, LowerIsFaithful
  <2> HIDE DEF c
  <2>2. /\ 1 \in DOMAIN c /\ DOMAIN c \subseteq Nat \ {0} /\ c[1].load = {}
    BY <2>1 DEF Faithful
  <2>3. Position(body, c, 1, c[1].edge, {})
    BY <2>1, <2>2 DEF Position, NoneLeftBefore
  <2>4. {k \in DOMAIN c : k < 1} = {} /\ {k \in DOMAIN c : k <= 1} = {1}
    BY <2>2
  <2>5. Executed(c, 1, c[1].edge, {}) = {} /\ Loaded(c, 1) = {}
    BY <2>2, <2>4 DEF Executed, Prior, Loaded
  <2>6. \A l \in Locations : mem[l] = Held(body, {}, 1, l)
    <3>1. \A l : Value(body, 1, 1, l) = 0
      <4>1. DOMAIN body = 1 .. Len(body) /\ Len(body) \in Nat
        BY <1>2 DEF Numbered
      <4>2. \A l : {m \in {m \in DOMAIN body : body[m].target = l} : m < 1} = {}
        BY <4>1
      <4> QED BY <4>2 DEF Value
    <3> QED BY <1>2, <3>1, HeldAtStart
  <2> QED BY <1>1, <2>3, <2>5, <2>6 DEF Remembers, Indexed, c
<1>5. RunInv'
  <2> SUFFICES ASSUME Stable(body)
               PROVE  /\ Position(body, code', at', left', done') /\ it' \in Nat \ {0}
                      /\ misread' = FALSE /\ mem' = [l \in Locations |-> mem'[l]]
                      /\ Remembers(body, Executed(code', at', left', done'), it', mem')
                      /\ Indexed(body, code', it', at', idx')
    BY <1>1 DEF RunInv, StableIndices, Stable
  <2> QED BY <1>1, <1>2, <1>4
<1> QED BY <1>3, <1>5 DEF LoopInv

(* What a due statement of the segment needs, and what it leaves.          *)
LEMMA RunRemembers ==
  ASSUME Numbered(body), Position(body, code, at, left, done), misread = FALSE,
         mem = [l \in Locations |-> mem[l]], NEW X, Remembers(body, X, it, mem),
         Indexed(body, code, it, at, idx), NEW st \in Work(code[at]), Due(body, X, st),
         Execute(st)
  PROVE  /\ Remembers(body, X \cup {st}, it, mem') /\ misread' = FALSE
         /\ mem' = [l \in Locations |-> mem'[l]]
<1>1. st \in Of(body) /\ st.ind \subseteq Loaded(code, at)
  BY DEF Position, Faithful, Due
<1>2. \A p \in st.ind : idx[p] = <<Value(body, it, st.id, <<p[1], "e">>),
                                   Value(body, it, st.id, <<p[2], "e">>)>>
  BY <1>1 DEF Indexed
<1> QED BY <1>2, ExecuteRemembers

(* An assignment of the entering edge runs.                                *)
LEMMA RunEdgeKeeps ==
  ASSUME LoopInv, RunEdge, Stable(body)
  PROVE  RunInv'
<1>1. /\ phase = "run" /\ UNCHANGED <<body, phase, code, it, at, done, idx>>
      /\ \E e \in left : Execute(e) /\ left' = left \ {e}
  BY DEF RunEdge
<1>2. PICK e \in left : Execute(e) /\ left' = left \ {e}
  BY <1>1
<1> DEFINE X == Executed(code, at, left, done)
<1>3. /\ Position(body, code, at, left, done) /\ it \in Nat \ {0} /\ misread = FALSE
      /\ mem = [l \in Locations |-> mem[l]] /\ Remembers(body, X, it, mem)
      /\ Indexed(body, code, it, at, idx) /\ Numbered(body)
  BY <1>1 DEF LoopInv, BodyInv, RunInv, StableIndices, Stable
<1>4. e \in code[at].edge /\ e \in Work(code[at])
  BY <1>3 DEF Position, Work
<1>5. Due(body, X, e)
  BY <1>3, EdgeIsDue
<1>6. Executed(code, at, left \ {e}, done) = X \cup {e}
  BY <1>4 DEF Executed
<1>7. Position(body, code, at, left \ {e}, done)
  BY <1>3 DEF Position
<1> HIDE DEF X
<1>8. /\ Remembers(body, X \cup {e}, it, mem') /\ misread' = FALSE
      /\ mem' = [l \in Locations |-> mem'[l]]
  BY <1>2, <1>3, <1>4, <1>5, RunRemembers
<1>9. /\ Position(body', code', at', left', done') /\ it' \in Nat \ {0}
      /\ Remembers(body', Executed(code', at', left', done'), it', mem')
      /\ Indexed(body', code', it', at', idx')
  BY <1>1, <1>2, <1>3, <1>6, <1>7, <1>8
<1> QED BY <1>8, <1>9 DEF RunInv

(* A compute of the segment runs.                                          *)
LEMMA RunTaskletKeeps ==
  ASSUME LoopInv, RunTasklet, Stable(body)
  PROVE  RunInv'
<1> DEFINE g == code[at].g
<1>1. /\ phase = "run" /\ UNCHANGED <<body, phase, code, it, at, left, idx>> /\ left = {}
      /\ \E t \in Ready(g, done) : Execute(g.nodes[t].stmt) /\ done' = done \cup {t}
  BY DEF RunTasklet
<1>2. PICK t \in Ready(g, done) : Execute(g.nodes[t].stmt) /\ done' = done \cup {t}
  BY <1>1
<1> DEFINE X == Executed(code, at, {}, done)
           st == g.nodes[t].stmt
<1>3. /\ Position(body, code, at, {}, done) /\ it \in Nat \ {0} /\ misread = FALSE
      /\ mem = [l \in Locations |-> mem[l]] /\ Remembers(body, X, it, mem)
      /\ Indexed(body, code, it, at, idx) /\ Numbered(body)
  BY <1>1 DEF LoopInv, BodyInv, RunInv, StableIndices, Stable
<1>4. t \in CodeNodes(g) \ done /\ \A u \in CodeNodes(g) \ done : t \notin Descendants(g, u)
  BY DEF Ready
<1>5. st \in Work(code[at])
  BY <1>4 DEF Work, Carried
<1>6. Due(body, X, st)
  BY <1>3, NodeIsDue
<1>7. Executed(code, at, {}, done \cup {t}) = X \cup {st}
  BY DEF Executed
<1>8. Position(body, code, at, {}, done \cup {t})
  BY <1>3, <1>4 DEF Position, NoneLeftBefore
<1>9. Execute(st)
  BY <1>2
<1> HIDE DEF X, st, g
<1>10. /\ Remembers(body, X \cup {st}, it, mem') /\ misread' = FALSE
       /\ mem' = [l \in Locations |-> mem'[l]]
  BY <1>1, <1>3, <1>5, <1>6, <1>9, RunRemembers
<1>11. /\ Position(body', code', at', left', done') /\ it' \in Nat \ {0}
       /\ Remembers(body', Executed(code', at', left', done'), it', mem')
       /\ Indexed(body', code', it', at', idx')
  BY <1>1, <1>2, <1>3, <1>7, <1>8, <1>10
<1> QED BY <1>10, <1>11 DEF RunInv

(* The run is at the end of segment i, T being the nodes that have run.    *)
AtEnd(b, c, i, T) == Position(b, c, i, {}, T) /\ T = CodeNodes(c[i].g)

(* When a segment has run, the next one follows or the body is complete.   *)
LEMMA SegmentHasRun ==
  ASSUME NEW b, NEW c, NEW i, NEW T, AtEnd(b, c, i, T)
  PROVE  /\ Executed(c, i, {}, T) = Prior(c, i) \cup Work(c[i])
         /\ i \in 1 .. Len(c) /\ Len(c) \in Nat
         /\ i < Len(c) =>
              /\ i + 1 \in DOMAIN c /\ Prior(c, i + 1) = Prior(c, i) \cup Work(c[i])
              /\ Loaded(c, i + 1) = Loaded(c, i) \cup c[i + 1].load
              /\ Position(b, c, i + 1, c[i + 1].edge, {})
         /\ i = Len(c) => Prior(c, i) \cup Work(c[i]) = Of(b)
<1>1. /\ Faithful(b, c) /\ i \in 1 .. Len(c) /\ Len(c) \in Nat \ {0} /\ DOMAIN c = 1 .. Len(c)
      /\ Listed(c) = Of(b)
  BY DEF AtEnd, Position, Faithful
<1>2. Executed(c, i, {}, T) = Prior(c, i) \cup Work(c[i])
  BY DEF AtEnd, Executed, Work, Carried
<1>3. ASSUME i < Len(c)
      PROVE  /\ i + 1 \in DOMAIN c /\ Prior(c, i + 1) = Prior(c, i) \cup Work(c[i])
             /\ Loaded(c, i + 1) = Loaded(c, i) \cup c[i + 1].load
             /\ Position(b, c, i + 1, c[i + 1].edge, {})
  <2>1. i + 1 \in DOMAIN c
    BY <1>1, <1>3
  <2>2. /\ {k \in DOMAIN c : k < i + 1} = {k \in DOMAIN c : k < i} \cup {i}
        /\ {k \in DOMAIN c : k <= i + 1} = {k \in DOMAIN c : k <= i} \cup {i + 1}
    BY <1>1, <2>1
  <2>3. Prior(c, i + 1) = Prior(c, i) \cup Work(c[i])
    BY <2>2 DEF Prior
  <2>4. Loaded(c, i + 1) = Loaded(c, i) \cup c[i + 1].load
    BY <2>2 DEF Loaded
  <2>5. Position(b, c, i + 1, c[i + 1].edge, {})
    BY <1>1, <2>1 DEF Position, NoneLeftBefore
  <2> QED BY <2>1, <2>3, <2>4, <2>5
<1>4. ASSUME i = Len(c) PROVE Prior(c, i) \cup Work(c[i]) = Of(b)
  <2>1. DOMAIN c = {k \in DOMAIN c : k < i} \cup {i}
    BY <1>1, <1>4
  <2>2. Listed(c) = Prior(c, i) \cup Work(c[i])
    BY <2>1 DEF Listed, Prior
  <2> QED BY <1>1, <2>2
<1> QED BY <1>1, <1>2, <1>3, <1>4

(* On to the next segment or the next iteration.                           *)
LEMMA NextStateKeeps ==
  ASSUME LoopInv, NextState, Stable(body)
  PROVE  RunInv'
<1> DEFINE X == Prior(code, at) \cup Work(code[at])
<1>1. /\ phase = "run" /\ UNCHANGED <<body, phase, code, mem, misread>>
      /\ left = {} /\ done = CodeNodes(code[at].g)
      /\ at' = (IF at < Len(code) THEN at + 1 ELSE 1)
      /\ it' = (IF at < Len(code) THEN it ELSE it + 1)
      /\ left' = code[at'].edge /\ done' = {}
      /\ idx' = [p \in Indirects |->
                   IF p \in code[at'].load THEN <<mem[<<p[1], "e">>], mem[<<p[2], "e">>]>>
                   ELSE idx[p]]
  BY DEF NextState, StateDone
<1>2. /\ Position(body, code, at, {}, done) /\ it \in Nat \ {0}
      /\ misread = FALSE /\ mem = [l \in Locations |-> mem[l]]
      /\ Remembers(body, Executed(code, at, {}, done), it, mem)
      /\ Indexed(body, code, it, at, idx) /\ Numbered(body)
  BY <1>1 DEF LoopInv, BodyInv, RunInv, StableIndices, Stable
<1>0. AtEnd(body, code, at, done)
  BY <1>1, <1>2 DEF AtEnd
<1>3. /\ Executed(code, at, {}, done) = X
      /\ at \in 1 .. Len(code) /\ Len(code) \in Nat
      /\ at < Len(code) =>
           /\ at + 1 \in DOMAIN code /\ Prior(code, at + 1) = X
           /\ Loaded(code, at + 1) = Loaded(code, at) \cup code[at + 1].load
           /\ Position(body, code, at + 1, code[at + 1].edge, {})
      /\ at = Len(code) => X = Of(body)
  BY <1>0, SegmentHasRun
<1>4. Remembers(body, X, it, mem)
  BY <1>2, <1>3
<1>5. /\ Faithful(body, code) /\ \A v \in Of(body) : v.id \in Nat
      /\ X \subseteq Of(body)
  <2>1. Faithful(body, code) /\ at \in DOMAIN code
    BY <1>2 DEF Position
  <2>2. Work(code[at]) \subseteq Of(body) /\ Prior(code, at) \subseteq Of(body)
    BY <2>1, SegmentsInTurn
  <2> QED BY <1>2, <2>1, <2>2, AssignersOfBody
<1>6. \A k \in DOMAIN code : Executed(code, k, code[k].edge, {}) = Prior(code, k)
  BY DEF Executed
<1>7. CASE at < Len(code)
  <2>1. /\ at' = at + 1 /\ it' = it /\ at + 1 \in DOMAIN code
        /\ Prior(code, at + 1) = X
        /\ Loaded(code, at + 1) = Loaded(code, at) \cup code[at + 1].load
        /\ Position(body, code, at + 1, code[at + 1].edge, {})
    BY <1>1, <1>3, <1>7
  <2>2. Executed(code, at + 1, code[at + 1].edge, {}) = X
    BY <1>6, <2>1
  <2>3. Indexed(body, code, it, at + 1, idx')
    <3> SUFFICES ASSUME NEW p \in Loaded(code, at + 1), NEW v \in Of(body), p \in v.ind
                 PROVE  idx'[p] = <<Value(body, it, v.id, <<p[1], "e">>),
                                    Value(body, it, v.id, <<p[2], "e">>)>>
      BY DEF Indexed
    <3>1. p \in Indirects /\ <<p[1], "e">> \in Locations /\ <<p[2], "e">> \in Locations
      BY <1>2, PartsOfBody DEF Proper, IndexLocations
    <3>2. CASE p \in code[at + 1].load
      <4>1. LoadFits(body, X, p)
        BY <1>5, <2>1, <3>2 DEF Faithful
      <4>2. ASSUME NEW l \in IndexLocations(p), l \in Locations
            PROVE  mem[l] = Value(body, it, v.id, l)
        <5>1. \A w \in Of(body) : w.target = l => (w \in X <=> w.id < v.id)
          BY <4>1 DEF LoadFits
        <5> HIDE DEF X
        <5>2. Held(body, X, it, l) = Value(body, it, v.id, l)
          BY <1>2, <1>5, <5>1, HeldForReader
        <5> QED BY <1>4, <4>2, <5>2 DEF Remembers
      <4>3. /\ mem[<<p[1], "e">>] = Value(body, it, v.id, <<p[1], "e">>)
            /\ mem[<<p[2], "e">>] = Value(body, it, v.id, <<p[2], "e">>)
        BY <3>1, <4>2 DEF IndexLocations
      <4> QED BY <1>1, <2>1, <3>1, <3>2, <4>3
    <3>3. CASE p \notin code[at + 1].load
      <4>1. p \in Loaded(code, at)
        BY <2>1, <3>3
      <4>2. idx'[p] = idx[p]
        BY <1>1, <2>1, <3>1, <3>3
      <4> QED BY <1>2, <4>1, <4>2 DEF Indexed
    <3> QED BY <3>2, <3>3
  <2> HIDE DEF X
  <2>4. /\ Position(body', code', at', left', done') /\ it' \in Nat \ {0} /\ misread' = FALSE
        /\ mem' = [l \in Locations |-> mem'[l]]
        /\ Remembers(body', Executed(code', at', left', done'), it', mem')
        /\ Indexed(body', code', it', at', idx')
    BY <1>1, <1>2, <1>4, <2>1, <2>2, <2>3
  <2> QED BY <2>4 DEF RunInv
<1>8. CASE ~(at < Len(code))
  <2>1. at = Len(code) /\ at' = 1 /\ it' = it + 1 /\ X = Of(body)
    BY <1>1, <1>3, <1>8
  <2>2. 1 \in DOMAIN code /\ DOMAIN code \subseteq Nat \ {0} /\ code[1].load = {}
    BY <1>5 DEF Faithful
  <2>3. {k \in DOMAIN code : k < 1} = {} /\ {k \in DOMAIN code : k <= 1} = {1}
    BY <2>2
  <2>4. Prior(code, 1) = {} /\ Loaded(code, 1) = {}
    BY <2>2, <2>3 DEF Prior, Loaded
  <2>5. Position(body, code, 1, code[1].edge, {})
    BY <1>5, <2>2 DEF Position, NoneLeftBefore
  <2>6. Remembers(body, {}, it + 1, mem)
    <3>1. \A l : Held(body, Of(body), it, l) = Value(body, it + 1, 1, l)
      BY <1>2, HeldForNext
    <3>2. \A l : Held(body, {}, it + 1, l) = Value(body, it + 1, 1, l)
      BY HeldAtStart
    <3> QED BY <1>4, <2>1, <3>1, <3>2 DEF Remembers
  <2>7. Executed(code, 1, code[1].edge, {}) = {}
    BY <1>6, <2>2, <2>4
  <2>8. Indexed(body, code, it + 1, 1, idx')
    BY <2>4 DEF Indexed
  <2> HIDE DEF X
  <2>9. /\ at' = 1 /\ it' = it + 1 /\ left' = code[1].edge /\ done' = {}
        /\ body' = body /\ code' = code /\ mem' = mem /\ misread' = misread
    BY <1>1, <2>1
  <2>10. it' \in Nat \ {0} /\ misread' = FALSE /\ mem' = [l \in Locations |-> mem'[l]]
    BY <1>2, <2>9
  <2>11. Position(body', code', at', left', done')
    BY <2>5, <2>9
  <2>12. Remembers(body', Executed(code', at', left', done'), it', mem')
    BY <2>6, <2>7, <2>9
  <2>13. Indexed(body', code', it', at', idx')
    BY <2>8, <2>9
  <2> QED BY <2>10, <2>11, <2>12, <2>13 DEF RunInv
<1> QED BY <1>7, <1>8

(* Every step keeps it.                                                    *)
LEMMA LoopInvStep == LoopInv /\ [Next]_vars => LoopInv'
<1> SUFFICES ASSUME LoopInv, [Next]_vars PROVE LoopInv'
  OBVIOUS
<1>1. CASE \E s \in Statements : Write(s)
  BY <1>1, WriteKeeps
<1>2. CASE EmitLoop
  BY <1>2, EmitLoopKeeps
<1>3. CASE RunEdge \/ RunTasklet \/ NextState
  <2>1. body' = body /\ phase = "run" /\ phase' = "run"
    BY <1>3 DEF RunEdge, RunTasklet, NextState, StateDone
  <2>2. BodyInv'
    BY <2>1 DEF LoopInv, BodyInv
  <2>3. CASE Stable(body)
    BY <1>3, <2>2, <2>3, RunEdgeKeeps, RunTaskletKeeps, NextStateKeeps DEF LoopInv
  <2>4. CASE ~Stable(body)
    <3>1. ~StableIndices'
      BY <2>1, <2>4 DEF StableIndices, Stable
    <3> QED BY <2>2, <3>1 DEF LoopInv, RunInv
  <2> QED BY <2>3, <2>4
<1>4. CASE UNCHANGED vars
  <2>1. UNCHANGED <<body, phase, code, it, at, left, done, mem, idx, misread>>
    BY <1>4 DEF vars
  <2>2. BodyInv'
    BY <2>1 DEF LoopInv, BodyInv
  <2>3. StableIndices' <=> StableIndices
    BY <2>1 DEF StableIndices
  <2>4. RunInv'
    BY <2>1, <2>3 DEF LoopInv, RunInv
  <2> QED BY <2>2, <2>4 DEF LoopInv
<1> QED BY <1>1, <1>2, <1>3, <1>4 DEF Next

(* When the loop is done its memory is Fortran's.                          *)
LEMMA LoopInvSuffices == LoopInv => SequentialStableBody
<1> SUFFICES ASSUME LoopInv, StableIndices PROVE SequentialBody
  BY DEF SequentialStableBody
<1>1. ~misread
  <2>1. phase \in {"source", "run"}
    BY DEF LoopInv, BodyInv
  <2> QED BY <2>1 DEF LoopInv, BodyInv, RunInv
<1>2. ASSUME LoopDone, NEW l \in Locations PROVE mem[l] = Expected(Iterations + 1, 1, l)
  <2>1. /\ phase = "run" /\ left = {} /\ done = CodeNodes(code[at].g) /\ at = Len(code)
        /\ it = Iterations
    BY <1>2 DEF LoopDone, StateDone
  <2>2. /\ Position(body, code, at, {}, done) /\ it \in Nat \ {0}
        /\ Remembers(body, Executed(code, at, {}, done), it, mem)
        /\ Numbered(body)
    BY <2>1 DEF LoopInv, BodyInv, RunInv
  <2>3. Executed(code, at, {}, done) = Of(body)
    <3>1. AtEnd(body, code, at, done)
      BY <2>1, <2>2 DEF AtEnd
    <3>2. /\ Executed(code, at, {}, done) = Prior(code, at) \cup Work(code[at])
          /\ at = Len(code) => Prior(code, at) \cup Work(code[at]) = Of(body)
      BY <3>1, SegmentHasRun
    <3> QED BY <2>1, <3>2
  <2>4. mem[l] = Value(body, it + 1, 1, l)
    BY <2>2, <2>3, HeldForNext DEF Remembers
  <2>5. Expected(it + 1, 1, l) = Value(body, it + 1, 1, l)
    BY DEF Expected, Value
  <2> QED BY <2>1, <2>4, <2>5
<1> QED BY <1>1, <1>2 DEF SequentialBody

(* Every statement of every iteration reads what sequential Fortran reads, *)
(* and the loop leaves the memory that sequential Fortran leaves, for      *)
(* every body that does not use an index on both sides of a redefinition.  *)
THEOREM StableBodies == Spec => []SequentialStableBody
<1>1. Init => LoopInv
  BY LoopInvInit
<1>2. LoopInv /\ [Next]_vars => LoopInv'
  BY LoopInvStep
<1>3. LoopInv => SequentialStableBody
  BY LoopInvSuffices
<1> QED BY <1>1, <1>2, <1>3, PTL DEF Spec
=============================================================================
