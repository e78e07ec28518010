---------------------------- MODULE StateGraph -----------------------------
(***************************************************************************)
(* The dataflow graph of one SDFG state, as the builder makes it:          *)
(* builder/access.py (acc), builder/emit_tasklet.py (emit_tasklet,         *)
(* emit_scalar_assign) and builder/statement_order.py.                     *)
(*                                                                         *)
(* Consecutive Fortran statements share a state.  A statement becomes a    *)
(* tasklet or a library node; a container is reached through access nodes, *)
(* one live sink per name being cached.  The generated code runs the code  *)
(* nodes of a state in some topological order of the graph, so every       *)
(* Fortran dependence has to be a path.                                    *)
(*                                                                         *)
(* A location is <<name, element>>.  A statement is a record               *)
(*   [id, how, target, reads, self]                                        *)
(* with the way it is lowered ("assign" here, the others in LibraryNodes), *)
(* the location it assigns, the set of locations it reads, and whether it  *)
(* is the no-op x = x.  Maps and complex component aliases are left out.   *)
(***************************************************************************)
EXTENDS Naturals, Sequences, FiniteSets, SequencesExt, FiniteSetsExt

CONSTANTS
  Scalars,  \* names in builder.scalars
  Arrays,   \* names in builder.arrays with storage of their own
  Views,    \* view_alias names (a Fortran pointer or a reshaped dummy)
  Sections, \* section_alias names (no descriptor: redirected to the source)
  Symbols,  \* names in builder.symbols
  Outside,  \* what a call touches beside the containers: files, messages
  SourceOf  \* the array each view and each section alias stands for

Named == Arrays \cup Views \cup Sections

ASSUME NamesAssumption ==
  /\ Scalars \cap Named = {} /\ Symbols \cap (Scalars \cup Named) = {}
  /\ Outside \cap (Scalars \cup Named \cup Symbols) = {}
  /\ Arrays \cap (Views \cup Sections) = {} /\ Views \cap Sections = {}
  /\ SourceOf \in [Views \cup Sections -> Arrays]

(* The storage a name denotes.                                             *)
Root(d) == IF d \in Views \cup Sections THEN SourceOf[d] ELSE d
Real(loc) == <<Root(loc[1]), loc[2]>>

(* The container acc and emit_tasklet use for a name.                      *)
Resolve(d) == IF d \in Sections THEN SourceOf[d] ELSE d

NoStatement == [id |-> 0]

(* A state whose incoming edge carries the assignment st.  cache is        *)
(* builder.access_caches[state], the live sink of each container; opened   *)
(* tells whether the dictionary exists yet.                                *)
StateAfter(st) ==
  [nodes |-> <<>>, edges |-> {}, cache |-> <<>>, opened |-> FALSE, entry |-> st]

EmptyState == StateAfter(NoStatement)

(* A code node keeps its statement; an access node has none.               *)
AddNode(g, kind, d, st) ==
  [g EXCEPT !.nodes = Append(@, [kind |-> kind, data |-> d, stmt |-> st])]

Bind(c, d, n) == [x \in DOMAIN c \cup {d} |-> IF x = d THEN n ELSE c[x]]
Unbind(c, d) == [x \in DOMAIN c \ {d} |-> c[x]]

Cached(g, d) == d \in DOMAIN g.cache

(* A cached access node for d, created on first use.                       *)
Touch(g, d) ==
  IF Cached(g, d) THEN g
  ELSE LET h == AddNode(g, "access", d, NoStatement)
       IN  [h EXCEPT !.cache = Bind(@, d, Len(h.nodes)), !.opened = TRUE]

(* acc: a view's first access node is linked to its source's node.         *)
Acc(g, d) ==
  LET r == Resolve(d) IN
  IF Cached(g, r) \/ r \notin Views THEN Touch(g, r)
  ELSE LET h == Touch(Touch(g, r), SourceOf[r])
       IN  [h EXCEPT !.edges = @ \cup {<<h.cache[SourceOf[r]], h.cache[r], "all">>}]

(* A read edge from the live sink of d to tasklet t.                       *)
WireRead(g, d, t) ==
  LET h == Acc(g, d)
  IN  [h EXCEPT !.edges = @ \cup {<<h.cache[Resolve(d)], t, "read">>}]

(* A fresh sink for d.                                                     *)
NewSink(g, d) ==
  LET h == AddNode(g, "access", d, NoStatement)
  IN  IF h.opened THEN [h EXCEPT !.cache = Bind(@, d, Len(h.nodes))] ELSE h

(* ensure_view_writeback_link: a written view flows into a fresh node of   *)
(* its source, which becomes the source's live sink; later reads of the    *)
(* view start from a new view node.                                        *)
WriteBack(g, d) ==
  IF d \notin Views THEN g
  ELSE LET w == Len(g.nodes)
           h == AddNode(g, "access", SourceOf[d], NoStatement)
       IN  [h EXCEPT !.edges = @ \cup {<<w, w + 1, "all">>},
                     !.cache = IF h.opened
                               THEN Unbind(Bind(@, SourceOf[d], w + 1), d)
                               ELSE @]

ReadNames(st) == {loc[1] : loc \in st.reads} \ (Symbols \cup Outside)

HasReaders(g, d) == Cached(g, d) /\ \E e \in g.edges : e[1] = g.cache[d]

(* A write needs a fresh sink when it goes to a view, when the statement   *)
(* reads its own target, or when the live sink has been read already.      *)
NeedsFreshSink(g, st) ==
  LET d == Resolve(st.target[1])
  IN  \/ d \in Views
      \/ {st.target[1], d} \cap ReadNames(st) # {}
      \/ HasReaders(g, d)

AddEdges(g, E) == [g EXCEPT !.edges = @ \cup E]

(* Code node t stores into a fresh sink of d ...                           *)
StoreFresh(g, d, t, subset) ==
  AddEdges(WriteBack(NewSink(g, d), d), {<<t, Len(g.nodes) + 1, subset>>})

(* ... or into its live one.                                               *)
IntoLive(g, d, t, subset) == AddEdges(g, {<<t, g.cache[d], subset>>})
StoreLive(g, d, t, subset) == IntoLive(Acc(g, d), d, t, subset)

(* emit_tasklet: the tasklet, its reads, then its store.                   *)
WireReads(g, st, t) ==
  FoldLeft(LAMBDA h, x : WireRead(h, x, t), g, SetToSeq(ReadNames(st)))
StoreTarget(g, st, t) ==
  IF NeedsFreshSink(g, st)
  THEN StoreFresh(g, Resolve(st.target[1]), t, st.target[2])
  ELSE StoreLive(g, Resolve(st.target[1]), t, st.target[2])
EmitTasklet(g, st) ==
  LET t == Len(g.nodes) + 1
  IN  StoreTarget(WireReads(AddNode(g, "tasklet", Resolve(st.target[1]), st), st, t), st, t)

(* emit_scalar_assign: x = x moves no value and is dropped.                *)
EmitScalarAssign(g, st) == IF st.self THEN g ELSE EmitTasklet(g, st)

-----------------------------------------------------------------------------
(* statement_order.py.                                                     *)
DataNodes(g) == {n \in DOMAIN g.nodes : g.nodes[n].kind = "access"}
CodeNodes(g) == DOMAIN g.nodes \ DataNodes(g)

Successors(E, S) == {e[2] : e \in {x \in E : x[1] \in S}}

(* descendants: every node reachable from n.                               *)
Descendants(g, n) ==
  LET grow[k \in Nat] == IF k = 0 THEN Successors(g.edges, {n})
                         ELSE LET S == grow[k - 1]
                              IN  S \cup Successors(g.edges, S)
  IN  grow[Len(g.nodes)]

AddOrderAlways(g, a, b) == [g EXCEPT !.edges = @ \cup {<<a, b, "order">>}]

(* An ordering-only edge, unless the order is there already or would make  *)
(* the state cyclic (a SkippedEdge).                                       *)
AddOrder(g, a, b) ==
  IF a = b \/ b \in Descendants(g, a) \/ a \in Descendants(g, b) THEN g
  ELSE [g EXCEPT !.edges = @ \cup {<<a, b, "order">>}]

(* Two stored subsets may hold the same element.                           *)
Intersects(s, u) == s = u \/ "all" \in {s, u}

(* Ordering edges are added one by one, in the lexicographic order of the  *)
(* triples <<key, earlier node, later node>>.                              *)
Precedes(p, q) ==
  \E i \in DOMAIN p : p[i] < q[i] /\ \A j \in 1..(i - 1) : p[j] = q[j]

InOrder(op(_, _), g, S) ==
  MapThenFoldSet(op, g, LAMBDA p : p,
                 LAMBDA s : CHOOSE p \in s : \A q \in s \ {p} : Precedes(q, p), S)

NoOrderWriters(g) == g

(* order_writers: two stores into one access node keep their source order. *)
OrderWriters(g) ==
  LET stores(n) == {e \in g.edges : e[2] = n /\ e[3] # "order"}
      clashes(n) == {<<n, e[1], f[1]>> : e, f \in stores(n)}
      may(c) == \E e, f \in stores(c[1]) :
                  e[1] = c[2] /\ f[1] = c[3] /\ Intersects(e[3], f[3])
  IN  InOrder(LAMBDA c, h : AddOrder(h, c[2], c[3]), g,
              {c \in UNION {clashes(n) : n \in DataNodes(g)} : c[2] < c[3] /\ may(c)})

(* The nodes reached from n along edges in E whose inner nodes are access  *)
(* nodes, cut at the first code node or at an access node without edges.   *)
Anchors(g, E, n) ==
  LET through(S) == S \cup Successors(E, S \cap DataNodes(g))
      grow[k \in Nat] == IF k = 0 THEN {n} ELSE through(grow[k - 1])
      found == grow[Len(g.nodes)]
  IN  {m \in found : m \in CodeNodes(g) \/ Successors(E, {m}) = {}}

(* load_anchors: the consumers of an access node, not the node itself.     *)
LoadAnchors(g, n) == Anchors(g, g.edges, n)

(* store_anchors: the code nodes that store into an access node.             *)
StoreAnchors(g, n) == Anchors(g, {<<e[2], e[1], e[3]>> : e \in g.edges}, n)

Written(g, n) == \E e \in g.edges : e[2] = n

(* order_state, for one pair of access nodes of one container.             *)
OrderPair(g, a, b) ==
  IF a \in Descendants(g, b) \/ (~Written(g, a) /\ ~Written(g, b)) THEN g
  ELSE IF Written(g, b)
       THEN FoldSet(LAMBDA p, h : AddOrder(h, p[1], p[2]), g,
                    LoadAnchors(g, a) \X StoreAnchors(g, b))
       ELSE AddOrder(g, a, b)

(* order_state: writers first, then container by container in the order of *)
(* their first access nodes.  root_data of an access node is its own name. *)
OrderState(g) ==
  LET w == OrderWriters(g)
      first(d) == Min({m \in DataNodes(w) : w.nodes[m].data = d})
      same == {c \in DataNodes(w) \X DataNodes(w) :
                 c[1] < c[2] /\ w.nodes[c[1]].data = w.nodes[c[2]].data}
  IN  InOrder(LAMBDA c, h : OrderPair(h, c[2], c[3]), w,
              {<<first(w.nodes[c[1]].data), c[1], c[2]>> : c \in same})

-----------------------------------------------------------------------------
(* Execution of a state by the generated code (external): any code node    *)
(* whose predecessors have run may be next.                                *)
Ready(g, done) ==
  {t \in CodeNodes(g) \ done :
     \A u \in CodeNodes(g) \ done : t \notin Descendants(g, u)}
=============================================================================
