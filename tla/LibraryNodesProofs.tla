------------------------- MODULE LibraryNodesProofs -------------------------
(***************************************************************************)
(* What the emitters of StateGraph and LibraryNodes do to a state graph,   *)
(* for every graph: which of them may close a cycle, which never do, and   *)
(* that the ordering pass makes paths of the dependences they leave.       *)
(***************************************************************************)
EXTENDS LibraryNodes, StateGraphProofs

-----------------------------------------------------------------------------
(* State graphs whose names, subsets and statements are in U, with edges   *)
(* between nodes and a cache of access nodes.                              *)
Kinds == {"access", "tasklet", "library"}
Nodes(U) == [kind : Kinds, data : U, stmt : U]
Caches(U) == UNION {[D -> Nat] : D \in SUBSET U}

Points(g, c) ==
  \A d \in DOMAIN c : /\ c[d] \in DOMAIN g.nodes
                     /\ g.nodes[c[d]].kind = "access" /\ g.nodes[c[d]].data = d
CacheOK(g) == Points(g, g.cache)

Typed(U) == [nodes : Seq(Nodes(U)), edges : SUBSET (Nat \X Nat \X U),
             cache : Caches(U), opened : BOOLEAN, entry : U]
Graphs(U) == {g \in Typed(U) : Wired(g) /\ CacheOK(g)}

Universe(U) == {NoStatement, "read", "all", "order"} \cup Named \subseteq U

(* No edge leaves n.                                                       *)
Sink(g, n) == \A e \in g.edges : e[1] # n

(* h has the nodes and the edges of g and more, but no cycle of its own.   *)
Continues(g, h) ==
  /\ Len(g.nodes) <= Len(h.nodes) /\ \A n \in DOMAIN g.nodes : h.nodes[n] = g.nodes[n]
  /\ g.edges \subseteq h.edges /\ (Loopless(g) => Loopless(h))

(* A graph of the set is a graph.                                          *)
LEMMA GraphsAreGraphs ==
  ASSUME NEW U, NEW g \in Graphs(U)
  PROVE  /\ IsGraph(g) /\ CacheOK(g) /\ g.nodes \in Seq(Nodes(U))
         /\ g.edges \subseteq Nat \X Nat \X U /\ g.cache \in Caches(U)
         /\ g.opened \in BOOLEAN /\ g.entry \in U
         /\ Len(g.nodes) \in Nat /\ DOMAIN g.nodes = 1 .. Len(g.nodes)
BY DEF Graphs, Typed, IsGraph, Wired

(* A graph with one component replaced, as a record ...                    *)
LEMMA GraphField ==
  ASSUME NEW g, IsGraph(g), NEW F
  PROVE  /\ [g EXCEPT !.edges = F] =
              [nodes |-> g.nodes, edges |-> F, cache |-> g.cache, opened |-> g.opened,
               entry |-> g.entry]
         /\ [g EXCEPT !.nodes = F] =
              [nodes |-> F, edges |-> g.edges, cache |-> g.cache, opened |-> g.opened,
               entry |-> g.entry]
         /\ [g EXCEPT !.cache = F] =
              [nodes |-> g.nodes, edges |-> g.edges, cache |-> F, opened |-> g.opened,
               entry |-> g.entry]
<1>1. g = [nodes |-> g.nodes, edges |-> g.edges, cache |-> g.cache,
           opened |-> g.opened, entry |-> g.entry]
  BY DEF IsGraph
<1> QED BY <1>1, SMT

(* ... and with two.                                                       *)
LEMMA GraphFields ==
  ASSUME NEW g, IsGraph(g), NEW F, NEW K
  PROVE  /\ [g EXCEPT !.cache = F, !.opened = K] =
              [nodes |-> g.nodes, edges |-> g.edges, cache |-> F, opened |-> K,
               entry |-> g.entry]
         /\ [g EXCEPT !.edges = F, !.cache = K] =
              [nodes |-> g.nodes, edges |-> F, cache |-> K, opened |-> g.opened,
               entry |-> g.entry]
<1> DEFINE q == [g EXCEPT !.cache = F]
           r == [g EXCEPT !.edges = F]
<1>1. q = [nodes |-> g.nodes, edges |-> g.edges, cache |-> F, opened |-> g.opened,
           entry |-> g.entry]
  BY GraphField
<1>2. r = [nodes |-> g.nodes, edges |-> F, cache |-> g.cache, opened |-> g.opened,
           entry |-> g.entry]
  BY GraphField
<1>3. [g EXCEPT !.cache = F, !.opened = K] = [q EXCEPT !.opened = K]
      /\ [g EXCEPT !.edges = F, !.cache = K] = [r EXCEPT !.cache = K]
  BY <1>2
<1> HIDE DEF q, r
<1>4. [q EXCEPT !.opened = K] = [nodes |-> g.nodes, edges |-> g.edges, cache |-> F,
                                 opened |-> K, entry |-> g.entry]
  BY <1>1
<1>5. [r EXCEPT !.cache = K] = [nodes |-> g.nodes, edges |-> F, cache |-> K,
                                opened |-> g.opened, entry |-> g.entry]
  BY <1>2
<1> QED BY <1>3, <1>4, <1>5

(* A set of edges between nodes makes another graph.                   *)
LEMMA GraphWithEdges ==
  ASSUME NEW U, NEW g \in Graphs(U), NEW E, E \subseteq Nat \X Nat \X U,
         \A e \in E : e[1] \in DOMAIN g.nodes /\ e[2] \in DOMAIN g.nodes
  PROVE  /\ AddEdges(g, E) \in Graphs(U)
         /\ AddEdges(g, E).nodes = g.nodes /\ AddEdges(g, E).edges = g.edges \cup E
         /\ AddEdges(g, E).cache = g.cache /\ AddEdges(g, E).opened = g.opened
<1> DEFINE h == AddEdges(g, E)
<1>1. g \in Typed(U) /\ Wired(g) /\ CacheOK(g)
  BY DEF Graphs
<1>2. h = [nodes |-> g.nodes, edges |-> g.edges \cup E, cache |-> g.cache,
           opened |-> g.opened, entry |-> g.entry]
  BY GraphsAreGraphs, GraphField DEF AddEdges
<1>3. h.nodes = g.nodes /\ h.edges = g.edges \cup E /\ h.cache = g.cache /\ h.opened = g.opened
  BY <1>2
<1>4. h \in Typed(U)
  BY <1>1, <1>2 DEF Typed
<1> HIDE DEF h
<1>5. Wired(h)
  BY <1>1, <1>3 DEF Wired
<1>6. CacheOK(h)
  BY <1>1, <1>3 DEF CacheOK, Points
<1> QED BY <1>3, <1>4, <1>5, <1>6 DEF Graphs, h

(* What continues a continuation of a graph continues the graph.           *)
LEMMA ContinuesOn ==
  ASSUME NEW U, NEW g \in Graphs(U), NEW h \in Graphs(U), NEW k \in Graphs(U),
         Continues(g, h), Continues(h, k)
  PROVE  Continues(g, k)
<1>1. DOMAIN g.nodes = 1 .. Len(g.nodes) /\ DOMAIN h.nodes = 1 .. Len(h.nodes)
      /\ Len(g.nodes) \in Nat /\ Len(h.nodes) \in Nat /\ Len(k.nodes) \in Nat
  BY GraphsAreGraphs
<1>2. DOMAIN g.nodes \subseteq DOMAIN h.nodes
  BY <1>1 DEF Continues
<1> QED BY <1>1, <1>2 DEF Continues

(* A graph continues itself.                                               *)
LEMMA ContinuesItself ==
  ASSUME NEW U, NEW g \in Graphs(U)
  PROVE  Continues(g, g)
BY GraphsAreGraphs DEF Continues

(* The nodes of a graph are nodes of what continues it.                    *)
LEMMA NodesStay ==
  ASSUME NEW U, NEW g \in Graphs(U), NEW h \in Graphs(U), Continues(g, h)
  PROVE  DOMAIN g.nodes \subseteq DOMAIN h.nodes
<1>1. DOMAIN g.nodes = 1 .. Len(g.nodes) /\ DOMAIN h.nodes = 1 .. Len(h.nodes)
      /\ Len(g.nodes) \in Nat /\ Len(h.nodes) \in Nat
  BY GraphsAreGraphs
<1> QED BY <1>1 DEF Continues

-----------------------------------------------------------------------------
(* One node, one edge.                                                     *)

(* A new node is on no edge.                                               *)
NodeAdded(g, h, n, kind, d, st) ==
  /\ Continues(g, h)
  /\ h.edges = g.edges /\ h.cache = g.cache /\ h.opened = g.opened
  /\ n = Len(g.nodes) + 1 /\ Len(h.nodes) = n /\ n \in DOMAIN h.nodes
  /\ h.nodes[n].kind = kind /\ h.nodes[n].data = d /\ h.nodes[n].stmt = st
  /\ \A e \in h.edges : e[1] \in DOMAIN g.nodes /\ e[2] \in DOMAIN g.nodes
  /\ n \notin DOMAIN g.nodes

LEMMA AddNodeKeeps ==
  ASSUME NEW U, NEW g \in Graphs(U), NEW kind \in Kinds, NEW d \in U, NEW st \in U
  PROVE  /\ AddNode(g, kind, d, st) \in Graphs(U)
         /\ NodeAdded(g, AddNode(g, kind, d, st), Len(g.nodes) + 1, kind, d, st)
<1> DEFINE h == AddNode(g, kind, d, st)
           n == Len(g.nodes) + 1
           new == [kind |-> kind, data |-> d, stmt |-> st]
<1>1. g \in Typed(U) /\ Wired(g) /\ CacheOK(g) /\ new \in Nodes(U)
  BY DEF Graphs, Nodes
<1>2. g.nodes \in Seq(Nodes(U)) /\ Len(g.nodes) \in Nat /\ DOMAIN g.nodes = 1 .. Len(g.nodes)
  BY <1>1 DEF Typed
<1>3. h = [nodes |-> Append(g.nodes, new), edges |-> g.edges, cache |-> g.cache,
           opened |-> g.opened, entry |-> g.entry]
  <2>1. h = [g EXCEPT !.nodes = Append(g.nodes, new)]
    BY DEF AddNode
  <2> HIDE DEF h, new
  <2> QED BY <2>1, GraphsAreGraphs, GraphField
<1>4. h.nodes = Append(g.nodes, new) /\ h.edges = g.edges /\ h.cache = g.cache
      /\ h.opened = g.opened
  BY <1>3
<1>5. /\ h.nodes \in Seq(Nodes(U)) /\ Len(h.nodes) = n /\ DOMAIN h.nodes = 1 .. n
      /\ h.nodes[n] = new /\ \A m \in DOMAIN g.nodes : h.nodes[m] = g.nodes[m]
  <2> HIDE DEF new, h
  <2> QED BY <1>1, <1>2, <1>4
<1>6. h \in Typed(U)
  BY <1>1, <1>3, <1>4, <1>5 DEF Typed
<1>7. n \notin DOMAIN g.nodes /\ n \in DOMAIN h.nodes /\ DOMAIN g.nodes \subseteq DOMAIN h.nodes
      /\ Len(h.nodes) \in Nat
  BY <1>2, <1>5
<1> HIDE DEF h, n, new
<1>8. \A e \in h.edges : e[1] \in DOMAIN g.nodes /\ e[2] \in DOMAIN g.nodes
  BY <1>1, <1>4 DEF Wired
<1>9. Wired(h)
  BY <1>4, <1>5, <1>7, <1>8 DEF Wired
<1>9a. CacheOK(h)
  <2> SUFFICES ASSUME NEW x \in DOMAIN h.cache
               PROVE  /\ h.cache[x] \in DOMAIN h.nodes
                      /\ h.nodes[h.cache[x]].kind = "access" /\ h.nodes[h.cache[x]].data = x
    BY DEF CacheOK, Points
  <2>1. x \in DOMAIN g.cache /\ h.cache[x] = g.cache[x]
    BY <1>4
  <2>2. g.cache[x] \in DOMAIN g.nodes /\ g.nodes[g.cache[x]].kind = "access"
        /\ g.nodes[g.cache[x]].data = x
    BY <1>1, <2>1 DEF CacheOK, Points
  <2> QED BY <1>5, <1>7, <2>1, <2>2
<1>10. Loopless(g) => Loopless(h)
  <2> SUFFICES ASSUME Acyclic(g.edges, DOMAIN g.nodes),
                      NEW S \in SUBSET DOMAIN h.nodes, S # {}
               PROVE  \E m \in S : \A e \in h.edges : e[2] = m => e[1] \notin S
    BY DEF Loopless, Acyclic
  <2>1. CASE S \cap DOMAIN g.nodes = {}
    BY <1>8, <2>1
  <2>2. CASE S \cap DOMAIN g.nodes # {}
    <3>1. PICK m \in S \cap DOMAIN g.nodes :
            \A e \in g.edges : e[2] = m => e[1] \notin S \cap DOMAIN g.nodes
      BY <2>2 DEF Acyclic
    <3> QED BY <1>4, <1>8, <3>1
  <2> QED BY <2>1, <2>2
<1>11. Continues(g, h)
  BY <1>2, <1>4, <1>5, <1>7, <1>10 DEF Continues, n
<1> QED BY <1>4, <1>5, <1>6, <1>7, <1>8, <1>9, <1>9a, <1>11 DEF Graphs, NodeAdded, h, n, new

(* The cache may come to name any access nodes of the graph.               *)
Recached(g, h, c) == \E b \in BOOLEAN : h = [g EXCEPT !.cache = c, !.opened = b]
LEMMA GraphWithCache ==
  ASSUME NEW U, NEW g \in Graphs(U), NEW c \in Caches(U), Points(g, c),
         NEW h, Recached(g, h, c)
  PROVE  /\ h \in Graphs(U) /\ Continues(g, h)
         /\ h.nodes = g.nodes /\ h.edges = g.edges /\ h.cache = c
<1> PICK b \in BOOLEAN : h = [g EXCEPT !.cache = c, !.opened = b]
  BY DEF Recached
<1>0. IsGraph(g) /\ Wired(g)
  BY GraphsAreGraphs DEF IsGraph
<1>1. h = [nodes |-> g.nodes, edges |-> g.edges, cache |-> c, opened |-> b,
           entry |-> g.entry]
  BY <1>0, GraphFields
<1>2. h.nodes = g.nodes /\ h.edges = g.edges /\ h.cache = c /\ h.opened = b /\ h.entry = g.entry
  BY <1>1
<1>3. h \in Typed(U)
  BY <1>1, GraphsAreGraphs DEF Typed
<1>4. CacheOK(h)
  BY <1>2 DEF CacheOK, Points
<1>5. Wired(h)
  BY <1>0, <1>2 DEF Wired
<1>6. Continues(g, h)
  BY <1>2, GraphsAreGraphs DEF Continues, Loopless
<1> QED BY <1>2, <1>3, <1>4, <1>5, <1>6 DEF Graphs

(* Binding a name to a node of its own is such a change.                   *)
Bound(b, c, d, n) ==
  /\ DOMAIN c = DOMAIN b \cup {d} /\ c[d] = n
  /\ \A x \in DOMAIN b : x # d => c[x] = b[x]

LEMMA BindIsCache ==
  ASSUME NEW U, NEW g \in Graphs(U), NEW d \in U, NEW n \in DOMAIN g.nodes,
         g.nodes[n].kind = "access", g.nodes[n].data = d
  PROVE  LET c == Bind(g.cache, d, n)
         IN  c \in Caches(U) /\ Bound(g.cache, c, d, n) /\ Points(g, c)
<1> DEFINE c == Bind(g.cache, d, n)
<1>1. g.cache \in Caches(U) /\ CacheOK(g) /\ n \in Nat
  BY GraphsAreGraphs
<1>2. PICK D \in SUBSET U : g.cache \in [D -> Nat]
  BY <1>1 DEF Caches
<1>3. D \cup {d} \in SUBSET U /\ c \in [D \cup {d} -> Nat]
  BY <1>1, <1>2 DEF Bind
<1>4. c \in Caches(U)
  <2> HIDE DEF c
  <2> QED BY <1>3 DEF Caches
<1>5. DOMAIN c = DOMAIN g.cache \cup {d}
      /\ \A x \in DOMAIN c : c[x] = IF x = d THEN n ELSE g.cache[x]
  BY DEF Bind
<1> HIDE DEF c
<1>6. ASSUME NEW x \in DOMAIN c
      PROVE  /\ c[x] \in DOMAIN g.nodes
             /\ g.nodes[c[x]].kind = "access" /\ g.nodes[c[x]].data = x
  BY <1>1, <1>5 DEF CacheOK, Points
<1> QED BY <1>4, <1>5, <1>6 DEF c, Bound, Points

(* acc, first use of d: a node on no edge becomes the live sink of d.      *)
Touched(g, h, d) ==
  /\ Continues(g, h) /\ h.edges = g.edges
  /\ DOMAIN h.cache = DOMAIN g.cache \cup {d}
  /\ \A x \in DOMAIN g.cache : h.cache[x] = g.cache[x]
  /\ Cached(g, d) => h = g
  /\ ~Cached(g, d) => h.cache[d] \notin DOMAIN g.nodes

LEMMA TouchKeeps ==
  ASSUME NEW U, Universe(U), NEW g \in Graphs(U), NEW d \in U
  PROVE  Touch(g, d) \in Graphs(U) /\ Touched(g, Touch(g, d), d)
<1> DEFINE k == AddNode(g, "access", d, NoStatement)
           n == Len(g.nodes) + 1
           h == Touch(g, d)
<1>1. CASE Cached(g, d)
  <2>1. h = g
    BY <1>1 DEF Touch
  <2> QED BY <1>1, <2>1, ContinuesItself DEF Cached, Touched
<1>2. CASE ~Cached(g, d)
  <2>1. k \in Graphs(U) /\ NodeAdded(g, k, n, "access", d, NoStatement)
    <3>1. NoStatement \in U /\ "access" \in Kinds
      BY DEF Universe, Kinds
    <3> QED BY <3>1, AddNodeKeeps
  <2>2. n = Len(k.nodes)
    BY <2>1 DEF NodeAdded
  <2> HIDE DEF k, n
  <2> DEFINE c == Bind(k.cache, d, n)
  <2>3. Recached(k, h, c)
    BY <1>2, <2>2 DEF Touch, k, Recached
  <2>4. n \in DOMAIN k.nodes /\ k.nodes[n].kind = "access" /\ k.nodes[n].data = d
    BY <2>1 DEF NodeAdded
  <2>4a. c \in Caches(U) /\ Bound(k.cache, c, d, n) /\ Points(k, c)
    BY <2>1, <2>4, BindIsCache
  <2> HIDE DEF h, c
  <2>5. /\ h \in Graphs(U) /\ Continues(k, h)
        /\ h.nodes = k.nodes /\ h.edges = k.edges /\ h.cache = c
    BY <2>1, <2>3, <2>4a, GraphWithCache
  <2>6. Continues(g, h)
    BY <2>1, <2>5, ContinuesOn DEF NodeAdded
  <2> QED BY <1>2, <2>1, <2>4a, <2>5, <2>6 DEF h, Touched, NodeAdded, Cached, Bound
<1> QED BY <1>1, <1>2

(* One more edge, from outside a set that no edge leaves into the set.     *)
LEMMA AddEdgeKeeps ==
  ASSUME NEW U, NEW g \in Graphs(U), NEW a \in DOMAIN g.nodes, NEW b \in DOMAIN g.nodes,
         NEW l \in U, NEW D, b \in D, a \notin D, Closed(g.edges, D)
  PROVE  LET h == AddEdges(g, {<<a, b, l>>})
         IN  /\ h \in Graphs(U) /\ Continues(g, h)
             /\ h.nodes = g.nodes /\ h.edges = g.edges \cup {<<a, b, l>>}
             /\ h.cache = g.cache /\ h.opened = g.opened
<1> DEFINE e == <<a, b, l>>
           h == AddEdges(g, {e})
<1>1. a \in Nat /\ b \in Nat /\ Len(g.nodes) \in Nat
  BY GraphsAreGraphs
<1>2. e \in Nat \X Nat \X U /\ e[1] = a /\ e[2] = b
  BY <1>1
<1> HIDE DEF e
<1>3. /\ h \in Graphs(U) /\ h.nodes = g.nodes /\ h.edges = g.edges \cup {e}
      /\ h.cache = g.cache /\ h.opened = g.opened
  <2>1. {e} \subseteq Nat \X Nat \X U
        /\ \A x \in {e} : x[1] \in DOMAIN g.nodes /\ x[2] \in DOMAIN g.nodes
    BY <1>2
  <2> QED BY <2>1, GraphWithEdges
<1>4. Loopless(g) => Loopless(h)
  <2> SUFFICES ASSUME Acyclic(g.edges, DOMAIN g.nodes)
               PROVE  Acyclic(g.edges \cup {e}, DOMAIN g.nodes)
    BY <1>3 DEF Loopless
  <2>1. e[1] # e[2] /\ e[2] \in D /\ e[1] \notin D
    BY <1>2
  <2> QED BY <2>1, NewEdge
<1> HIDE DEF h
<1>5. Continues(g, h)
  BY <1>1, <1>3, <1>4 DEF Continues
<1> QED BY <1>3, <1>5 DEF h, e

(* In particular into a sink.                                              *)
LEMMA AddEdgeIntoSink ==
  ASSUME NEW U, NEW g \in Graphs(U), NEW a \in DOMAIN g.nodes, NEW b \in DOMAIN g.nodes,
         NEW l \in U, a # b, Sink(g, b)
  PROVE  LET h == AddEdges(g, {<<a, b, l>>})
         IN  /\ h \in Graphs(U) /\ Continues(g, h)
             /\ h.nodes = g.nodes /\ h.edges = g.edges \cup {<<a, b, l>>}
             /\ h.cache = g.cache /\ h.opened = g.opened
<1>1. Closed(g.edges, {b})
  BY DEF Closed, Successors, Sink
<1>2. b \in {b} /\ a \notin {b}
  OBVIOUS
<1> QED BY <1>1, <1>2, AddEdgeKeeps

-----------------------------------------------------------------------------
(* Access nodes.                                                           *)

(* A resolved name is a name, and is no section alias.                     *)
LEMMA ResolveInUniverse ==
  ASSUME NEW U, Universe(U), NEW d \in U
  PROVE  /\ Resolve(d) \in U /\ Resolve(Resolve(d)) = Resolve(d)
         /\ Resolve(d) \in Views => /\ SourceOf[Resolve(d)] \in U \ {Resolve(d)}
                                    /\ SourceOf[Resolve(d)] \in Arrays
BY NamesAssumption DEF Universe, Named, Resolve

(* acc: the live sink of r exists, and is new and a sink unless it existed *)
(* before; only access nodes have got new successors.                      *)
Accessed(g, h, r) ==
  /\ Continues(g, h)
  /\ r \in DOMAIN h.cache /\ DOMAIN g.cache \subseteq DOMAIN h.cache
  /\ \A x \in DOMAIN g.cache : h.cache[x] = g.cache[x]
  /\ \A x \in DOMAIN h.cache \ DOMAIN g.cache : x = r \/ (r \in Views /\ x = SourceOf[r])
  /\ Cached(g, r) => h = g
  /\ ~Cached(g, r) => Sink(h, h.cache[r]) /\ h.cache[r] \notin DOMAIN g.nodes
  /\ \A t \in CodeNodes(g) : Sink(g, t) => Sink(h, t)

LEMMA AccKeeps ==
  ASSUME NEW U, Universe(U), NEW g \in Graphs(U), NEW d \in U
  PROVE  Acc(g, d) \in Graphs(U) /\ Accessed(g, Acc(g, d), Resolve(d))
<1> DEFINE r == Resolve(d)
           s == SourceOf[r]
           k == Touch(g, r)
           m == Touch(k, s)
           h == Acc(g, d)
<1>1. r \in U /\ (r \in Views => s \in U /\ s # r)
  BY ResolveInUniverse
<1>2. k \in Graphs(U) /\ Touched(g, k, r)
  BY <1>1, TouchKeeps
<1>3. \A e \in g.edges : e[1] \in DOMAIN g.nodes
  BY GraphsAreGraphs DEF IsGraph, Wired
<1>4. CASE Cached(g, r) \/ r \notin Views
  <2>1. h = k
    BY <1>4 DEF Acc
  <2> HIDE DEF k, h, r
  <2>2. \A x \in DOMAIN h.cache \ DOMAIN g.cache : x = r
    BY <1>2, <2>1 DEF Touched
  <2> QED BY <1>2, <1>3, <2>1, <2>2 DEF Touched, Accessed, Sink, h, r
<1>5. CASE ~Cached(g, r) /\ r \in Views
  <2>1. m \in Graphs(U) /\ Touched(k, m, s)
    BY <1>1, <1>2, <1>5, TouchKeeps
  <2> DEFINE a == m.cache[s]
             b == m.cache[r]
  <2>2. h = AddEdges(m, {<<a, b, "all">>})
    BY <1>5 DEF Acc, AddEdges
  <2>3. \A x \in DOMAIN m.cache \ DOMAIN g.cache : x = r \/ x = s
    BY <1>2, <2>1 DEF Touched
  <2> HIDE DEF k, m, h, r, s
  <2>4. b = k.cache[r] /\ b \notin DOMAIN g.nodes /\ m.edges = g.edges
    BY <1>2, <1>5, <2>1 DEF Touched
  <2>5. a \in DOMAIN m.nodes /\ b \in DOMAIN m.nodes /\ m.nodes[a].data = s
        /\ m.nodes[b].data = r /\ m.nodes[a].kind = "access"
    <3>1. CacheOK(m) /\ s \in DOMAIN m.cache /\ r \in DOMAIN m.cache
      BY <1>2, <2>1, GraphsAreGraphs DEF Touched
    <3> QED BY <3>1 DEF CacheOK, Points
  <2>6. a # b /\ Sink(m, b)
    BY <1>1, <1>3, <1>5, <2>4, <2>5 DEF Sink
  <2> HIDE DEF a, b
  <2>7. /\ h \in Graphs(U) /\ Continues(m, h)
        /\ h.nodes = m.nodes /\ h.edges = m.edges \cup {<<a, b, "all">>}
        /\ h.cache = m.cache
    <3>1. "all" \in U
      BY DEF Universe
    <3> QED BY <2>1, <2>2, <2>5, <2>6, <3>1, AddEdgeIntoSink
  <2>8. Continues(g, h)
    BY <1>2, <2>1, <2>7, ContinuesOn DEF Touched
  <2>9. Sink(h, b)
    BY <2>6, <2>7 DEF Sink
  <2>10. \A t \in CodeNodes(g) : Sink(g, t) => Sink(h, t)
    <3> SUFFICES ASSUME NEW t \in CodeNodes(g), Sink(g, t) PROVE Sink(h, t)
      OBVIOUS
    <3>1. t \in DOMAIN g.nodes /\ g.nodes[t].kind # "access"
      BY DEF CodeNodes, DataNodes
    <3>2. m.nodes[t] = g.nodes[t]
      <4>1. Continues(g, m)
        BY <1>2, <2>1, ContinuesOn DEF Touched
      <4> QED BY <3>1, <4>1 DEF Continues
    <3>3. t # a
      BY <2>5, <3>1, <3>2
    <3> QED BY <2>4, <2>7, <3>3 DEF Sink
  <2>11. /\ r \in DOMAIN h.cache /\ DOMAIN g.cache \subseteq DOMAIN h.cache
         /\ \A x \in DOMAIN g.cache : h.cache[x] = g.cache[x]
    BY <1>2, <2>1, <2>7 DEF Touched
  <2> QED BY <1>5, <2>3, <2>4, <2>7, <2>8, <2>9, <2>10, <2>11 DEF Accessed, h, r, s, b
<1> QED BY <1>4, <1>5

-----------------------------------------------------------------------------
(* Tasklets.                                                               *)

(* The last index of a sequence that has one.                              *)
LEMMA LastIndex ==
  ASSUME NEW n \in Nat, NEW s \in SUBSET (1 .. n), s # {}
  PROVE  Max(s) \in s /\ \A i \in s : i <= Max(s)
<1>1. \E m \in s : \A k \in s : m >= k
  <2>1. s \subseteq 0 .. n
    OBVIOUS
  <2> QED BY <2>1, GreatestNumber
<1>2. Max(s) \in s /\ \A k \in s : Max(s) >= k
  BY <1>1 DEF Max
<1> QED BY <1>2

(* The elements of a finite set, in some order.                            *)
LEMMA AsSequence ==
  ASSUME NEW R, IsFiniteSet(R)
  PROVE  /\ Cardinality(R) \in Nat /\ SetToSeq(R) \in [1 .. Cardinality(R) -> R]
         /\ \A d \in R : \E i \in 1 .. Cardinality(R) : SetToSeq(R)[i] = d
<1> DEFINE N == 1 .. Cardinality(R)
           f == SetToSeq(R)
<1>1. Cardinality(R) \in Nat /\ ExistsBijection(N, R)
  BY FS_CardinalityType
<1>2. PICK b \in Bijection(N, R) : TRUE
  BY <1>1 DEF ExistsBijection
<1>3. b \in [N -> R] /\ IsInjective(b)
  BY <1>2 DEF Bijection, Injection, IsInjective
<1>4. f \in [N -> R] /\ IsInjective(f)
  BY <1>3 DEF SetToSeq
<1> HIDE DEF f
<1>5. f \in Injection(N, R)
  BY <1>4 DEF Injection, IsInjective
<1>6. IsFiniteSet(N) /\ Cardinality(N) = Cardinality(R)
  BY <1>1, FS_Interval
<1> HIDE DEF N
<1>7. f \in Surjection(N, R)
  BY <1>5, <1>6, FS_Injection
<1>8. \A d \in R : \E i \in N : f[i] = d
  BY <1>7 DEF Surjection
<1> QED BY <1>1, <1>4, <1>8 DEF N, f

(* What wiring reads leads to: t stays a sink, and nothing but names of C  *)
(* is cached.                                                              *)
Wirings(U, g, t, C) ==
  {h \in Graphs(U) : Continues(g, h) /\ Sink(h, t) /\ DOMAIN h.cache \subseteq C}

LEMMA WireReadKeeps ==
  ASSUME NEW U, Universe(U), NEW g \in Graphs(U), NEW t \in CodeNodes(g),
         NEW C, NEW h \in Wirings(U, g, t, C), NEW d \in U,
         Resolve(d) \in C, Resolve(d) \in Views => SourceOf[Resolve(d)] \in C
  PROVE  WireRead(h, d, t) \in Wirings(U, g, t, C)
<1> DEFINE r == Resolve(d)
           k == Acc(h, d)
           a == k.cache[r]
           m == WireRead(h, d, t)
<1>1. h \in Graphs(U) /\ Continues(g, h) /\ Sink(h, t) /\ DOMAIN h.cache \subseteq C
  BY DEF Wirings
<1>2. k \in Graphs(U) /\ Accessed(h, k, r)
  BY <1>1, AccKeeps
<1>3. m = AddEdges(k, {<<a, t, "read">>})
  BY DEF WireRead, AddEdges
<1> HIDE DEF r, k, m
<1>4. t \in CodeNodes(h) /\ t \in DOMAIN k.nodes /\ k.nodes[t].kind # "access"
  <2>1. t \in DOMAIN g.nodes /\ g.nodes[t].kind # "access"
    BY DEF CodeNodes, DataNodes
  <2>2. t \in DOMAIN h.nodes /\ h.nodes[t] = g.nodes[t]
    BY <1>1, <2>1, NodesStay DEF Continues
  <2>3. Continues(h, k)
    BY <1>2 DEF Accessed
  <2>4. t \in DOMAIN k.nodes /\ k.nodes[t] = h.nodes[t]
    BY <1>1, <1>2, <2>2, <2>3, NodesStay DEF Continues
  <2> QED BY <2>1, <2>2, <2>4 DEF CodeNodes, DataNodes
<1>5. a \in DOMAIN k.nodes /\ k.nodes[a].kind = "access"
  <2>1. CacheOK(k) /\ r \in DOMAIN k.cache
    BY <1>2, GraphsAreGraphs DEF Accessed
  <2> QED BY <2>1 DEF CacheOK, Points
<1> HIDE DEF a
<1>6. Sink(k, t) /\ a # t
  BY <1>1, <1>2, <1>4, <1>5 DEF Accessed
<1>7. m \in Graphs(U) /\ Continues(k, m) /\ m.edges = k.edges \cup {<<a, t, "read">>}
      /\ m.cache = k.cache
  <2>1. "read" \in U
    BY DEF Universe
  <2> QED BY <1>2, <1>3, <1>4, <1>5, <1>6, <2>1, AddEdgeIntoSink
<1>8. Continues(g, m)
  <2>1. Continues(h, k)
    BY <1>2 DEF Accessed
  <2>2. Continues(g, k)
    BY <1>1, <1>2, <2>1, ContinuesOn
  <2> QED BY <1>2, <1>7, <2>2, ContinuesOn
<1>9. Sink(m, t)
  BY <1>6, <1>7 DEF Sink
<1>10. DOMAIN m.cache \subseteq C
  BY <1>1, <1>2, <1>7 DEF Accessed, r
<1> QED BY <1>7, <1>8, <1>9, <1>10 DEF Wirings, m

(* All reads of a statement.                                               *)
Caching(C, R) ==
  \A d \in R : Resolve(d) \in C /\ (Resolve(d) \in Views => SourceOf[Resolve(d)] \in C)

(* They are wired one after another.                                       *)
ReadsFold(g, st, t, S, seq, F) ==
  /\ IsFiniteSet(S) /\ seq \in [S -> ReadNames(st)]
  /\ \A d \in ReadNames(st) : \E i \in S : seq[i] = d
  /\ F[{}] = g /\ F[S] = WireReads(g, st, t)
  /\ \A s \in SUBSET S : s # {} => \E i \in s : F[s] = WireRead(F[s \ {i}], seq[i], t)

LEMMA WireReadsFold ==
  ASSUME NEW U, Universe(U), NEW g \in Graphs(U), NEW t \in CodeNodes(g), Sink(g, t),
         NEW C, DOMAIN g.cache \subseteq C, NEW st,
         IsFiniteSet(ReadNames(st)), ReadNames(st) \subseteq U, Caching(C, ReadNames(st))
  PROVE  \E S, seq, F : ReadsFold(g, st, t, S, seq, F)
<1> DEFINE
  R == ReadNames(st)
  n == Cardinality(R)
  seq == SetToSeq(R)
  S == 1 .. n
  G == Wirings(U, g, t, C)
  op == [p \in S \X G |-> WireRead(p[2], seq[p[1]], t)]
  pick == [s \in SUBSET S |-> Max(s)]
<1>1. n \in Nat /\ seq \in [S -> R] /\ \A d \in R : \E i \in S : seq[i] = d
  BY AsSequence
<1>2. IsFiniteSet(S) /\ DOMAIN seq = S
  BY <1>1, FS_Interval
<1>3. \A i \in S, h \in G : WireRead(h, seq[i], t) \in G
  <2> SUFFICES ASSUME NEW i \in S, NEW h \in G PROVE WireRead(h, seq[i], t) \in G
    OBVIOUS
  <2> HIDE DEF seq, S
  <2>1. seq[i] \in R
    BY <1>1
  <2> QED BY <2>1, WireReadKeeps DEF Caching
<1>4. g \in G
  BY ContinuesItself DEF Wirings
<1>5. \A s \in SUBSET S : s # {} => Max(s) \in s
  BY <1>1, LastIndex
<1>6. WireReads(g, st, t) = FoldLeft(LAMBDA h, x : WireRead(h, x, t), g, seq)
  BY DEF WireReads
<1> HIDE DEF seq, S, G
<1>7. op \in [S \X G -> G]
  BY <1>3
<1>8. \A s \in SUBSET S : s # {} => pick[s] \in s
  BY <1>5
<1>9. PICK f \in [SUBSET S -> G] : FoldOver(f, S, g, op, pick)
  <2> HIDE DEF op, pick
  <2> QED BY <1>2, <1>4, <1>7, <1>8, FoldExists
<1>10. f = [s \in SUBSET S |->
              IF s = {} THEN g ELSE LET x == Max(s) IN WireRead(f[s \ {x}], seq[x], t)]
  <2>1. \A s \in SUBSET S : s # {} =>
          <<Max(s), f[s \ {Max(s)}]>> \in S \X G /\ pick[s] = Max(s)
    BY <1>5
  <2>2. \A s \in SUBSET S : s # {} =>
          f[s] = WireRead(f[s \ {Max(s)}], seq[Max(s)], t)
    BY <1>9, <2>1 DEF FoldOver
  <2> HIDE DEF op, pick
  <2> QED BY <1>9, <2>2 DEF FoldOver
<1>11. PICK F : /\ F = [s \in SUBSET S |->
                          IF s = {} THEN g
                          ELSE LET x == Max(s) IN WireRead(F[s \ {x}], seq[x], t)]
                /\ WireReads(g, st, t) = F[S]
  BY <1>2, <1>6, <1>10 DEF FoldLeft, MapThenFoldSet
<1>12. F[{}] = g
  BY <1>11
<1>13. \A s \in SUBSET S : s # {} => \E i \in s : F[s] = WireRead(F[s \ {i}], seq[i], t)
  BY <1>5, <1>11
<1>14. ReadsFold(g, st, t, S, seq, F)
  BY <1>1, <1>2, <1>11, <1>12, <1>13 DEF ReadsFold
<1> QED BY <1>14

(* They close no cycle.                                                    *)
LEMMA WireReadsKeeps ==
  ASSUME NEW U, Universe(U), NEW g \in Graphs(U), NEW t \in CodeNodes(g), Sink(g, t),
         NEW C, DOMAIN g.cache \subseteq C, NEW st,
         IsFiniteSet(ReadNames(st)), ReadNames(st) \subseteq U, Caching(C, ReadNames(st))
  PROVE  WireReads(g, st, t) \in Wirings(U, g, t, C)
<1> DEFINE G == Wirings(U, g, t, C)
<1>1. PICK S, seq, F : ReadsFold(g, st, t, S, seq, F)
  BY WireReadsFold
<1>2. F[{}] \in G
  BY <1>1, ContinuesItself DEF Wirings, ReadsFold
<1>3. ASSUME NEW s \in SUBSET S, s # {}
      PROVE  \E i \in s : F[s \ {i}] \in G => F[s] \in G
  <2>1. PICK i \in s : F[s] = WireRead(F[s \ {i}], seq[i], t)
    BY <1>1, <1>3 DEF ReadsFold
  <2>2. seq[i] \in ReadNames(st)
    BY <1>1 DEF ReadsFold
  <2> HIDE DEF G
  <2>3. F[s \ {i}] \in G => F[s] \in G
    BY <2>1, <2>2, WireReadKeeps DEF Caching, G
  <2> QED BY <2>3
<1>4. F[S] \in G
  <2> HIDE DEF G
  <2> QED BY <1>1, <1>2, <1>3, FoldStays DEF ReadsFold
<1> QED BY <1>1, <1>4 DEF ReadsFold

-----------------------------------------------------------------------------
(* Stores.                                                                 *)

(* A fresh access node is on no edge; it is the live sink, if any.         *)
LEMMA NewSinkKeeps ==
  ASSUME NEW U, Universe(U), NEW g \in Graphs(U), NEW d \in U
  PROVE  LET h == NewSink(g, d)
         IN  /\ h \in Graphs(U) /\ Continues(g, h) /\ h.edges = g.edges
             /\ Len(h.nodes) = Len(g.nodes) + 1
<1> DEFINE k == AddNode(g, "access", d, NoStatement)
           n == Len(g.nodes) + 1
           h == NewSink(g, d)
           c == Bind(k.cache, d, n)
<1>1. k \in Graphs(U) /\ NodeAdded(g, k, n, "access", d, NoStatement)
  <2>1. NoStatement \in U /\ "access" \in Kinds
    BY DEF Universe, Kinds
  <2> QED BY <2>1, AddNodeKeeps
<1>2. Len(k.nodes) = n
  BY <1>1 DEF NodeAdded
<1>3. CASE ~k.opened
  <2>1. h = k
    BY <1>3 DEF NewSink
  <2> QED BY <1>1, <2>1 DEF NodeAdded
<1>4. CASE k.opened
  <2> HIDE DEF k, n
  <2>1. h = [k EXCEPT !.cache = c]
    BY <1>2, <1>4 DEF NewSink, k
  <2>2. IsGraph(k) /\ k.opened \in BOOLEAN
    BY <1>1, GraphsAreGraphs
  <2>3. n \in DOMAIN k.nodes /\ k.nodes[n].kind = "access" /\ k.nodes[n].data = d
    BY <1>1 DEF NodeAdded
  <2>4. c \in Caches(U) /\ Points(k, c)
    BY <1>1, <2>3, BindIsCache
  <2> HIDE DEF c, h
  <2>5. Recached(k, h, c)
    <3>1. h = [k EXCEPT !.cache = c, !.opened = k.opened]
      BY <2>1, <2>2, GraphField, GraphFields
    <3> QED BY <2>2, <3>1 DEF Recached
  <2>6. /\ h \in Graphs(U) /\ Continues(k, h)
        /\ h.nodes = k.nodes /\ h.edges = k.edges
    BY <1>1, <2>4, <2>5, GraphWithCache
  <2>7. Continues(g, h)
    BY <1>1, <2>6, ContinuesOn DEF NodeAdded
  <2> QED BY <1>1, <1>2, <2>6, <2>7 DEF NodeAdded, h, n
<1> QED BY <1>3, <1>4

(* ensure_view_writeback_link: from the last node w into a new one.        *)
LEMMA WriteBackKeeps ==
  ASSUME NEW U, Universe(U), NEW g \in Graphs(U), Len(g.nodes) # 0, NEW d \in U
  PROVE  LET h == WriteBack(g, d)
         IN  /\ h \in Graphs(U) /\ Continues(g, h)
             /\ \A e \in h.edges :
                  e \in g.edges \/ (e[1] = Len(g.nodes) /\ e[2] \notin DOMAIN g.nodes)
<1> DEFINE s == SourceOf[d]
           w == Len(g.nodes)
           n == w + 1
           k == AddNode(g, "access", s, NoStatement)
           m == AddEdges(k, {<<w, n, "all">>})
           b == Bind(m.cache, s, n)
           c == Unbind(b, d)
           h == WriteBack(g, d)
<1>1. CASE d \notin Views
  <2>1. h = g
    BY <1>1 DEF WriteBack
  <2> QED BY <2>1, ContinuesItself
<1>2. CASE d \in Views
  <2>1. s \in U /\ NoStatement \in U /\ "access" \in Kinds /\ "all" \in U
    BY <1>2, NamesAssumption DEF Universe, Named, Kinds
  <2>2. k \in Graphs(U) /\ NodeAdded(g, k, n, "access", s, NoStatement)
    BY <2>1, AddNodeKeeps
  <2>3. w \in DOMAIN g.nodes /\ w \in DOMAIN k.nodes /\ w # n
    <3>1. w \in DOMAIN g.nodes /\ w # n
      BY GraphsAreGraphs
    <3> QED BY <2>2, <3>1, NodesStay DEF NodeAdded
  <2>4. n \in DOMAIN k.nodes /\ n \notin DOMAIN g.nodes /\ Sink(k, n) /\ k.edges = g.edges
        /\ k.nodes[n].kind = "access" /\ k.nodes[n].data = s
    BY <2>2 DEF NodeAdded, Sink
  <2>5. h = IF k.opened THEN [k EXCEPT !.edges = @ \cup {<<w, n, "all">>},
                                       !.cache = Unbind(Bind(@, s, n), d)]
            ELSE [k EXCEPT !.edges = @ \cup {<<w, n, "all">>}, !.cache = @]
    <3>1. w + 1 = n
      OBVIOUS
    <3> HIDE DEF n
    <3> QED BY <1>2, <3>1 DEF WriteBack, k
  <2> HIDE DEF k, w, n, s
  <2>6. /\ m \in Graphs(U) /\ Continues(k, m) /\ m.nodes = k.nodes
        /\ m.edges = k.edges \cup {<<w, n, "all">>} /\ m.cache = k.cache /\ m.opened = k.opened
    BY <2>1, <2>2, <2>3, <2>4, AddEdgeIntoSink
  <2>7. Continues(g, m)
    BY <2>2, <2>6, ContinuesOn DEF NodeAdded
  <2>8. \A e \in m.edges : e \in g.edges \/ (e[1] = w /\ e[2] \notin DOMAIN g.nodes)
    <3> SUFFICES ASSUME NEW e \in m.edges, e \notin g.edges
                 PROVE  e[1] = w /\ e[2] \notin DOMAIN g.nodes
      OBVIOUS
    <3> HIDE DEF m
    <3>1. e = <<w, n, "all">>
      BY <2>4, <2>6
    <3> QED BY <2>4, <3>1
  <2>9. IsGraph(k) /\ IsGraph(m) /\ k.opened \in BOOLEAN
    BY <2>2, <2>6, GraphsAreGraphs
  <2>10. CASE ~k.opened
    <3>1. h = m
      <4>1. h = [k EXCEPT !.edges = k.edges \cup {<<w, n, "all">>}, !.cache = k.cache]
        BY <2>5, <2>10
      <4>2. m = [k EXCEPT !.edges = k.edges \cup {<<w, n, "all">>}]
        BY DEF AddEdges
      <4> DEFINE F == k.edges \cup {<<w, n, "all">>}
      <4> HIDE DEF F, h, m
      <4>3. h = [k EXCEPT !.edges = F, !.cache = k.cache] /\ m = [k EXCEPT !.edges = F]
        BY <4>1, <4>2 DEF F
      <4> QED BY <2>9, <4>3, GraphField, GraphFields
    <3> HIDE DEF h, m
    <3> QED BY <2>6, <2>7, <2>8, <3>1 DEF h, w
  <2>11. CASE k.opened
    <3>1. b \in Caches(U) /\ Points(m, b)
      <4> n \in DOMAIN m.nodes /\ m.nodes[n].kind = "access" /\ m.nodes[n].data = s
        BY <2>4, <2>6
      <4> HIDE DEF m
      <4> QED BY <2>1, <2>6, BindIsCache
    <3>2. c \in Caches(U) /\ Points(m, c)
      <4> HIDE DEF b
      <4>1. PICK X \in SUBSET U : b \in [X -> Nat]
        BY <3>1 DEF Caches
      <4>2. X \ {d} \in SUBSET U /\ c \in [X \ {d} -> Nat]
            /\ \A x \in DOMAIN c : c[x] = b[x] /\ x \in DOMAIN b
        BY <4>1 DEF Unbind
      <4> HIDE DEF c, m
      <4>3. c \in Caches(U)
        BY <4>2 DEF Caches
      <4> QED BY <3>1, <4>2, <4>3 DEF Points
    <3>3. h = [k EXCEPT !.edges = k.edges \cup {<<w, n, "all">>}, !.cache = c]
      BY <2>5, <2>6, <2>11
    <3> HIDE DEF b, c, h
    <3>4. Recached(m, h, c)
      <4> DEFINE F == k.edges \cup {<<w, n, "all">>}
      <4>1. h = [k EXCEPT !.edges = F, !.cache = c] /\ m = [k EXCEPT !.edges = F]
        BY <3>3 DEF AddEdges
      <4> HIDE DEF F, m
      <4>2. h = [nodes |-> k.nodes, edges |-> F, cache |-> c, opened |-> k.opened,
                 entry |-> k.entry]
        BY <2>9, <4>1, GraphFields
      <4>3. m = [nodes |-> k.nodes, edges |-> F, cache |-> k.cache, opened |-> k.opened,
                 entry |-> k.entry]
        BY <2>9, <4>1, GraphField
      <4>4. m.nodes = k.nodes /\ m.edges = F /\ m.entry = k.entry
        BY <4>3
      <4>5. [m EXCEPT !.cache = c, !.opened = k.opened] =
              [nodes |-> m.nodes, edges |-> m.edges, cache |-> c, opened |-> k.opened,
               entry |-> m.entry]
        BY <2>9, GraphFields
      <4>6. h = [m EXCEPT !.cache = c, !.opened = k.opened]
        BY <4>2, <4>4, <4>5
      <4> QED BY <2>9, <4>6 DEF Recached
    <3> HIDE DEF m
    <3>5. h \in Graphs(U) /\ Continues(m, h) /\ h.edges = m.edges
      BY <2>6, <3>2, <3>4, GraphWithCache
    <3>6. Continues(g, h)
      BY <2>6, <2>7, <3>5, ContinuesOn
    <3> QED BY <2>8, <3>5, <3>6 DEF h, w
  <2> QED BY <2>10, <2>11
<1> QED BY <1>1, <1>2

(* A fresh sink of d, with its write-back: no edge leads from its nodes    *)
(* back to the nodes of g.                                                 *)
FreshSink(g, h) ==
  /\ Continues(g, h) /\ Len(g.nodes) + 1 \in DOMAIN h.nodes \ DOMAIN g.nodes
  /\ Closed(h.edges, DOMAIN h.nodes \ DOMAIN g.nodes)

LEMMA FreshSinkKeeps ==
  ASSUME NEW U, Universe(U), NEW g \in Graphs(U), NEW d \in U
  PROVE  WriteBack(NewSink(g, d), d) \in Graphs(U) /\ FreshSink(g, WriteBack(NewSink(g, d), d))
<1> DEFINE k == NewSink(g, d)
           h == WriteBack(k, d)
           n == Len(g.nodes) + 1
<1>1. k \in Graphs(U) /\ Continues(g, k) /\ k.edges = g.edges /\ Len(k.nodes) = n
  BY NewSinkKeeps
<1>2. /\ h \in Graphs(U) /\ Continues(k, h)
      /\ \A e \in h.edges : e \in k.edges \/ (e[1] = Len(k.nodes) /\ e[2] \notin DOMAIN k.nodes)
  <2>1. Len(k.nodes) # 0
    BY <1>1, GraphsAreGraphs
  <2> HIDE DEF k
  <2> QED BY <1>1, <2>1, WriteBackKeeps
<1> HIDE DEF k, h
<1>3. DOMAIN g.nodes = 1 .. Len(g.nodes) /\ DOMAIN k.nodes = 1 .. n /\ Len(g.nodes) \in Nat
      /\ DOMAIN h.nodes = 1 .. Len(h.nodes) /\ Len(h.nodes) \in Nat
  BY <1>1, <1>2, GraphsAreGraphs
<1>4. Len(h.nodes) >= n
  BY <1>1, <1>2 DEF Continues
<1>5. n \in DOMAIN h.nodes \ DOMAIN g.nodes
  BY <1>3, <1>4
<1>6. ASSUME NEW e \in h.edges, e[1] \in DOMAIN h.nodes \ DOMAIN g.nodes
      PROVE  e[2] \in DOMAIN h.nodes \ DOMAIN g.nodes
  <2>1. e[2] \in DOMAIN h.nodes
    BY <1>2, GraphsAreGraphs DEF IsGraph, Wired
  <2>2. \A x \in g.edges : x[1] \in DOMAIN g.nodes
    BY GraphsAreGraphs DEF IsGraph, Wired
  <2>3. DOMAIN g.nodes \subseteq DOMAIN k.nodes
    BY <1>3
  <2> QED BY <1>1, <1>2, <1>6, <2>1, <2>2, <2>3
<1>7. Continues(g, h)
  BY <1>1, <1>2, ContinuesOn
<1> QED BY <1>2, <1>5, <1>6, <1>7 DEF FreshSink, Closed, Successors, h, k

(* A store into a fresh sink.                                              *)
LEMMA StoreFreshKeeps ==
  ASSUME NEW U, Universe(U), NEW g \in Graphs(U), NEW d \in U,
         NEW t \in DOMAIN g.nodes, NEW l \in U
  PROVE  StoreFresh(g, d, t, l) \in Graphs(U) /\ Continues(g, StoreFresh(g, d, t, l))
<1> DEFINE k == WriteBack(NewSink(g, d), d)
           n == Len(g.nodes) + 1
           X == DOMAIN k.nodes \ DOMAIN g.nodes
           h == AddEdges(k, {<<t, n, l>>})
<1>1. k \in Graphs(U) /\ FreshSink(g, k)
  BY FreshSinkKeeps
<1>2. h = StoreFresh(g, d, t, l)
  BY DEF StoreFresh
<1> HIDE DEF k, n
<1>3. n \in X /\ n \in DOMAIN k.nodes /\ Closed(k.edges, X) /\ t \notin X /\ Continues(g, k)
  BY <1>1 DEF FreshSink, n
<1>4. t \in DOMAIN k.nodes
  BY <1>1, <1>3, NodesStay
<1> HIDE DEF X
<1>5. h \in Graphs(U) /\ Continues(k, h)
  BY <1>1, <1>3, <1>4, AddEdgeKeeps
<1> HIDE DEF h
<1>6. Continues(g, h)
  BY <1>1, <1>3, <1>5, ContinuesOn
<1> QED BY <1>2, <1>5, <1>6

(* A store into the live sink of d when nothing reads it.                  *)
LEMMA StoreLiveKeeps ==
  ASSUME NEW U, Universe(U), NEW g \in Graphs(U), NEW d \in U, Resolve(d) = d,
         NEW t \in CodeNodes(g), NEW l \in U, ~HasReaders(g, d)
  PROVE  StoreLive(g, d, t, l) \in Graphs(U) /\ Continues(g, StoreLive(g, d, t, l))
<1> DEFINE k == Acc(g, d)
           b == k.cache[d]
           h == AddEdges(k, {<<t, b, l>>})
<1>1. k \in Graphs(U) /\ Accessed(g, k, d)
  BY AccKeeps
<1>2. h = StoreLive(g, d, t, l)
  BY DEF StoreLive, IntoLive
<1> HIDE DEF k
<1>3. b \in DOMAIN k.nodes /\ k.nodes[b].kind = "access"
  <2>1. CacheOK(k) /\ d \in DOMAIN k.cache
    BY <1>1, GraphsAreGraphs DEF Accessed
  <2> QED BY <2>1 DEF CacheOK, Points
<1>4. t \in DOMAIN k.nodes /\ k.nodes[t].kind # "access"
  <2>1. t \in DOMAIN g.nodes /\ g.nodes[t].kind # "access"
    BY DEF CodeNodes, DataNodes
  <2>2. Continues(g, k)
    BY <1>1 DEF Accessed
  <2> QED BY <1>1, <2>1, <2>2, NodesStay DEF Continues
<1>5. Sink(k, b)
  <2>1. CASE Cached(g, d)
    <3>1. k = g
      BY <1>1, <2>1 DEF Accessed
    <3> QED BY <2>1, <3>1 DEF HasReaders, Sink
  <2> QED BY <1>1, <2>1 DEF Accessed
<1> HIDE DEF b
<1>6. h \in Graphs(U) /\ Continues(k, h)
  BY <1>1, <1>3, <1>4, <1>5, AddEdgeIntoSink
<1> HIDE DEF h
<1>7. Continues(g, h)
  BY <1>1, <1>6, ContinuesOn DEF Accessed
<1> QED BY <1>2, <1>6, <1>7

(* A statement over the names, subsets and statements of U.                *)
Statement(U, st) ==
  /\ st \in U /\ st.target[1] \in U /\ st.target[2] \in U
  /\ IsFiniteSet(ReadNames(st)) /\ ReadNames(st) \subseteq U

(* Finitely many locations have finitely many names.                       *)
LEMMA NamesAreFinite ==
  ASSUME NEW S, IsFiniteSet(S)
  PROVE  IsFiniteSet({l[1] : l \in S})
<1> DEFINE T == {l[1] : l \in S}
           f == [l \in S |-> l[1]]
<1>1. f \in Surjection(S, T)
  BY DEF Surjection
<1> HIDE DEF f, T
<1>2. IsFiniteSet(T)
  BY <1>1, FS_Surjection
<1> QED BY <1>2 DEF T

(* A code node and the wires of its reads.                                 *)
LEMMA WiredNodeKeeps ==
  ASSUME NEW U, Universe(U), NEW g \in Graphs(U), NEW st, Statement(U, st),
         NEW kind \in {"tasklet", "library"}, NEW d \in U,
         NEW C, DOMAIN g.cache \subseteq C, Caching(C, ReadNames(st))
  PROVE  LET t == Len(g.nodes) + 1
             h == WireReads(AddNode(g, kind, d, st), st, t)
         IN  /\ h \in Graphs(U) /\ Continues(g, h) /\ DOMAIN h.cache \subseteq C
             /\ t \in CodeNodes(h) /\ h.nodes[t].stmt = st
<1> DEFINE t == Len(g.nodes) + 1
           k == AddNode(g, kind, d, st)
           h == WireReads(k, st, t)
<1>1. k \in Graphs(U) /\ NodeAdded(g, k, t, kind, d, st)
  BY AddNodeKeeps DEF Statement, Kinds
<1> HIDE DEF k, t
<1>2. t \in CodeNodes(k) /\ Sink(k, t) /\ k.nodes[t].stmt = st /\ k.nodes[t].kind # "access"
      /\ t \in DOMAIN k.nodes
  BY <1>1 DEF NodeAdded, CodeNodes, DataNodes, Sink
<1>3. DOMAIN k.cache \subseteq C
  BY <1>1 DEF NodeAdded
<1>4. h \in Wirings(U, k, t, C)
  BY <1>1, <1>2, <1>3, WireReadsKeeps DEF Statement
<1> HIDE DEF h
<1>5. h \in Graphs(U) /\ Continues(k, h) /\ DOMAIN h.cache \subseteq C
  BY <1>4 DEF Wirings
<1>6. Continues(g, h)
  BY <1>1, <1>5, ContinuesOn DEF NodeAdded
<1>7. t \in DOMAIN h.nodes /\ h.nodes[t] = k.nodes[t]
  BY <1>1, <1>2, <1>5, NodesStay DEF Continues
<1>8. t \in CodeNodes(h) /\ h.nodes[t].stmt = st
  BY <1>2, <1>7 DEF CodeNodes, DataNodes
<1> QED BY <1>5, <1>6, <1>8 DEF h, t, k

(* Every name of U may be cached.                                          *)
LEMMA CachingAll ==
  ASSUME NEW U, Universe(U), NEW R, R \subseteq U
  PROVE  Caching(U, R)
BY ResolveInUniverse DEF Caching

(* The cache of a graph over U names nothing else.                         *)
LEMMA CachedNames ==
  ASSUME NEW U, NEW g \in Graphs(U)
  PROVE  DOMAIN g.cache \subseteq U
BY GraphsAreGraphs DEF Caches

(* emit_tasklet closes no cycle.                                           *)
LEMMA EmitTaskletKeeps ==
  ASSUME NEW U, Universe(U), NEW g \in Graphs(U), NEW st, Statement(U, st)
  PROVE  EmitTasklet(g, st) \in Graphs(U) /\ Continues(g, EmitTasklet(g, st))
<1> DEFINE t == Len(g.nodes) + 1
           d == Resolve(st.target[1])
           w == WireReads(AddNode(g, "tasklet", d, st), st, t)
           h == StoreTarget(w, st, t)
<1>1. d \in U /\ Resolve(d) = d
  BY ResolveInUniverse DEF Statement, Resolve
<1>2. w \in Graphs(U) /\ Continues(g, w) /\ t \in CodeNodes(w)
  <2>1. DOMAIN g.cache \subseteq U /\ Caching(U, ReadNames(st))
    BY CachedNames, CachingAll DEF Statement
  <2> HIDE DEF d
  <2> QED BY <1>1, <2>1, WiredNodeKeeps
<1>3. h = EmitTasklet(g, st)
  BY DEF EmitTasklet
<1> DEFINE l == st.target[2]
<1>4. h = IF NeedsFreshSink(w, st) THEN StoreFresh(w, d, t, l) ELSE StoreLive(w, d, t, l)
  <2> HIDE DEF w, t
  <2> QED BY DEF StoreTarget
<1>5. ~NeedsFreshSink(w, st) => ~HasReaders(w, d)
  <2> HIDE DEF w
  <2> QED BY DEF NeedsFreshSink
<1>6. l \in U
  BY DEF Statement
<1> HIDE DEF w, d, t, h, l
<1>7. t \in DOMAIN w.nodes
  BY <1>2 DEF CodeNodes
<1>8. h \in Graphs(U) /\ Continues(w, h)
  <2>1. CASE NeedsFreshSink(w, st)
    <3>1. StoreFresh(w, d, t, l) \in Graphs(U) /\ Continues(w, StoreFresh(w, d, t, l))
      BY <1>1, <1>2, <1>6, <1>7, StoreFreshKeeps
    <3> QED BY <1>4, <2>1, <3>1
  <2>2. CASE ~NeedsFreshSink(w, st)
    <3>1. StoreLive(w, d, t, l) \in Graphs(U) /\ Continues(w, StoreLive(w, d, t, l))
      BY <1>1, <1>2, <1>5, <1>6, <2>2, StoreLiveKeeps
    <3> QED BY <1>4, <2>2, <3>1
  <2> QED BY <2>1, <2>2
<1>9. Continues(g, h)
  BY <1>2, <1>8, ContinuesOn
<1> QED BY <1>3, <1>8, <1>9

(* ... and so does no queued scalar assignment.                            *)
LEMMA EmitScalarAssignKeeps ==
  ASSUME NEW U, Universe(U), NEW g \in Graphs(U), NEW st, Statement(U, st)
  PROVE  EmitScalarAssign(g, st) \in Graphs(U) /\ Continues(g, EmitScalarAssign(g, st))
BY EmitTaskletKeeps, ContinuesItself DEF EmitScalarAssign

-----------------------------------------------------------------------------
(* Copies and fills.                                                       *)

(* Two sets of edges in a row are one.                                     *)
LEMMA AddEdgesTwice ==
  ASSUME NEW g, IsGraph(g), NEW E, NEW F
  PROVE  AddEdges(AddEdges(g, E), F) = AddEdges(g, E \cup F)
<1> DEFINE k == AddEdges(g, E)
           A == g.edges \cup E
           B == g.edges \cup (E \cup F)
<1>1. k = [g EXCEPT !.edges = A] /\ AddEdges(g, E \cup F) = [g EXCEPT !.edges = B]
  BY DEF AddEdges
<1>2. A \cup F = B
  OBVIOUS
<1>3. AddEdges(k, F) = [k EXCEPT !.edges = k.edges \cup F]
  BY DEF AddEdges
<1> HIDE DEF k, A, B
<1>4. k = [nodes |-> g.nodes, edges |-> A, cache |-> g.cache, opened |-> g.opened,
           entry |-> g.entry]
  BY <1>1, GraphField
<1>5. [g EXCEPT !.edges = B] =
        [nodes |-> g.nodes, edges |-> B, cache |-> g.cache, opened |-> g.opened,
         entry |-> g.entry]
  BY GraphField
<1>6. k.edges = A
  BY <1>4
<1>7. [k EXCEPT !.edges = B] =
        [nodes |-> g.nodes, edges |-> B, cache |-> g.cache, opened |-> g.opened,
         entry |-> g.entry]
  BY <1>4
<1> QED BY <1>1, <1>2, <1>3, <1>5, <1>6, <1>7 DEF k

(* A copy node from r into w, which does not lead back to r.               *)
LEMMA CopyEdgesKeeps ==
  ASSUME NEW U, Universe(U), NEW g \in Graphs(U), NEW st, Statement(U, st),
         NEW r \in DOMAIN g.nodes, NEW w \in DOMAIN g.nodes,
         NEW D, D \subseteq DOMAIN g.nodes, w \in D, r \notin D, Closed(g.edges, D)
  PROVE  CopyEdges(g, r, w, st) \in Graphs(U) /\ Continues(g, CopyEdges(g, r, w, st))
<1> DEFINE c == Len(g.nodes) + 1
           d == Resolve(st.target[1])
           k == AddNode(g, "library", d, st)
           m == AddEdges(k, {<<r, c, "read">>})
           h == AddEdges(m, {<<c, w, "all">>})
<1>1. "read" \in U /\ "all" \in U /\ d \in U /\ st \in U /\ "library" \in Kinds
  BY ResolveInUniverse DEF Universe, Statement, Kinds
<1>2. k \in Graphs(U) /\ NodeAdded(g, k, c, "library", d, st)
  BY <1>1, AddNodeKeeps
<1>3. h = CopyEdges(g, r, w, st)
  <2>1. CopyEdges(g, r, w, st) = AddEdges(k, {<<r, c, "read">>} \cup {<<c, w, "all">>})
    <3>1. {<<r, c, "read">>, <<c, w, "all">>} = {<<r, c, "read">>} \cup {<<c, w, "all">>}
      OBVIOUS
    <3> QED BY <3>1 DEF CopyEdges
  <2>2. IsGraph(k)
    BY <1>2, GraphsAreGraphs
  <2> HIDE DEF k, c
  <2> QED BY <2>1, <2>2, AddEdgesTwice
<1> HIDE DEF c, k, d, h
<1>4. r \in DOMAIN k.nodes /\ w \in DOMAIN k.nodes /\ c \in DOMAIN k.nodes /\ r # c
      /\ Sink(k, c) /\ c \notin D /\ k.edges = g.edges
  <2>1. DOMAIN g.nodes \subseteq DOMAIN k.nodes
    BY <1>2, NodesStay DEF NodeAdded
  <2> QED BY <1>2, <2>1 DEF NodeAdded, Sink
<1>5. m \in Graphs(U) /\ Continues(k, m) /\ m.nodes = k.nodes
      /\ m.edges = k.edges \cup {<<r, c, "read">>}
  BY <1>1, <1>2, <1>4, AddEdgeIntoSink
<1> HIDE DEF m
<1>6. Closed(m.edges, D)
  BY <1>4, <1>5 DEF Closed, Successors
<1>7. c \in DOMAIN m.nodes /\ w \in DOMAIN m.nodes
  BY <1>4, <1>5
<1>8. h \in Graphs(U) /\ Continues(m, h)
  BY <1>1, <1>4, <1>5, <1>6, <1>7, AddEdgeKeeps DEF h
<1>9. Continues(k, h)
  BY <1>2, <1>5, <1>8, ContinuesOn
<1>10. Continues(g, h)
  BY <1>2, <1>8, <1>9, ContinuesOn DEF NodeAdded
<1> QED BY <1>3, <1>8, <1>10

(* add_copy_node closes no cycle.                                          *)
LEMMA AddCopyNodeKeeps ==
  ASSUME NEW U, Universe(U), NEW g \in Graphs(U), NEW st, Statement(U, st),
         (CHOOSE d \in ReadNames(st) : TRUE) \in U
  PROVE  AddCopyNode(g, st) \in Graphs(U) /\ Continues(g, AddCopyNode(g, st))
<1>1. CASE st.self
  BY <1>1, ContinuesItself DEF AddCopyNode
<1>2. CASE ~st.self
  <2> DEFINE name == CHOOSE d \in ReadNames(st) : TRUE
             src == Resolve(name)
             d == Resolve(st.target[1])
             k == Acc(g, src)
             r == k.cache[src]
             h == AddCopyNode(g, st)
  <2>1. h = CopyFrom(k, src, d, st)
    BY <1>2 DEF AddCopyNode
  <2>2. src \in U /\ d \in U /\ Resolve(src) = src /\ Resolve(d) = d
    <3>1. name \in U /\ st.target[1] \in U
      BY DEF Statement
    <3> HIDE DEF name
    <3> QED BY <3>1, ResolveInUniverse
  <2> HIDE DEF name, src, d
  <2>3. k \in Graphs(U) /\ Accessed(g, k, src)
    BY <2>2, AccKeeps
  <2> HIDE DEF k, h
  <2>4. src \in DOMAIN k.cache /\ Continues(g, k)
    BY <2>3 DEF Accessed
  <2>5. r \in DOMAIN k.nodes /\ k.nodes[r].data = src
    <3>1. CacheOK(k)
      BY <2>3, GraphsAreGraphs
    <3> QED BY <2>4, <3>1 DEF CacheOK, Points
  <2>6. h \in Graphs(U) /\ Continues(k, h)
    <3>1. CASE Cached(k, d) /\ (d = src \/ HasReaders(k, d))
      <4> DEFINE m == WriteBack(NewSink(k, d), d)
                 w == Len(k.nodes) + 1
                 D == DOMAIN m.nodes \ DOMAIN k.nodes
      <4>1. m \in Graphs(U) /\ FreshSink(k, m)
        BY <2>2, <2>3, FreshSinkKeeps
      <4>2. h = CopyEdges(m, r, w, st)
        BY <2>1, <3>1 DEF CopyFrom
      <4> HIDE DEF m, w, r
      <4>3. Continues(k, m) /\ w \in D /\ Closed(m.edges, D) /\ w \in DOMAIN m.nodes
        BY <4>1 DEF FreshSink, w
      <4>4. r \in DOMAIN m.nodes /\ r \notin D /\ D \subseteq DOMAIN m.nodes
        BY <2>3, <2>5, <4>1, <4>3, NodesStay
      <4> HIDE DEF D
      <4>5. h \in Graphs(U) /\ Continues(m, h)
        BY <4>1, <4>2, <4>3, <4>4, CopyEdgesKeeps
      <4> QED BY <2>3, <4>1, <4>3, <4>5, ContinuesOn
    <3>2. CASE ~(Cached(k, d) /\ (d = src \/ HasReaders(k, d)))
      <4> DEFINE m == Acc(k, d)
                 w == m.cache[d]
                 D == {w}
      <4>1. m \in Graphs(U) /\ Accessed(k, m, d)
        BY <2>2, <2>3, AccKeeps
      <4>2. h = CopyEdges(m, r, w, st)
        BY <2>1, <3>2 DEF CopyFrom, CopyIntoLive
      <4> HIDE DEF m, r
      <4>3. w \in DOMAIN m.nodes /\ m.nodes[w].data = d
        <5>1. CacheOK(m) /\ d \in DOMAIN m.cache
          BY <4>1, GraphsAreGraphs DEF Accessed
        <5> QED BY <5>1 DEF CacheOK, Points
      <4>4. Sink(m, w) /\ w # r
        <5>1. CASE Cached(k, d)
          <6>1. m = k /\ d # src /\ ~HasReaders(k, d)
            BY <3>2, <4>1, <5>1 DEF Accessed
          <6> QED BY <2>5, <4>3, <5>1, <6>1 DEF HasReaders, Sink
        <5>2. CASE ~Cached(k, d)
          BY <2>5, <4>1, <5>2 DEF Accessed
        <5> QED BY <5>1, <5>2
      <4>5. Continues(k, m)
        BY <4>1 DEF Accessed
      <4>6. r \in DOMAIN m.nodes
        BY <2>3, <2>5, <4>1, <4>5, NodesStay
      <4>7. D \subseteq DOMAIN m.nodes /\ w \in D /\ r \notin D /\ Closed(m.edges, D)
        BY <4>3, <4>4 DEF Closed, Successors, Sink
      <4> HIDE DEF w, D
      <4>8. h \in Graphs(U) /\ Continues(m, h)
        BY <4>1, <4>2, <4>3, <4>6, <4>7, CopyEdgesKeeps
      <4> QED BY <2>3, <4>1, <4>5, <4>8, ContinuesOn
    <3> QED BY <3>1, <3>2
  <2>7. Continues(g, h)
    BY <2>3, <2>4, <2>6, ContinuesOn
  <2> QED BY <2>6, <2>7 DEF h
<1> QED BY <1>1, <1>2

(* emit_memset closes no cycle: what it fills is not in the state yet.     *)
LEMMA AddFillKeeps ==
  ASSUME NEW U, Universe(U), NEW g \in Graphs(U), NEW st, Statement(U, st),
         ~Cached(g, Resolve(st.target[1]))
  PROVE  AddFill(g, st) \in Graphs(U) /\ Continues(g, AddFill(g, st))
<1> DEFINE d == Resolve(st.target[1])
           f == Len(g.nodes) + 1
           k == AddNode(g, "library", d, st)
           h == AddFill(g, st)
<1>1. d \in U /\ Resolve(d) = d /\ st \in U /\ NoStatement \in U /\ "all" \in U
      /\ "library" \in Kinds /\ "access" \in Kinds
  BY ResolveInUniverse DEF Universe, Statement, Kinds
<1>2. k \in Graphs(U) /\ NodeAdded(g, k, f, "library", d, st)
  BY <1>1, AddNodeKeeps
<1>3. Continues(g, k) /\ f = Len(k.nodes) /\ f \in DOMAIN k.nodes
      /\ f \in CodeNodes(k) /\ ~Cached(k, d)
  BY <1>2 DEF NodeAdded, CodeNodes, DataNodes, Cached
<1>4. h \in Graphs(U) /\ Continues(k, h)
  <2>1. CASE d \notin Views
    <3>1. h = StoreLive(k, d, f, "all")
      BY <2>1 DEF AddFill
    <3> HIDE DEF d, f, k, h
    <3>2. ~HasReaders(k, d)
      BY <1>3 DEF HasReaders
    <3> QED BY <1>1, <1>2, <1>3, <3>1, <3>2, StoreLiveKeeps
  <2>2. CASE d \in Views
    <3> DEFINE m == AddNode(k, "access", d, NoStatement)
               w == f + 1
               p == AddEdges(m, {<<f, w, "all">>})
    <3>1. h = WriteBack(p, d)
      BY <2>2 DEF AddFill
    <3> HIDE DEF d, f, k, h
    <3>2. m \in Graphs(U) /\ NodeAdded(k, m, w, "access", d, NoStatement)
      BY <1>1, <1>2, <1>3, AddNodeKeeps
    <3> HIDE DEF m, w
    <3>3. Continues(k, m) /\ w \in DOMAIN m.nodes /\ f # w /\ Sink(m, w) /\ Len(m.nodes) # 0
      <4>1. \A e \in m.edges : e[1] \in DOMAIN k.nodes
        BY <3>2 DEF NodeAdded
      <4>2. w \notin DOMAIN k.nodes /\ Len(m.nodes) = w /\ Len(k.nodes) \in Nat
        BY <1>2, <3>2, GraphsAreGraphs DEF NodeAdded
      <4> QED BY <1>3, <3>2, <4>1, <4>2 DEF NodeAdded, Sink
    <3>4. f \in DOMAIN m.nodes
      BY <1>2, <1>3, <3>2, <3>3, NodesStay
    <3>5. p \in Graphs(U) /\ Continues(m, p) /\ p.nodes = m.nodes
      BY <1>1, <3>2, <3>3, <3>4, AddEdgeIntoSink
    <3> HIDE DEF p
    <3>6. h \in Graphs(U) /\ Continues(p, h)
      BY <1>1, <3>1, <3>3, <3>5, WriteBackKeeps
    <3>7. Continues(k, p)
      BY <1>2, <3>2, <3>3, <3>5, ContinuesOn
    <3> QED BY <1>2, <3>5, <3>6, <3>7, ContinuesOn
  <2> QED BY <2>1, <2>2
<1> HIDE DEF h, k
<1>5. Continues(g, h)
  BY <1>2, <1>3, <1>4, ContinuesOn
<1> QED BY <1>4, <1>5 DEF h

-----------------------------------------------------------------------------
(* Library nodes with access nodes of their own.                           *)
FreshWirings(U, g, t) == {h \in Graphs(U) : Continues(g, h) /\ Sink(h, t)}

LEMMA FreshReadKeeps ==
  ASSUME NEW U, Universe(U), NEW g \in Graphs(U), NEW t \in DOMAIN g.nodes,
         NEW h \in FreshWirings(U, g, t), NEW d \in U
  PROVE  FreshRead(h, d, t) \in FreshWirings(U, g, t)
<1> DEFINE n == Len(h.nodes) + 1
           k == AddNode(h, "access", d, NoStatement)
           m == AddEdges(k, {<<n, t, "read">>})
           r == FreshRead(h, d, t)
<1>1. NoStatement \in U /\ "read" \in U /\ "all" \in U /\ "access" \in Kinds
  BY DEF Universe, Kinds
<1>2. h \in Graphs(U) /\ Continues(g, h) /\ Sink(h, t) /\ t \in DOMAIN h.nodes
  BY NodesStay DEF FreshWirings
<1>3. k \in Graphs(U) /\ NodeAdded(h, k, n, "access", d, NoStatement)
  BY <1>1, <1>2, AddNodeKeeps
<1>4. r = IF d \notin Views THEN m
          ELSE AddEdges(AddNode(m, "access", SourceOf[d], NoStatement), {<<n + 1, n, "all">>})
  BY DEF FreshRead
<1> HIDE DEF k, n, r
<1>5. Continues(h, k) /\ n \in DOMAIN k.nodes /\ t \in DOMAIN k.nodes /\ n # t /\ Sink(k, t)
      /\ Len(k.nodes) = n
  <2>1. Continues(h, k) /\ n \in DOMAIN k.nodes /\ k.edges = h.edges /\ n \notin DOMAIN h.nodes
        /\ Len(k.nodes) = n
    BY <1>3 DEF NodeAdded
  <2> QED BY <1>2, <1>3, <2>1, NodesStay DEF Sink
<1>6. m \in Graphs(U) /\ Continues(k, m) /\ m.nodes = k.nodes
      /\ m.edges = k.edges \cup {<<n, t, "read">>}
  BY <1>1, <1>3, <1>5, AddEdgeIntoSink
<1> HIDE DEF m
<1>7. Sink(m, t)
  BY <1>5, <1>6 DEF Sink
<1>8. Continues(g, m)
  <2>1. Continues(g, k)
    BY <1>2, <1>3, <1>5, ContinuesOn
  <2> QED BY <1>3, <1>6, <2>1, ContinuesOn
<1>9. CASE d \notin Views
  BY <1>4, <1>6, <1>7, <1>8, <1>9 DEF FreshWirings, r
<1>10. CASE d \in Views
  <2> DEFINE s == SourceOf[d]
             w == n + 1
             p == AddNode(m, "access", s, NoStatement)
             D == DOMAIN m.nodes
             q == AddEdges(p, {<<w, n, "all">>})
  <2>1. s \in U
    BY <1>10, NamesAssumption DEF Universe, Named
  <2>2. Len(m.nodes) = n
    BY <1>5, <1>6
  <2>3. p \in Graphs(U) /\ NodeAdded(m, p, w, "access", s, NoStatement)
    BY <1>1, <1>6, <2>1, <2>2, AddNodeKeeps
  <2>4. r = q
    BY <1>4, <1>10
  <2> HIDE DEF p, w, s
  <2>5. Continues(m, p) /\ w \in DOMAIN p.nodes /\ w \notin D /\ p.edges = m.edges
    BY <2>3 DEF NodeAdded
  <2>6. n \in D /\ t \in D /\ n \in DOMAIN p.nodes
    BY <1>5, <1>6, <2>3, <2>5, NodesStay
  <2>7. Closed(p.edges, D)
    BY <1>6, <2>5, GraphsAreGraphs DEF IsGraph, Wired, Closed, Successors
  <2>8. w # t
    BY <2>5, <2>6
  <2> HIDE DEF D
  <2>9. q \in Graphs(U) /\ Continues(p, q) /\ q.edges = p.edges \cup {<<w, n, "all">>}
    BY <1>1, <2>3, <2>5, <2>6, <2>7, AddEdgeKeeps
  <2> HIDE DEF q
  <2>10. Sink(q, t)
    BY <1>7, <2>5, <2>8, <2>9 DEF Sink
  <2>11. Continues(g, q)
    <3>1. Continues(g, p)
      BY <1>6, <1>8, <2>3, <2>5, ContinuesOn
    <3> QED BY <2>3, <2>9, <3>1, ContinuesOn
  <2> QED BY <2>4, <2>9, <2>10, <2>11 DEF FreshWirings, r
<1> QED BY <1>9, <1>10

(* All reads of such a node.                                               *)
FreshReads(g, st, t) == FoldLeft(LAMBDA h, x : FreshRead(h, x, t), g, SetToSeq(ReadNames(st)))

LEMMA FreshReadsKeeps ==
  ASSUME NEW U, Universe(U), NEW g \in Graphs(U), NEW t \in DOMAIN g.nodes, Sink(g, t),
         NEW st, IsFiniteSet(ReadNames(st)), ReadNames(st) \subseteq U
  PROVE  FreshReads(g, st, t) \in FreshWirings(U, g, t)
<1> DEFINE
  R == ReadNames(st)
  n == Cardinality(R)
  seq == SetToSeq(R)
  S == 1 .. n
  G == FreshWirings(U, g, t)
  op == [p \in S \X G |-> FreshRead(p[2], seq[p[1]], t)]
  pick == [s \in SUBSET S |-> Max(s)]
<1>1. n \in Nat /\ seq \in [S -> R]
  BY AsSequence
<1>2. IsFiniteSet(S) /\ DOMAIN seq = S
  BY <1>1, FS_Interval
<1>3. \A i \in S, h \in G : FreshRead(h, seq[i], t) \in G
  <2> SUFFICES ASSUME NEW i \in S, NEW h \in G PROVE FreshRead(h, seq[i], t) \in G
    OBVIOUS
  <2> HIDE DEF seq, S
  <2>1. seq[i] \in U
    BY <1>1
  <2> QED BY <2>1, FreshReadKeeps
<1>4. g \in G
  BY ContinuesItself DEF FreshWirings
<1>5. \A s \in SUBSET S : s # {} => Max(s) \in s
  BY <1>1, LastIndex
<1>6. FreshReads(g, st, t) = FoldLeft(LAMBDA h, x : FreshRead(h, x, t), g, seq)
  BY DEF FreshReads
<1> HIDE DEF seq, S, G
<1>7. op \in [S \X G -> G]
  BY <1>3
<1>8. \A s \in SUBSET S : s # {} => pick[s] \in s
  BY <1>5
<1>9. PICK f \in [SUBSET S -> G] : FoldOver(f, S, g, op, pick)
  <2> HIDE DEF op, pick
  <2> QED BY <1>2, <1>4, <1>7, <1>8, FoldExists
<1>10. f = [s \in SUBSET S |->
              IF s = {} THEN g ELSE LET x == Max(s) IN FreshRead(f[s \ {x}], seq[x], t)]
  <2>1. \A s \in SUBSET S : s # {} =>
          <<Max(s), f[s \ {Max(s)}]>> \in S \X G /\ pick[s] = Max(s)
    BY <1>5
  <2>2. \A s \in SUBSET S : s # {} =>
          f[s] = FreshRead(f[s \ {Max(s)}], seq[Max(s)], t)
    BY <1>9, <2>1 DEF FoldOver
  <2> HIDE DEF op, pick
  <2> QED BY <1>9, <2>2 DEF FoldOver
<1>11. PICK F : /\ F = [s \in SUBSET S |->
                          IF s = {} THEN g
                          ELSE LET x == Max(s) IN FreshRead(F[s \ {x}], seq[x], t)]
                /\ FreshReads(g, st, t) = F[S]
  BY <1>2, <1>6, <1>10 DEF FoldLeft, MapThenFoldSet
<1>12. F[{}] \in G
  BY <1>4, <1>11
<1>13. ASSUME NEW s \in SUBSET S, s # {}
       PROVE  \E x \in s : F[s \ {x}] \in G => F[s] \in G
  <2>1. Max(s) \in s /\ F[s] = FreshRead(F[s \ {Max(s)}], seq[Max(s)], t)
    BY <1>5, <1>11, <1>13
  <2>2. F[s \ {Max(s)}] \in G => F[s] \in G
    BY <1>3, <2>1
  <2> QED BY <2>1, <2>2
<1>14. F[S] \in G
  BY <1>2, <1>12, <1>13, FoldStays
<1> QED BY <1>11, <1>14 DEF G

(* add_uncached_node closes no cycle.                                      *)
LEMMA AddUncachedNodeKeeps ==
  ASSUME NEW U, Universe(U), NEW g \in Graphs(U), NEW st, Statement(U, st)
  PROVE  AddUncachedNode(g, st) \in Graphs(U) /\ Continues(g, AddUncachedNode(g, st))
<1> DEFINE t == Len(g.nodes) + 1
           d == st.target[1]
           k == AddNode(g, "library", d, st)
           m == FreshReads(k, st, t)
           w == Len(m.nodes) + 1
           p == AddNode(m, "access", d, NoStatement)
           q == AddEdges(p, {<<t, w, "all">>})
           h == WriteBack(q, d)
<1>1. d \in U /\ st \in U /\ NoStatement \in U /\ "all" \in U
      /\ "library" \in Kinds /\ "access" \in Kinds
  BY DEF Universe, Statement, Kinds
<1>2. AddUncachedNode(g, st) = h
  BY DEF AddUncachedNode, FreshWrite, FreshReads
<1> HIDE DEF d
<1>3. k \in Graphs(U) /\ NodeAdded(g, k, t, "library", d, st)
  BY <1>1, AddNodeKeeps
<1> HIDE DEF k, t
<1>4. t \in DOMAIN k.nodes /\ Sink(k, t) /\ Continues(g, k)
  BY <1>3 DEF NodeAdded, Sink
<1>5. m \in FreshWirings(U, k, t)
  BY <1>3, <1>4, FreshReadsKeeps DEF Statement
<1> HIDE DEF m
<1>6. m \in Graphs(U) /\ Continues(k, m)
  BY <1>5 DEF FreshWirings
<1>7. p \in Graphs(U) /\ NodeAdded(m, p, w, "access", d, NoStatement)
  BY <1>1, <1>6, AddNodeKeeps
<1> HIDE DEF p, w
<1>8. Continues(m, p) /\ w \in DOMAIN p.nodes /\ Sink(p, w) /\ w \notin DOMAIN m.nodes
  BY <1>7 DEF NodeAdded, Sink
<1>9. t \in DOMAIN p.nodes /\ t # w
  <2>1. t \in DOMAIN m.nodes
    BY <1>3, <1>4, <1>6, NodesStay
  <2> QED BY <1>6, <1>7, <1>8, <2>1, NodesStay
<1>10. q \in Graphs(U) /\ Continues(p, q) /\ q.nodes = p.nodes
  BY <1>1, <1>7, <1>8, <1>9, AddEdgeIntoSink
<1> HIDE DEF q
<1>11. Len(q.nodes) # 0
  BY <1>9, <1>10, GraphsAreGraphs
<1>12. h \in Graphs(U) /\ Continues(q, h)
  BY <1>1, <1>10, <1>11, WriteBackKeeps
<1> HIDE DEF h
<1>13. Continues(g, h)
  <2>1. Continues(g, m)
    BY <1>3, <1>4, <1>6, ContinuesOn
  <2>2. Continues(g, p)
    BY <1>6, <1>7, <1>8, <2>1, ContinuesOn
  <2>3. Continues(g, q)
    BY <1>7, <1>10, <2>2, ContinuesOn
  <2> QED BY <1>10, <1>12, <2>3, ContinuesOn
<1> QED BY <1>2, <1>12, <1>13

-----------------------------------------------------------------------------
(* Library nodes that share the access nodes of the state.                 *)

(* The graphs NeverStuck allows: only an intrinsic may close a cycle.      *)
Excused(g) == Loopless(g) \/ Overtakes(g)
Carries(g, h) ==
  /\ Len(g.nodes) <= Len(h.nodes) /\ \A n \in DOMAIN g.nodes : h.nodes[n] = g.nodes[n]
  /\ g.edges \subseteq h.edges /\ (Excused(g) => Excused(h))

(* What an intrinsic has overtaken stays overtaken.                        *)
LEMMA OvertakenStays ==
  ASSUME NEW g, NEW h, IsGraph(g), IsGraph(h), Len(g.nodes) <= Len(h.nodes),
         \A n \in DOMAIN g.nodes : h.nodes[n] = g.nodes[n],
         g.edges \subseteq h.edges, Overtakes(g)
  PROVE  Overtakes(h)
<1>1. PICK t \in CodeNodes(g) :
        /\ g.nodes[t].stmt.how = "libcall"
        /\ \E u \in CodeNodes(g) \cap Descendants(g, t) :
             g.nodes[u].stmt.id <= g.nodes[t].stmt.id
  BY DEF Overtakes
<1>2. PICK u \in CodeNodes(g) \cap Descendants(g, t) :
        g.nodes[u].stmt.id <= g.nodes[t].stmt.id
  BY <1>1
<1>3. DOMAIN g.nodes \subseteq DOMAIN h.nodes
  BY DEF IsGraph, Wired
<1>4. \A n \in CodeNodes(g) : n \in CodeNodes(h) /\ h.nodes[n] = g.nodes[n]
  BY <1>3 DEF CodeNodes, DataNodes
<1>5. u \in Descendants(h, t)
  BY DescendantsGrow DEF IsGraph
<1> QED BY <1>1, <1>2, <1>4, <1>5 DEF Overtakes

(* What continues a graph carries it on, ...                               *)
LEMMA ContinuesCarries ==
  ASSUME NEW U, NEW g \in Graphs(U), NEW h \in Graphs(U), Continues(g, h)
  PROVE  Carries(g, h)
<1>1. IsGraph(g) /\ IsGraph(h)
  BY GraphsAreGraphs
<1>2. Overtakes(g) => Overtakes(h)
  BY <1>1, OvertakenStays DEF Continues
<1> QED BY <1>2 DEF Continues, Carries, Excused

(* ... and one may go on from there.                                       *)
LEMMA CarriesOn ==
  ASSUME NEW U, NEW g \in Graphs(U), NEW h \in Graphs(U), NEW k \in Graphs(U),
         Carries(g, h), Carries(h, k)
  PROVE  Carries(g, k)
<1>1. DOMAIN g.nodes = 1 .. Len(g.nodes) /\ DOMAIN h.nodes = 1 .. Len(h.nodes)
      /\ Len(g.nodes) \in Nat /\ Len(h.nodes) \in Nat /\ Len(k.nodes) \in Nat
  BY GraphsAreGraphs
<1>2. DOMAIN g.nodes \subseteq DOMAIN h.nodes
  BY <1>1 DEF Carries
<1> QED BY <1>1, <1>2 DEF Carries

(* A store of an intrinsic into the live sink closes no cycle unless the   *)
(* sink leads back to it: then it overtakes itself.                        *)
LEMMA IntrinsicStoreCarries ==
  ASSUME NEW U, Universe(U), NEW g \in Graphs(U), NEW t \in CodeNodes(g),
         g.nodes[t].stmt.how = "libcall", g.nodes[t].stmt.id \in Nat,
         NEW b \in DOMAIN g.nodes, b # t
  PROVE  LET h == AddEdges(g, {<<t, b, "all">>})
         IN  h \in Graphs(U) /\ Carries(g, h)
<1> DEFINE e == <<t, b, "all">>
           h == AddEdges(g, {e})
           D == {b} \cup Descendants(g, b)
<1>1. t \in DOMAIN g.nodes /\ "all" \in U /\ IsGraph(g) /\ Wired(g) /\ Len(g.nodes) \in Nat
      /\ t \in Nat /\ b \in Nat
  BY GraphsAreGraphs DEF CodeNodes, Universe, IsGraph
<1>2. h \in Graphs(U) /\ h.nodes = g.nodes /\ h.edges = g.edges \cup {e}
  <2>1. {e} \subseteq Nat \X Nat \X U
        /\ \A x \in {e} : x[1] \in DOMAIN g.nodes /\ x[2] \in DOMAIN g.nodes
    BY <1>1
  <2> HIDE DEF e
  <2> QED BY <2>1, GraphWithEdges
<1>3. IsGraph(h) /\ Wired(h)
  BY <1>2, GraphsAreGraphs DEF IsGraph
<1>4. CASE t \in Descendants(g, b)
  <2>1. Successors(h.edges, {t}) \subseteq Descendants(h, t) /\ Closed(h.edges, Descendants(h, t))
    BY <1>3, DescendantsLeast
  <2>2. e \in h.edges /\ e[1] = t /\ e[2] = b
    BY <1>2
  <2> HIDE DEF h, e
  <2>3. b \in Descendants(h, t)
    BY <2>1, <2>2 DEF Successors
  <2>4. Successors(g.edges, {b}) \subseteq Descendants(h, t)
        /\ Closed(g.edges, Descendants(h, t))
    BY <1>2, <2>1, <2>3 DEF Closed, Successors
  <2>5. t \in Descendants(h, t)
    BY <1>1, <1>4, <2>4, DescendantsLeast
  <2>6. t \in CodeNodes(h) /\ h.nodes[t] = g.nodes[t]
    BY <1>2 DEF CodeNodes, DataNodes
  <2>7. Overtakes(h)
    BY <2>5, <2>6 DEF Overtakes
  <2>8. Carries(g, h)
    BY <1>1, <1>2, <2>7 DEF Carries, Excused
  <2> QED BY <1>2, <2>8 DEF h, e
<1>5. CASE t \notin Descendants(g, b)
  <2>1. b \in D /\ t \notin D
    BY <1>5
  <2>2. Closed(g.edges, D)
    BY <1>1, DescendantsLeast DEF Closed, Successors
  <2> HIDE DEF D
  <2>3. h \in Graphs(U) /\ Continues(g, h)
    BY <1>1, <2>1, <2>2, AddEdgeKeeps
  <2> HIDE DEF h
  <2>4. Carries(g, h)
    BY <2>3, ContinuesCarries
  <2> QED BY <2>3, <2>4 DEF h
<1> QED BY <1>4, <1>5

(* add_cached_node: an intrinsic may overtake an earlier read, ...         *)
LEMMA IntrinsicCarries ==
  ASSUME NEW U, Universe(U), NEW g \in Graphs(U), NEW st, Statement(U, st),
         st.how = "libcall", st.id \in Nat
  PROVE  AddCachedNode(g, st) \in Graphs(U) /\ Carries(g, AddCachedNode(g, st))
<1> DEFINE t == Len(g.nodes) + 1
           d == st.target[1]
           r == Resolve(d)
           w == WireReads(AddNode(g, "library", d, st), st, t)
           k == Acc(w, r)
           b == k.cache[r]
           h == AddEdges(k, {<<t, b, "all">>})
<1>1. AddCachedNode(g, st) = IF d \in Outside THEN w ELSE h
  BY DEF AddCachedNode, StoreResult, StoreLive, IntoLive
<1>2. d \in U /\ r \in U /\ Resolve(r) = r
  BY ResolveInUniverse DEF Statement
<1> HIDE DEF d, r
<1>3. w \in Graphs(U) /\ Continues(g, w) /\ t \in CodeNodes(w) /\ w.nodes[t].stmt = st
  <2>1. DOMAIN g.cache \subseteq U /\ Caching(U, ReadNames(st))
    BY CachedNames, CachingAll DEF Statement
  <2> QED BY <1>2, <2>1, WiredNodeKeeps
<1> HIDE DEF w, t
<1>4. Carries(g, w)
  BY <1>3, ContinuesCarries
<1>5. k \in Graphs(U) /\ Accessed(w, k, r)
  BY <1>2, <1>3, AccKeeps
<1> HIDE DEF k
<1>6. Continues(w, k) /\ b \in DOMAIN k.nodes /\ k.nodes[b].kind = "access"
  <2>1. CacheOK(k) /\ r \in DOMAIN k.cache /\ Continues(w, k)
    BY <1>5, GraphsAreGraphs DEF Accessed
  <2> QED BY <2>1 DEF CacheOK, Points
<1>7. t \in CodeNodes(k) /\ k.nodes[t].stmt = st /\ b # t
  <2>1. t \in DOMAIN w.nodes /\ w.nodes[t].kind # "access"
    BY <1>3 DEF CodeNodes, DataNodes
  <2>2. t \in DOMAIN k.nodes /\ k.nodes[t] = w.nodes[t]
    BY <1>3, <1>5, <1>6, <2>1, NodesStay DEF Continues
  <2> QED BY <1>3, <1>6, <2>1, <2>2 DEF CodeNodes, DataNodes
<1> HIDE DEF b
<1>8. h \in Graphs(U) /\ Carries(k, h)
  BY <1>5, <1>6, <1>7, IntrinsicStoreCarries
<1> HIDE DEF h
<1>9. Carries(g, h)
  <2>1. Carries(w, k)
    BY <1>3, <1>5, <1>6, ContinuesCarries
  <2>2. Carries(g, k)
    BY <1>3, <1>4, <1>5, <2>1, CarriesOn
  <2> QED BY <1>5, <1>8, <2>2, CarriesOn
<1> QED BY <1>1, <1>3, <1>4, <1>8, <1>9

(* ... but a node that does not read what it writes closes no cycle in a   *)
(* state of its own.                                                       *)
LEMMA AloneKeeps ==
  ASSUME NEW U, Universe(U), NEW g \in Graphs(U), NEW st, Statement(U, st),
         NEW C, DOMAIN g.cache \subseteq C, Caching(C, ReadNames(st)),
         Resolve(st.target[1]) \notin C
  PROVE  AddCachedNode(g, st) \in Graphs(U) /\ Continues(g, AddCachedNode(g, st))
<1> DEFINE t == Len(g.nodes) + 1
           d == st.target[1]
           r == Resolve(d)
           w == WireReads(AddNode(g, "library", d, st), st, t)
           h == StoreLive(w, r, t, "all")
<1>1. AddCachedNode(g, st) = IF d \in Outside THEN w ELSE h
  BY DEF AddCachedNode, StoreResult
<1>2. d \in U /\ r \in U /\ Resolve(r) = r /\ "all" \in U /\ r \notin C
  BY ResolveInUniverse DEF Statement, Universe
<1> HIDE DEF d, r
<1>3. w \in Graphs(U) /\ Continues(g, w) /\ t \in CodeNodes(w) /\ DOMAIN w.cache \subseteq C
  BY <1>2, WiredNodeKeeps
<1> HIDE DEF w, t
<1>4. ~HasReaders(w, r)
  BY <1>2, <1>3 DEF HasReaders, Cached
<1>5. h \in Graphs(U) /\ Continues(w, h)
  BY <1>2, <1>3, <1>4, StoreLiveKeeps
<1> HIDE DEF h
<1>6. Continues(g, h)
  BY <1>3, <1>5, ContinuesOn
<1> QED BY <1>1, <1>3, <1>5, <1>6

-----------------------------------------------------------------------------
(* Statements over containers without views: what the ordering pass needs  *)
(* of a graph, and that the emitters see to it.                            *)

(* The cache names the newest access node of every container; there is a   *)
(* dictionary as soon as something is cached.                              *)
Live(g) ==
  /\ \A n \in DataNodes(g) : Cached(g, g.nodes[n].data) /\ n <= g.cache[g.nodes[n].data]
  /\ DOMAIN g.cache # {} => g.opened

(* The edges of a code node are the accesses of its statement.             *)
ReadWired(g, t, st) ==
  \A d \in ReadNames(st) : \E n \in DataNodes(g) :
    g.nodes[n].data = Resolve(d) /\ Edge(g, n, t)
StoreWired(g, t, st) ==
  st.target[1] \notin Outside =>
    \E e \in g.edges : /\ e[1] = t /\ e[2] \in DataNodes(g) /\ e[3] \in {st.target[2], "all"}
                       /\ g.nodes[e[2]].data = Resolve(st.target[1])
Complete(g) ==
  \A t \in CodeNodes(g) : ReadWired(g, t, g.nodes[t].stmt) /\ StoreWired(g, t, g.nodes[t].stmt)

Tidy(g) == Versioned(g) /\ Live(g) /\ Complete(g)

(* A fresh state is empty, and so in order.                                *)
LEMMA FreshStateIsTidy ==
  ASSUME NEW U, Universe(U), NEW st \in U
  PROVE  LET g == StateAfter(st)
         IN  /\ g \in Graphs(U) /\ Tidy(g) /\ DOMAIN g.nodes = {} /\ DOMAIN g.cache = {}
             /\ DataNodes(g) = {} /\ CodeNodes(g) = {} /\ g.entry = st
<1> DEFINE g == StateAfter(st)
<1>1. g.nodes = <<>> /\ g.edges = {} /\ g.cache = <<>> /\ Len(g.nodes) = 0 /\ g.entry = st
  BY DEF StateAfter
<1>2. g.nodes \in Seq(Nodes(U)) /\ DOMAIN g.nodes = {} /\ DOMAIN g.cache = {}
  BY <1>1
<1>3. g.cache \in Caches(U)
  <2>1. g.cache \in [{} -> Nat]
    BY <1>1
  <2> HIDE DEF g
  <2> QED BY <2>1 DEF Caches
<1>4. g \in Typed(U)
  BY <1>2, <1>3 DEF Typed, StateAfter
<1> HIDE DEF g
<1>5. Wired(g) /\ CacheOK(g)
  BY <1>1, <1>2 DEF Wired, CacheOK, Points
<1>6. g \in Graphs(U)
  BY <1>4, <1>5 DEF Graphs
<1>7. DataNodes(g) = {} /\ CodeNodes(g) = {}
  BY <1>2 DEF DataNodes, CodeNodes
<1>8. IsGraph(g)
  BY <1>6, GraphsAreGraphs
<1>9. Versioned(g)
  BY <1>1, <1>7, <1>8 DEF Versioned, Bipartite, WritersFirst, VersionsInOrder, LaterWritten
<1>10. Tidy(g)
  BY <1>2, <1>7, <1>9 DEF Tidy, Live, Complete
<1> QED BY <1>1, <1>2, <1>6, <1>7, <1>10 DEF g

(* m is the newest node of the target and nothing reads it.                *)
StoredIn(h, st, m) ==
  /\ m \in DataNodes(h) /\ h.nodes[m].data = Resolve(st.target[1])
  /\ \A n : ~Later(h, m, n)
  /\ \A e \in h.edges : e[1] # m

(* h is g with statement st added as code node t, which reads the newest   *)
(* access nodes and stores into m, a fresh one or one nothing has read.    *)
Kept(g, h) ==
  /\ Len(g.nodes) <= Len(h.nodes) /\ \A n \in DOMAIN g.nodes : h.nodes[n] = g.nodes[n]
  /\ g.edges \subseteq h.edges /\ h.entry = g.entry
Gains(g, h, t, st) ==
  /\ t \notin DOMAIN g.nodes /\ CodeNodes(h) = CodeNodes(g) \cup {t}
  /\ h.nodes[t].stmt = st
EdgesOf(g, h, t, m, st) ==
  \A e \in h.edges \ g.edges :
    \/ e[1] = t /\ e[2] = m /\ e[3] \in {st.target[2], "all"} /\ StoredIn(h, st, m)
    \/ /\ e[1] \in DataNodes(h) /\ e[2] = t /\ e[3] = "read"
       /\ \A n : Later(h, e[1], n) => n = m /\ m \notin DOMAIN g.nodes
VersionsOf(g, h, t, m) ==
  \A n, x : Later(h, n, x) /\ x \notin DOMAIN g.nodes => x = m /\ Edge(h, t, m)
Emitted(g, h, t, m, st) ==
  /\ Kept(g, h) /\ Gains(g, h, t, st) /\ EdgesOf(g, h, t, m, st) /\ VersionsOf(g, h, t, m)
  /\ ReadWired(h, t, st) /\ StoreWired(h, t, st)

(* Such a step keeps the versions in order ...                             *)
LEMMA EmittedVersions ==
  ASSUME NEW g, Versioned(g), NEW h, IsGraph(h), NEW t, NEW m, NEW st,
         Emitted(g, h, t, m, st), st.target[2] # "order"
  PROVE  Versioned(h)
<1>1. /\ DataNodes(h) \subseteq DOMAIN h.nodes /\ CodeNodes(h) \subseteq DOMAIN h.nodes
      /\ DOMAIN h.nodes \subseteq Nat
      /\ \A n \in DOMAIN h.nodes : n \in DataNodes(h) <=> n \notin CodeNodes(h)
      /\ \A n : Writers(h, n) \subseteq CodeNodes(h)
  BY NodesOfGraph
<1>2. /\ DataNodes(g) \subseteq DOMAIN g.nodes /\ CodeNodes(g) \subseteq DOMAIN g.nodes
      /\ DOMAIN g.nodes \subseteq Nat
      /\ \A n \in DOMAIN g.nodes : n \in DataNodes(g) <=> n \notin CodeNodes(g)
      /\ \A n : Writers(g, n) \subseteq CodeNodes(g)
  BY NodesOfGraph DEF Versioned
<1>3. /\ DOMAIN g.nodes = 1 .. Len(g.nodes) /\ DOMAIN h.nodes = 1 .. Len(h.nodes)
      /\ Len(g.nodes) \in Nat /\ Len(h.nodes) \in Nat
  BY DEF Versioned, IsGraph, Wired
<1>4. DOMAIN g.nodes \subseteq DOMAIN h.nodes
  BY <1>3 DEF Emitted, Kept
<1>5. /\ t \in CodeNodes(h) /\ t \notin DOMAIN g.nodes
      /\ \A u \in CodeNodes(h) \ {t} : u \in CodeNodes(g)
  BY DEF Emitted, Gains
<1>6. \A u \in CodeNodes(g) : u < t
  BY <1>1, <1>2, <1>3, <1>5
<1>7. \A n \in DOMAIN g.nodes :
        /\ (n \in DataNodes(h) <=> n \in DataNodes(g))
        /\ (n \in CodeNodes(h) <=> n \in CodeNodes(g))
        /\ h.nodes[n] = g.nodes[n]
  BY <1>4 DEF Emitted, Kept, DataNodes, CodeNodes
<1>7a. /\ \A n : ~(n \in DataNodes(h) /\ n \in CodeNodes(h))
       /\ \A n \in DataNodes(g) : n \in DataNodes(h)
       /\ \A n \in CodeNodes(g) : n \in CodeNodes(h)
  BY <1>1, <1>2, <1>7
<1>8. \A e \in g.edges : e[1] \in DOMAIN g.nodes /\ e[2] \in DOMAIN g.nodes
  BY DEF Versioned, IsGraph, Wired
<1>9. \A n, x : Later(h, n, x) /\ x \in DOMAIN g.nodes => Later(g, n, x)
  <2> SUFFICES ASSUME NEW n, NEW x, Later(h, n, x), x \in DOMAIN g.nodes PROVE Later(g, n, x)
    OBVIOUS
  <2>1. n \in DOMAIN g.nodes
    BY <1>1, <1>3 DEF Later
  <2>2. n \in DataNodes(g) /\ x \in DataNodes(g) /\ n < x /\ h.nodes[n].data = h.nodes[x].data
    BY <1>7, <2>1 DEF Later
  <2>3. h.nodes[n] = g.nodes[n] /\ h.nodes[x] = g.nodes[x]
    BY <1>7, <2>1
  <2> QED BY <2>2, <2>3 DEF Later
<1>10. \A p, q : Edge(h, p, q) =>
          \/ Edge(g, p, q) /\ p \in DOMAIN g.nodes /\ q \in DOMAIN g.nodes
          \/ p = t /\ q = m /\ StoredIn(h, st, m)
          \/ /\ p \in DataNodes(h) /\ q = t
             /\ \A n : Later(h, p, n) => n = m /\ m \notin DOMAIN g.nodes
  BY <1>8 DEF Emitted, EdgesOf, Edge
<1>11. Bipartite(h)
  <2> SUFFICES ASSUME NEW e \in h.edges
               PROVE  /\ e[3] # "order"
                      /\ \/ e[1] \in DataNodes(h) /\ e[2] \in CodeNodes(h)
                         \/ e[1] \in CodeNodes(h) /\ e[2] \in DataNodes(h)
    BY DEF Bipartite
  <2>1. CASE e \in g.edges
    <3>1. /\ e[3] # "order"
          /\ \/ e[1] \in DataNodes(g) /\ e[2] \in CodeNodes(g)
             \/ e[1] \in CodeNodes(g) /\ e[2] \in DataNodes(g)
      BY <2>1 DEF Versioned, Bipartite
    <3> QED BY <1>7a, <3>1
  <2>2. CASE e \notin g.edges
    BY <1>5, <2>2 DEF Emitted, EdgesOf, StoredIn
  <2> QED BY <2>1, <2>2
<1>12. WritersFirst(h)
  <2> SUFFICES ASSUME NEW n \in DataNodes(h), NEW w \in Writers(h, n), NEW u \in CodeNodes(h),
                      Edge(h, n, u)
               PROVE  w < u
    BY DEF WritersFirst
  <2>1. Edge(h, w, n) /\ w \in CodeNodes(h) /\ n # t
    BY <1>1, <1>5 DEF Writers
  <2>2. Edge(g, w, n) /\ w \in DOMAIN g.nodes /\ n \in DOMAIN g.nodes
    <3>1. ~(w = t /\ n = m /\ StoredIn(h, st, m))
      BY DEF StoredIn, Edge
    <3> QED BY <1>7a, <1>10, <2>1, <3>1
  <2>3. w \in Writers(g, n) /\ n \in DataNodes(g)
    BY <1>7, <2>1, <2>2 DEF Writers
  <2>4. CASE u = t
    BY <1>2, <1>6, <2>3, <2>4
  <2>5. CASE u # t
    <3>1. Edge(g, n, u) /\ u \in CodeNodes(g)
      BY <1>5, <1>10, <2>1, <2>5
    <3> QED BY <2>3, <3>1 DEF Versioned, WritersFirst
  <2> QED BY <2>4, <2>5
<1>13. VersionsInOrder(h)
  <2> SUFFICES ASSUME NEW n \in DataNodes(h), NEW x \in DataNodes(h), Later(h, n, x),
                      NEW u \in Writers(h, x)
               PROVE  /\ \A w \in Writers(h, n) : w < u
                      /\ \A w \in CodeNodes(h) : Edge(h, n, w) => w <= u
    BY DEF VersionsInOrder
  <2>1. n < x /\ u \in CodeNodes(h) /\ Edge(h, u, x) /\ x # t /\ n # t /\ n # x
    BY <1>1, <1>5 DEF Later, Writers
  <2>2. CASE u = t
    <3>1. x = m
      <4>1. ~Edge(g, u, x) \/ u \notin DOMAIN g.nodes
        BY <1>5, <2>2
      <4> QED BY <1>5, <1>10, <2>1, <2>2, <4>1
    <3>2. \A w \in CodeNodes(h) : w = t \/ w < t
      BY <1>5, <1>6
    <3>3. ~Edge(h, t, n)
      BY <1>5, <1>10, <2>1, <3>1
    <3>4. \A w \in Writers(h, n) : w # t
      BY <3>3 DEF Writers
    <3>5. t \in Nat
      BY <1>1, <1>5
    <3> QED BY <1>1, <2>2, <3>2, <3>4, <3>5
  <2>3. CASE u # t
    <3>1. Edge(g, u, x) /\ x \in DOMAIN g.nodes /\ u \in CodeNodes(g)
      BY <1>5, <1>10, <2>1, <2>3
    <3>2. Later(g, n, x) /\ u \in Writers(g, x) /\ n \in DataNodes(g) /\ x \in DataNodes(g)
      BY <1>9, <3>1 DEF Writers, Later
    <3>3. /\ \A w \in Writers(g, n) : w < u
          /\ \A w \in CodeNodes(g) : Edge(g, n, w) => w <= u
      BY <3>2 DEF Versioned, VersionsInOrder
    <3>4. ASSUME NEW w \in Writers(h, n) PROVE w < u
      <4>1. Edge(h, w, n) /\ w \in CodeNodes(h)
        BY DEF Writers
      <4>2. ~(n = m /\ StoredIn(h, st, m))
        BY DEF StoredIn
      <4>3. Edge(g, w, n) /\ w \in DOMAIN g.nodes
        BY <1>10, <2>1, <4>1, <4>2
      <4>4. w \in Writers(g, n)
        BY <1>5, <4>1, <4>3 DEF Writers
      <4> QED BY <3>3, <4>4
    <3>5. ASSUME NEW w \in CodeNodes(h), Edge(h, n, w) PROVE w <= u
      <4>1. ~(\A z : Later(h, n, z) => z = m /\ m \notin DOMAIN g.nodes)
        BY <3>1
      <4>2. Edge(g, n, w) /\ w \in DOMAIN g.nodes
        BY <1>7a, <1>10, <2>1, <3>5, <4>1
      <4>3. w \in CodeNodes(g)
        BY <1>7, <4>2
      <4> QED BY <3>3, <4>2, <4>3
    <3> QED BY <3>4, <3>5
  <2> QED BY <2>2, <2>3
<1>14. LaterWritten(h)
  <2> SUFFICES ASSUME NEW n \in DataNodes(h), NEW x \in DataNodes(h), Later(h, n, x)
               PROVE  Writers(h, x) # {}
    BY DEF LaterWritten
  <2>1. CASE x \in DOMAIN g.nodes
    <3>1. Later(g, n, x)
      BY <1>9, <2>1
    <3>2. PICK w \in Writers(g, x) : TRUE
      BY <3>1 DEF Versioned, LaterWritten, Later
    <3>3. Edge(g, w, x) /\ w \in CodeNodes(g)
      BY <3>2 DEF Writers
    <3>4. w \in CodeNodes(h)
      BY <1>7a, <3>3
    <3>5. Edge(h, w, x)
      BY <3>3 DEF Edge, Emitted, Kept
    <3> QED BY <3>4, <3>5 DEF Writers
  <2>2. CASE x \notin DOMAIN g.nodes
    <3>1. Edge(h, t, x)
      BY <2>2 DEF Emitted, VersionsOf
    <3> QED BY <1>5, <3>1 DEF Writers
  <2> QED BY <2>1, <2>2
<1> QED BY <1>11, <1>12, <1>13, <1>14 DEF Versioned

(* ... and the accesses of every statement.                                *)
LEMMA EmittedComplete ==
  ASSUME NEW g, IsGraph(g), Complete(g), NEW h, IsGraph(h), NEW t, NEW m, NEW st,
         Emitted(g, h, t, m, st)
  PROVE  Complete(h)
<1>1. /\ DOMAIN g.nodes = 1 .. Len(g.nodes) /\ DOMAIN h.nodes = 1 .. Len(h.nodes)
      /\ Len(g.nodes) \in Nat /\ Len(h.nodes) \in Nat
  BY DEF IsGraph, Wired
<1>2. DOMAIN g.nodes \subseteq DOMAIN h.nodes
  BY <1>1 DEF Emitted, Kept
<1>3. \A n \in DOMAIN g.nodes : h.nodes[n] = g.nodes[n] /\ (n \in DataNodes(g) => n \in DataNodes(h))
  BY <1>2 DEF Emitted, Kept, DataNodes
<1>4. DataNodes(g) \subseteq DOMAIN g.nodes /\ CodeNodes(g) \subseteq DOMAIN g.nodes
  BY DEF DataNodes, CodeNodes
<1>5. \A p, q : Edge(g, p, q) => Edge(h, p, q)
  BY DEF Edge, Emitted, Kept
<1> SUFFICES ASSUME NEW u \in CodeNodes(h)
             PROVE  ReadWired(h, u, h.nodes[u].stmt) /\ StoreWired(h, u, h.nodes[u].stmt)
  BY DEF Complete
<1>6. CASE u = t
  BY <1>6 DEF Emitted, Gains
<1>7. CASE u # t
  <2> DEFINE s == g.nodes[u].stmt
  <2>1. u \in CodeNodes(g)
    BY <1>7 DEF Emitted, Gains
  <2>2. h.nodes[u].stmt = s
    BY <1>3, <1>4, <2>1
  <2>3. ReadWired(g, u, s) /\ StoreWired(g, u, s)
    BY <2>1 DEF Complete
  <2> HIDE DEF s
  <2>4. ReadWired(h, u, s)
    BY <1>3, <1>4, <1>5, <2>3 DEF ReadWired
  <2>5. StoreWired(h, u, s)
    BY <1>3, <1>4, <2>3 DEF StoreWired, Emitted, Kept
  <2> QED BY <2>2, <2>4, <2>5
<1> QED BY <1>6, <1>7

(* g with an access node of container d more, its live sink.               *)
NewVersion(g, h, d) ==
  LET n == Len(g.nodes) + 1 IN
  /\ Kept(g, h) /\ h.edges = g.edges /\ Live(h)
  /\ n \notin DOMAIN g.nodes /\ DataNodes(h) = DataNodes(g) \cup {n} /\ CodeNodes(h) = CodeNodes(g)
  /\ h.nodes[n].data = d /\ Cached(h, d) /\ h.cache[d] = n
  /\ \A x \in DOMAIN g.cache : Cached(h, x) /\ (x # d => h.cache[x] = g.cache[x])

(* Its components.                                                         *)
LEMMA VersionAdded ==
  ASSUME NEW g, IsGraph(g), NEW U, g.nodes \in Seq(U), Live(g), CacheOK(g), NEW h, NEW d,
         h.nodes = Append(g.nodes, [kind |-> "access", data |-> d, stmt |-> NoStatement]),
         h.edges = g.edges, h.entry = g.entry, h.opened,
         h.cache = Bind(g.cache, d, Len(g.nodes) + 1)
  PROVE  NewVersion(g, h, d)
<1> DEFINE n == Len(g.nodes) + 1
           new == [kind |-> "access", data |-> d, stmt |-> NoStatement]
<1>1. Len(g.nodes) \in Nat /\ DOMAIN g.nodes = 1 .. Len(g.nodes)
  BY DEF IsGraph, Wired
<1>2. new.kind = "access" /\ new.data = d
  OBVIOUS
<1> HIDE DEF new
<1>3. /\ Len(h.nodes) = n /\ DOMAIN h.nodes = 1 .. n /\ h.nodes[n] = new
      /\ \A m \in DOMAIN g.nodes : h.nodes[m] = g.nodes[m]
  <2>1. h.nodes = Append(g.nodes, new)
    BY DEF new
  <2> QED BY <1>1, <2>1
<1>4. n \notin DOMAIN g.nodes /\ DOMAIN h.nodes = DOMAIN g.nodes \cup {n}
  BY <1>1, <1>3
<1>5. DataNodes(h) = DataNodes(g) \cup {n}
  BY <1>2, <1>3, <1>4 DEF DataNodes
<1>6. CodeNodes(h) = CodeNodes(g)
  BY <1>2, <1>3, <1>4 DEF DataNodes, CodeNodes
<1>7. /\ DOMAIN h.cache = DOMAIN g.cache \cup {d} /\ h.cache[d] = n
      /\ \A x \in DOMAIN g.cache : x # d => h.cache[x] = g.cache[x]
  BY DEF Bind
<1>8. Kept(g, h)
  BY <1>1, <1>3 DEF Kept
<1>9. Live(h)
  <2> SUFFICES ASSUME NEW m \in DataNodes(h)
               PROVE  Cached(h, h.nodes[m].data) /\ m <= h.cache[h.nodes[m].data]
    BY DEF Live
  <2>1. CASE m = n
    BY <1>1, <1>2, <1>3, <1>7, <2>1 DEF Cached
  <2>2. CASE m # n
    <3>1. m \in DataNodes(g) /\ m \in DOMAIN g.nodes /\ h.nodes[m] = g.nodes[m]
      BY <1>3, <1>5, <2>2 DEF DataNodes
    <3>2. Cached(g, g.nodes[m].data) /\ m <= g.cache[g.nodes[m].data]
      BY <3>1 DEF Live
    <3>3. m <= n
      BY <1>1, <3>1
    <3> QED BY <1>2, <1>7, <3>1, <3>2, <3>3 DEF Cached
  <2> QED BY <2>1, <2>2
<1> QED BY <1>2, <1>3, <1>4, <1>5, <1>6, <1>7, <1>8, <1>9 DEF NewVersion, Cached

(* Its later versions.                                                     *)
LEMMA VersionsAfter ==
  ASSUME NEW g, IsGraph(g), Live(g), NEW h, NEW d, NewVersion(g, h, d)
  PROVE  /\ \A y, x : Later(h, y, x) =>
              Later(g, y, x) \/ (x = Len(g.nodes) + 1 /\ Cached(g, d) /\ h.nodes[y].data = d)
         /\ \A x : ~Later(h, Len(g.nodes) + 1, x)
<1> DEFINE n == Len(g.nodes) + 1
<1>1. Len(g.nodes) \in Nat /\ DOMAIN g.nodes = 1 .. Len(g.nodes)
  BY DEF IsGraph, Wired
<1>2. \A m \in DataNodes(g) : m \in DOMAIN g.nodes /\ m < n
  BY <1>1 DEF DataNodes
<1>3. \A m \in DataNodes(g) : h.nodes[m] = g.nodes[m]
  BY <1>2 DEF NewVersion, Kept
<1>4. DataNodes(h) = DataNodes(g) \cup {n} /\ h.nodes[n].data = d
  BY DEF NewVersion
<1> HIDE DEF n
<1>5. \A x : ~Later(h, n, x)
  <2> SUFFICES ASSUME NEW x, Later(h, n, x) PROVE FALSE
    OBVIOUS
  <2>1. x \in DataNodes(g) \cup {n} /\ n < x /\ n \in Nat
    BY <1>1, <1>4 DEF Later, n
  <2>2. x \in Nat
    BY <1>1, <1>2, <2>1
  <2> QED BY <1>2, <2>1, <2>2
<1>6. ASSUME NEW y, NEW x, Later(h, y, x)
      PROVE  Later(g, y, x) \/ (x = n /\ Cached(g, d) /\ h.nodes[y].data = d)
  <2>1. y \in DataNodes(g)
    BY <1>4, <1>5, <1>6 DEF Later
  <2>2. CASE x = n
    <3>1. g.nodes[y].data = d
      BY <1>3, <1>4, <1>6, <2>1, <2>2 DEF Later
    <3> QED BY <1>3, <2>1, <2>2, <3>1 DEF Live
  <2>3. CASE x # n
    <3>1. x \in DataNodes(g) /\ y < x /\ h.nodes[y].data = h.nodes[x].data
      BY <1>4, <1>6, <2>3 DEF Later
    <3> QED BY <1>3, <2>1, <3>1 DEF Later
  <2> QED BY <2>2, <2>3
<1> QED BY <1>5, <1>6 DEF n

(* acc of a container that is no view, the first time or again.            *)
Reached(g, h, d) ==
  (Cached(g, d) /\ h = g) \/ (~Cached(g, d) /\ NewVersion(g, h, d))
LEMMA TouchReaches ==
  ASSUME NEW U, NEW g \in Graphs(U), Live(g), NEW d
  PROVE  Reached(g, Touch(g, d), d)
<1> SUFFICES ASSUME ~Cached(g, d) PROVE NewVersion(g, Touch(g, d), d)
  BY DEF Touch, Reached
<1> DEFINE new == [kind |-> "access", data |-> d, stmt |-> NoStatement]
           k == AddNode(g, "access", d, NoStatement)
           c == Bind(g.cache, d, Len(g.nodes) + 1)
           h == Touch(g, d)
<1>1. IsGraph(g) /\ g.nodes \in Seq(Nodes(U)) /\ CacheOK(g)
  BY GraphsAreGraphs
<1>2. k = [nodes |-> Append(g.nodes, new), edges |-> g.edges, cache |-> g.cache,
           opened |-> g.opened, entry |-> g.entry]
  <2>1. k = [g EXCEPT !.nodes = Append(g.nodes, new)]
    BY DEF AddNode
  <2> HIDE DEF k, new
  <2> QED BY <1>1, <2>1, GraphField
<1> HIDE DEF new
<1>3. Len(k.nodes) = Len(g.nodes) + 1 /\ k.cache = g.cache
  BY <1>1, <1>2
<1> HIDE DEF k
<1>4. h = [k EXCEPT !.cache = c, !.opened = TRUE]
  <2>1. h = [k EXCEPT !.cache = Bind(k.cache, d, Len(k.nodes)), !.opened = TRUE]
    BY DEF Touch, k
  <2> HIDE DEF h
  <2> QED BY <1>3, <2>1
<1> HIDE DEF c, h
<1>5. h = [nodes |-> Append(g.nodes, new), edges |-> g.edges, cache |-> c,
           opened |-> TRUE, entry |-> g.entry]
  <2> DEFINE F == Append(g.nodes, new)
  <2> HIDE DEF F
  <2>1. k = [nodes |-> F, edges |-> g.edges, cache |-> g.cache, opened |-> g.opened,
             entry |-> g.entry]
    BY <1>2 DEF F
  <2>2. h = [nodes |-> F, edges |-> g.edges, cache |-> c, opened |-> TRUE, entry |-> g.entry]
    BY <1>4, <2>1
  <2> QED BY <2>2 DEF F
<1>6. h.nodes = Append(g.nodes, new) /\ h.edges = g.edges /\ h.cache = c /\ h.opened
      /\ h.entry = g.entry
  BY <1>5
<1> QED BY <1>1, <1>6, VersionAdded DEF new, c, h

(* A fresh sink beside one that is cached.                                 *)
LEMMA NewSinkReaches ==
  ASSUME NEW U, NEW g \in Graphs(U), Live(g), NEW d, DOMAIN g.cache # {}
  PROVE  NewVersion(g, NewSink(g, d), d)
<1> DEFINE new == [kind |-> "access", data |-> d, stmt |-> NoStatement]
           k == AddNode(g, "access", d, NoStatement)
           c == Bind(g.cache, d, Len(g.nodes) + 1)
           h == NewSink(g, d)
<1>1. IsGraph(g) /\ g.nodes \in Seq(Nodes(U)) /\ CacheOK(g) /\ g.opened
  BY GraphsAreGraphs DEF Live
<1>2. k = [nodes |-> Append(g.nodes, new), edges |-> g.edges, cache |-> g.cache,
           opened |-> g.opened, entry |-> g.entry]
  <2>1. k = [g EXCEPT !.nodes = Append(g.nodes, new)]
    BY DEF AddNode
  <2> HIDE DEF k, new
  <2> QED BY <1>1, <2>1, GraphField
<1> HIDE DEF new
<1>3. Len(k.nodes) = Len(g.nodes) + 1 /\ k.cache = g.cache /\ k.opened
  BY <1>1, <1>2
<1>4. h = [k EXCEPT !.cache = c]
  <2>1. h = [k EXCEPT !.cache = Bind(k.cache, d, Len(k.nodes))]
    BY <1>3 DEF NewSink
  <2> HIDE DEF h, k
  <2> QED BY <1>3, <2>1
<1> HIDE DEF c, h, k
<1>5. h = [nodes |-> Append(g.nodes, new), edges |-> g.edges, cache |-> c,
           opened |-> g.opened, entry |-> g.entry]
  BY <1>2, <1>4
<1>6. h.nodes = Append(g.nodes, new) /\ h.edges = g.edges /\ h.cache = c /\ h.opened
      /\ h.entry = g.entry
  BY <1>1, <1>5
<1> QED BY <1>1, <1>6, VersionAdded DEF new, c, h

(* What keeps a graph on the way keeps it all along.                       *)
LEMMA KeptOn ==
  ASSUME NEW g, IsGraph(g), NEW h, IsGraph(h), NEW k, IsGraph(k), Kept(g, h), Kept(h, k)
  PROVE  Kept(g, k) /\ DOMAIN g.nodes \subseteq DOMAIN h.nodes
<1>1. DOMAIN g.nodes = 1 .. Len(g.nodes) /\ DOMAIN h.nodes = 1 .. Len(h.nodes)
      /\ Len(g.nodes) \in Nat /\ Len(h.nodes) \in Nat /\ Len(k.nodes) \in Nat
  BY DEF IsGraph, Wired
<1>2. DOMAIN g.nodes \subseteq DOMAIN h.nodes
  BY <1>1 DEF Kept
<1> QED BY <1>1, <1>2 DEF Kept

(* Edges change neither the versions nor the cache.                        *)
LEMMA EdgesKeepVersions ==
  ASSUME NEW g, IsGraph(g), NEW E
  PROVE  LET h == AddEdges(g, E)
         IN  /\ Kept(g, h) /\ h.nodes = g.nodes /\ h.edges = g.edges \cup E
             /\ h.cache = g.cache /\ (Live(g) => Live(h))
             /\ DataNodes(h) = DataNodes(g) /\ CodeNodes(h) = CodeNodes(g)
             /\ \A y, x : Later(h, y, x) <=> Later(g, y, x)
<1> DEFINE h == AddEdges(g, E)
<1>1. h = [nodes |-> g.nodes, edges |-> g.edges \cup E, cache |-> g.cache,
           opened |-> g.opened, entry |-> g.entry]
  BY GraphField DEF AddEdges
<1>2. h.nodes = g.nodes /\ h.edges = g.edges \cup E /\ h.cache = g.cache /\ h.opened = g.opened
      /\ h.entry = g.entry
  BY <1>1
<1> HIDE DEF h
<1>3. DataNodes(h) = DataNodes(g)
  BY <1>2 DEF DataNodes
<1>4. CodeNodes(h) = CodeNodes(g)
  BY <1>2, <1>3 DEF CodeNodes
<1>5. \A y, x : Later(h, y, x) <=> Later(g, y, x)
  BY <1>2, <1>3 DEF Later
<1>6. Live(g) => Live(h)
  BY <1>2, <1>3 DEF Live, Cached
<1>7. Kept(g, h)
  <2>1. Len(g.nodes) <= Len(h.nodes)
    BY <1>2 DEF IsGraph, Wired
  <2> QED BY <1>2, <2>1 DEF Kept
<1> QED BY <1>2, <1>3, <1>4, <1>5, <1>6, <1>7 DEF h

(* Nor does a code node.                                                   *)
LEMMA CodeKeepsVersions ==
  ASSUME NEW U, NEW g \in Graphs(U), NEW kind \in {"tasklet", "library"}, NEW d \in U,
         NEW st \in U
  PROVE  LET h == AddNode(g, kind, d, st)
         IN  /\ Kept(g, h) /\ Gains(g, h, Len(g.nodes) + 1, st) /\ h.edges = g.edges
             /\ h.cache = g.cache /\ (Live(g) => Live(h)) /\ DataNodes(h) = DataNodes(g)
             /\ \A y, x : Later(h, y, x) => Later(g, y, x)
<1> DEFINE n == Len(g.nodes) + 1
           h == AddNode(g, kind, d, st)
<1>1. h \in Graphs(U) /\ NodeAdded(g, h, n, kind, d, st)
  BY AddNodeKeeps DEF Kinds
<1>2. h.entry = g.entry
  <2> DEFINE new == [kind |-> kind, data |-> d, stmt |-> st]
  <2>1. h = [g EXCEPT !.nodes = Append(g.nodes, new)]
    BY DEF AddNode
  <2> HIDE DEF new, h
  <2> QED BY <2>1, GraphsAreGraphs, GraphField
<1>3. /\ Len(g.nodes) \in Nat /\ DOMAIN g.nodes = 1 .. Len(g.nodes)
      /\ DOMAIN h.nodes = 1 .. Len(h.nodes)
  BY <1>1, GraphsAreGraphs
<1> HIDE DEF h
<1>4. DOMAIN h.nodes = DOMAIN g.nodes \cup {n} /\ n \notin DOMAIN g.nodes
      /\ \A m \in DOMAIN g.nodes : h.nodes[m] = g.nodes[m]
  BY <1>1, <1>3 DEF NodeAdded, Continues
<1>5. h.nodes[n].kind # "access" /\ h.nodes[n].stmt = st /\ h.edges = g.edges
      /\ h.cache = g.cache /\ h.opened = g.opened /\ Len(g.nodes) <= Len(h.nodes)
  BY <1>1, <1>3 DEF NodeAdded
<1> HIDE DEF n
<1>6. DataNodes(h) = DataNodes(g)
  BY <1>4, <1>5 DEF DataNodes
<1>7. CodeNodes(h) = CodeNodes(g) \cup {n}
  BY <1>4, <1>5 DEF DataNodes, CodeNodes
<1>8. \A m \in DataNodes(g) : h.nodes[m] = g.nodes[m]
  BY <1>4 DEF DataNodes
<1>9. Live(g) => Live(h)
  BY <1>5, <1>6, <1>8 DEF Live, Cached
<1>10. \A y, x : Later(h, y, x) => Later(g, y, x)
  BY <1>6, <1>8 DEF Later
<1>11. Kept(g, h)
  BY <1>2, <1>4, <1>5 DEF Kept
<1> QED BY <1>4, <1>5, <1>6, <1>7, <1>9, <1>10, <1>11 DEF Gains, n, h

(* A statement under way: h is g with code node t, wired to the live sinks *)
(* of the names R it reads; no container has got a second version.         *)
ReadEdges(g, h, t, R) ==
  /\ \A e \in h.edges \ g.edges :
       \E d \in R : Cached(h, Resolve(d)) /\ e = <<h.cache[Resolve(d)], t, "read">>
  /\ \A d \in R : Cached(h, Resolve(d)) /\ Edge(h, h.cache[Resolve(d)], t)
Reading(g, h, t, st, R) ==
  /\ Kept(g, h) /\ Gains(g, h, t, st) /\ Live(h) /\ ReadEdges(g, h, t, R)
  /\ \A y, x : Later(h, y, x) => x \in DOMAIN g.nodes

LEMMA WireReadReads ==
  ASSUME NEW U, Universe(U), NEW g \in Graphs(U), NEW h \in Graphs(U), NEW t, NEW st, NEW R,
         Reading(g, h, t, st, R), NEW d \in U, Resolve(d) \notin Views
  PROVE  Reading(g, WireRead(h, d, t), t, st, R \cup {d})
<1> DEFINE r == Resolve(d)
           k == Touch(h, r)
           a == k.cache[r]
           m == AddEdges(k, {<<a, t, "read">>})
<1>1. r \in U /\ Resolve(r) = r
  BY ResolveInUniverse
<1>2. WireRead(h, d, t) = m
  BY <1>1 DEF WireRead, Acc, AddEdges
<1>3. k \in Graphs(U) /\ Reached(h, k, r)
  BY <1>1, TouchKeeps, TouchReaches DEF Reading
<1> HIDE DEF k, r, m
<1>4. IsGraph(g) /\ IsGraph(h) /\ IsGraph(k)
  BY <1>3, GraphsAreGraphs
<1>5. /\ Kept(h, k) /\ k.edges = h.edges /\ Live(k) /\ CodeNodes(k) = CodeNodes(h)
      /\ Cached(k, r) /\ \A x \in DOMAIN h.cache : Cached(k, x) /\ k.cache[x] = h.cache[x]
  <2>1. CASE Cached(h, r) /\ k = h
    <3>1. Len(h.nodes) <= Len(h.nodes)
      BY <1>4 DEF IsGraph, Wired
    <3> QED BY <2>1, <3>1 DEF Reading, Kept, Cached
  <2>2. CASE ~Cached(h, r) /\ NewVersion(h, k, r)
    BY <2>2 DEF NewVersion, Cached
  <2> QED BY <1>3, <2>1, <2>2 DEF Reached
<1>6. \A y, x : Later(k, y, x) => Later(h, y, x)
  <2>1. CASE k = h
    BY <2>1
  <2>2. CASE ~Cached(h, r) /\ NewVersion(h, k, r)
    BY <1>4, <2>2, VersionsAfter DEF Reading
  <2> QED BY <1>3, <2>1, <2>2 DEF Reached
<1>7. /\ Kept(k, m) /\ m.nodes = k.nodes /\ m.edges = k.edges \cup {<<a, t, "read">>}
      /\ m.cache = k.cache /\ Live(m) /\ CodeNodes(m) = CodeNodes(k)
      /\ \A y, x : Later(m, y, x) <=> Later(k, y, x)
  BY <1>4, <1>5, EdgesKeepVersions DEF m
<1>8. Kept(g, k) /\ DOMAIN g.nodes \subseteq DOMAIN h.nodes
  BY <1>4, <1>5, KeptOn DEF Reading
<1>9. Kept(g, m)
  BY <1>7, <1>8 DEF Kept
<1>10. Gains(g, m, t, st)
  <2>1. t \in DOMAIN h.nodes
    BY DEF Reading, Gains, CodeNodes
  <2>2. m.nodes[t] = h.nodes[t]
    BY <1>5, <1>7, <2>1 DEF Kept
  <2> QED BY <1>5, <1>7, <2>2 DEF Reading, Gains
<1>11. \A y, x : Later(m, y, x) => x \in DOMAIN g.nodes
  BY <1>6, <1>7 DEF Reading
<1>12. \A x \in DOMAIN h.cache : Cached(m, x) /\ m.cache[x] = h.cache[x]
  BY <1>5, <1>7 DEF Cached
<1>13. Cached(m, Resolve(d)) /\ m.cache[Resolve(d)] = a
  BY <1>5, <1>7 DEF Cached, r
<1> HIDE DEF a
<1>14. ASSUME NEW e \in m.edges \ g.edges
       PROVE  \E b \in R \cup {d} : Cached(m, Resolve(b)) /\ e = <<m.cache[Resolve(b)], t, "read">>
  <2>1. CASE e \in h.edges
    <3>1. PICK b \in R : Cached(h, Resolve(b)) /\ e = <<h.cache[Resolve(b)], t, "read">>
      BY <1>14, <2>1 DEF Reading, ReadEdges
    <3>2. Cached(m, Resolve(b)) /\ m.cache[Resolve(b)] = h.cache[Resolve(b)]
      BY <1>12, <3>1 DEF Cached
    <3> QED BY <3>1, <3>2
  <2>2. CASE e \notin h.edges
    <3>1. e = <<a, t, "read">>
      BY <1>5, <1>7, <2>2
    <3> QED BY <1>13, <3>1
  <2> QED BY <2>1, <2>2
<1>15. ASSUME NEW b \in R \cup {d}
       PROVE  Cached(m, Resolve(b)) /\ Edge(m, m.cache[Resolve(b)], t)
  <2>1. CASE b \in R
    <3>1. Cached(h, Resolve(b)) /\ Edge(h, h.cache[Resolve(b)], t)
      BY <2>1 DEF Reading, ReadEdges
    <3>2. Cached(m, Resolve(b)) /\ m.cache[Resolve(b)] = h.cache[Resolve(b)]
      BY <1>12, <3>1 DEF Cached
    <3> QED BY <1>5, <1>7, <3>1, <3>2 DEF Edge
  <2>2. CASE b = d
    <3> DEFINE e == <<a, t, "read">>
    <3>1. e \in m.edges /\ e[1] = a /\ e[2] = t
      BY <1>7
    <3> HIDE DEF e
    <3>2. Edge(m, a, t)
      BY <3>1 DEF Edge
    <3> QED BY <1>13, <2>2, <3>2
  <2> QED BY <2>1, <2>2
<1>16. ReadEdges(g, m, t, R \cup {d})
  BY <1>14, <1>15 DEF ReadEdges
<1> QED BY <1>2, <1>7, <1>9, <1>10, <1>11, <1>16 DEF Reading

(* All reads of a statement that reads no view.                            *)
LEMMA WireReadsReads ==
  ASSUME NEW U, Universe(U), NEW g \in Graphs(U), Live(g), NEW st, Statement(U, st),
         NEW kind \in {"tasklet", "library"}, NEW d \in U,
         \A x \in ReadNames(st) : Resolve(x) \notin Views
  PROVE  LET t == Len(g.nodes) + 1
             h == WireReads(AddNode(g, kind, d, st), st, t)
         IN  h \in Graphs(U) /\ Reading(g, h, t, st, ReadNames(st))
<1> DEFINE t == Len(g.nodes) + 1
           k == AddNode(g, kind, d, st)
           h == WireReads(k, st, t)
           R == ReadNames(st)
<1>1. k \in Graphs(U) /\ NodeAdded(g, k, t, kind, d, st)
  BY AddNodeKeeps DEF Statement, Kinds
<1>2. Reading(g, k, t, st, {})
  <2>1. st \in U
    BY DEF Statement
  <2>2. /\ Kept(g, k) /\ Gains(g, k, t, st) /\ k.edges = g.edges /\ Live(k)
        /\ \A y, x : Later(k, y, x) => Later(g, y, x)
    BY <2>1, CodeKeepsVersions
  <2> HIDE DEF k, t
  <2>3. \A y, x : Later(g, y, x) => x \in DOMAIN g.nodes
    BY DEF Later, DataNodes
  <2> QED BY <2>2, <2>3 DEF Reading, ReadEdges
<1> HIDE DEF k, t
<1>3. t \in CodeNodes(k) /\ Sink(k, t)
  BY <1>1 DEF NodeAdded, CodeNodes, DataNodes, Sink
<1>4. DOMAIN k.cache \subseteq U /\ Caching(U, R) /\ IsFiniteSet(R) /\ R \subseteq U
  BY <1>1, CachedNames, CachingAll DEF Statement
<1>5. PICK S, seq, F : ReadsFold(k, st, t, S, seq, F)
  BY <1>1, <1>3, <1>4, WireReadsFold
<1> HIDE DEF R
<1> DEFINE part(s) == {seq[i] : i \in s}
           Q == {s \in SUBSET S : F[s] \in Wirings(U, k, t, U) /\ Reading(g, F[s], t, st, part(s))}
<1>6. {} \in Q
  <2>1. F[{}] = k /\ part({}) = {}
    BY <1>5 DEF ReadsFold
  <2>2. k \in Wirings(U, k, t, U)
    BY <1>1, <1>3, <1>4, ContinuesItself DEF Wirings
  <2> QED BY <1>2, <2>1, <2>2
<1>7. ASSUME NEW s \in SUBSET S, s # {}
      PROVE  \E i \in s : s \ {i} \in Q => s \in Q
  <2>1. PICK i \in s : F[s] = WireRead(F[s \ {i}], seq[i], t)
    BY <1>5, <1>7 DEF ReadsFold
  <2>2. SUFFICES ASSUME s \ {i} \in Q
                 PROVE  F[s] \in Wirings(U, k, t, U) /\ Reading(g, F[s], t, st, part(s))
    OBVIOUS
  <2>3. seq[i] \in R
    BY <1>5 DEF ReadsFold, R
  <2>4. seq[i] \in U /\ Resolve(seq[i]) \notin Views
        /\ Resolve(seq[i]) \in U /\ (Resolve(seq[i]) \in Views => SourceOf[Resolve(seq[i])] \in U)
    BY <1>4, <2>3 DEF Caching, R
  <2>5. part(s) = part(s \ {i}) \cup {seq[i]}
    OBVIOUS
  <2>6. F[s \ {i}] \in Wirings(U, k, t, U) /\ Reading(g, F[s \ {i}], t, st, part(s \ {i}))
    BY <2>2
  <2> HIDE DEF part
  <2>7. F[s] \in Wirings(U, k, t, U)
    BY <1>1, <1>3, <2>1, <2>4, <2>6, WireReadKeeps
  <2>8. F[s \ {i}] \in Graphs(U)
    BY <2>6 DEF Wirings
  <2>9. Reading(g, WireRead(F[s \ {i}], seq[i], t), t, st, part(s \ {i}) \cup {seq[i]})
    BY <2>4, <2>6, <2>8, WireReadReads
  <2>10. Reading(g, F[s], t, st, part(s))
    BY <2>1, <2>5, <2>9
  <2> QED BY <2>7, <2>10
<1>8. S \in Q
  <2> HIDE DEF Q
  <2> QED BY <1>5, <1>6, <1>7, ElementByElement DEF ReadsFold
<1>9. part(S) = R
  BY <1>5 DEF ReadsFold, R
<1>10. h = F[S]
  BY <1>5 DEF ReadsFold
<1> HIDE DEF h, part
<1>11. h \in Graphs(U) /\ Reading(g, h, t, st, R)
  BY <1>8, <1>9, <1>10 DEF Wirings
<1> QED BY <1>11 DEF h, k, t, R

(* A live sink is the newest node of its container.                        *)
LEMMA NewestSink ==
  ASSUME NEW U, NEW w \in Graphs(U), Live(w), NEW c, Cached(w, c)
  PROVE  /\ w.cache[c] \in DataNodes(w) /\ w.nodes[w.cache[c]].data = c
         /\ \A n : ~Later(w, w.cache[c], n)
<1>1. CacheOK(w) /\ IsGraph(w)
  BY GraphsAreGraphs
<1>2. w.cache[c] \in DataNodes(w) /\ w.nodes[w.cache[c]].data = c
  BY <1>1 DEF CacheOK, Points, Cached, DataNodes
<1>3. ASSUME NEW n, Later(w, w.cache[c], n) PROVE FALSE
  <2>1. n \in DataNodes(w) /\ w.nodes[n].data = c /\ w.cache[c] < n
    BY <1>2, <1>3 DEF Later
  <2>2. n <= w.cache[c]
    BY <2>1 DEF Live
  <2>3. n \in Nat /\ w.cache[c] \in Nat
    BY <1>1, <1>2, <2>1, NodesOfGraph
  <2> QED BY <2>1, <2>2, <2>3
<1> QED BY <1>2, <1>3

(* The statement stores into a fresh sink ...                              *)
LEMMA StoreFreshEmits ==
  ASSUME NEW U, Universe(U), NEW g \in Graphs(U), NEW w \in Graphs(U), NEW t, NEW st,
         Statement(U, st), Reading(g, w, t, st, ReadNames(st)),
         Resolve(st.target[1]) \notin Views, DOMAIN w.cache # {},
         NEW l \in {st.target[2], "all"}
  PROVE  LET h == StoreFresh(w, Resolve(st.target[1]), t, l)
         IN  h \in Graphs(U) /\ Live(h) /\ Emitted(g, h, t, Len(w.nodes) + 1, st)
<1> DEFINE r == Resolve(st.target[1])
           m == Len(w.nodes) + 1
           k == NewSink(w, r)
           e == <<t, m, l>>
           h == AddEdges(k, {e})
           H == StoreFresh(w, r, t, l)
<1>1. r \in U /\ l \in U
  BY ResolveInUniverse DEF Statement, Universe
<1>2. H = h
  BY DEF StoreFresh, WriteBack
<1>3. t \in DOMAIN w.nodes /\ t \in CodeNodes(w) /\ t \notin DOMAIN g.nodes
  BY DEF Reading, Gains, CodeNodes
<1>4. H \in Graphs(U)
  BY <1>1, <1>3, StoreFreshKeeps
<1> HIDE DEF H
<1>5. k \in Graphs(U) /\ NewVersion(w, k, r)
  BY <1>1, NewSinkKeeps, NewSinkReaches DEF Reading
<1>6. IsGraph(g) /\ IsGraph(w) /\ IsGraph(k) /\ Live(w) /\ IsGraph(h)
  <2>1. IsGraph(h)
    <3>1. IsGraph(H)
      BY <1>4, GraphsAreGraphs
    <3> QED BY <1>2, <3>1
  <2> HIDE DEF h, k
  <2>2. IsGraph(g) /\ IsGraph(w) /\ IsGraph(k)
    BY <1>5, GraphsAreGraphs
  <2>3. Live(w)
    BY DEF Reading
  <2> QED BY <2>1, <2>2, <2>3
<1>7. m \notin DOMAIN w.nodes /\ DataNodes(k) = DataNodes(w) \cup {m} /\ k.nodes[m].data = r
      /\ CodeNodes(k) = CodeNodes(w) /\ k.edges = w.edges /\ Kept(w, k) /\ Live(k)
  BY <1>5 DEF NewVersion
<1>8. /\ \A y, x : Later(k, y, x) => Later(w, y, x) \/ x = m
      /\ \A x : ~Later(k, m, x)
  <2> HIDE DEF k, r
  <2> QED BY <1>5, <1>6, VersionsAfter
<1> HIDE DEF k, m, r
<1>9. /\ Kept(k, h) /\ h.nodes = k.nodes /\ h.edges = w.edges \cup {e} /\ Live(h)
      /\ DataNodes(h) = DataNodes(w) \cup {m} /\ CodeNodes(h) = CodeNodes(w)
      /\ \A y, x : Later(h, y, x) <=> Later(k, y, x)
  BY <1>6, <1>7, EdgesKeepVersions
<1>10. e \in h.edges /\ e[1] = t /\ e[2] = m /\ e[3] = l
  BY <1>9
<1> HIDE DEF e, h
<1>11. Kept(g, h) /\ DOMAIN g.nodes \subseteq DOMAIN w.nodes
  <2>1. Kept(g, k) /\ DOMAIN g.nodes \subseteq DOMAIN w.nodes
    BY <1>6, <1>7, KeptOn DEF Reading
  <2> QED BY <1>6, <1>9, <2>1, KeptOn
<1>12. \A n \in DOMAIN w.nodes : h.nodes[n] = w.nodes[n]
  BY <1>7, <1>9 DEF Kept
<1>13. Gains(g, h, t, st)
  BY <1>3, <1>9, <1>12 DEF Reading, Gains
<1>14. \A x \in w.edges : x[1] \in DOMAIN w.nodes
  BY <1>6 DEF IsGraph, Wired
<1>15. StoredIn(h, st, m)
  <2>1. t # m
    BY <1>3, <1>7
  <2>2. \A x \in h.edges : x[1] # m
    BY <1>7, <1>9, <1>10, <1>14, <2>1
  <2> QED BY <1>7, <1>8, <1>9, <2>2 DEF StoredIn, r
<1>16. \A d \in ReadNames(st) :
         LET n == w.cache[Resolve(d)]
         IN  /\ n \in DataNodes(h) /\ h.nodes[n].data = Resolve(d) /\ Edge(h, n, t)
             /\ \A x : ~Later(w, n, x)
  <2> SUFFICES ASSUME NEW d \in ReadNames(st)
               PROVE  LET n == w.cache[Resolve(d)]
                      IN  /\ n \in DataNodes(h) /\ h.nodes[n].data = Resolve(d) /\ Edge(h, n, t)
                          /\ \A x : ~Later(w, n, x)
    OBVIOUS
  <2> DEFINE n == w.cache[Resolve(d)]
  <2>1. Cached(w, Resolve(d)) /\ Edge(w, n, t)
    BY DEF Reading, ReadEdges
  <2>2. n \in DataNodes(w) /\ w.nodes[n].data = Resolve(d) /\ \A x : ~Later(w, n, x)
    BY <1>6, <2>1, NewestSink
  <2> HIDE DEF n
  <2>3. n \in DataNodes(h) /\ h.nodes[n].data = Resolve(d)
    BY <1>9, <1>12, <2>2 DEF DataNodes
  <2>4. Edge(h, n, t)
    BY <1>9, <2>1 DEF Edge
  <2> QED BY <2>2, <2>3, <2>4 DEF n
<1>17. EdgesOf(g, h, t, m, st)
  <2> SUFFICES ASSUME NEW x \in h.edges \ g.edges
               PROVE  \/ x[1] = t /\ x[2] = m /\ x[3] \in {st.target[2], "all"} /\ StoredIn(h, st, m)
                      \/ /\ x[1] \in DataNodes(h) /\ x[2] = t /\ x[3] = "read"
                         /\ \A n : Later(h, x[1], n) => n = m /\ m \notin DOMAIN g.nodes
    BY DEF EdgesOf
  <2>1. CASE x = e
    BY <1>10, <1>15, <2>1
  <2>2. CASE x # e
    <3>1. x \in w.edges \ g.edges
      BY <1>9, <2>2
    <3>2. PICK d \in ReadNames(st) : x = <<w.cache[Resolve(d)], t, "read">>
      BY <3>1 DEF Reading, ReadEdges
    <3> DEFINE n == w.cache[Resolve(d)]
    <3>3. n \in DataNodes(h) /\ \A z : ~Later(w, n, z)
      BY <1>16
    <3>4. x[1] = n /\ x[2] = t /\ x[3] = "read"
      BY <3>2
    <3> HIDE DEF n
    <3>5. \A z : Later(h, n, z) => z = m
      BY <1>8, <1>9, <3>3
    <3>6. m \notin DOMAIN g.nodes
      BY <1>7, <1>11
    <3> QED BY <3>3, <3>4, <3>5, <3>6
  <2> QED BY <2>1, <2>2
<1>18. VersionsOf(g, h, t, m)
  <2>1. Edge(h, t, m)
    BY <1>10 DEF Edge
  <2>2. \A y, x : Later(h, y, x) => x \in DOMAIN g.nodes \/ x = m
    BY <1>8, <1>9 DEF Reading
  <2> QED BY <2>1, <2>2 DEF VersionsOf
<1>19. ReadWired(h, t, st)
  BY <1>16 DEF ReadWired
<1>20. StoreWired(h, t, st)
  BY <1>10, <1>15 DEF StoreWired, StoredIn
<1>21. Emitted(g, h, t, m, st)
  BY <1>11, <1>13, <1>17, <1>18, <1>19, <1>20 DEF Emitted
<1>22. H \in Graphs(U) /\ Live(H) /\ Emitted(g, H, t, m, st)
  BY <1>2, <1>4, <1>9, <1>21
<1> QED BY <1>22 DEF H, m, r

(* ... or into the live one when nothing has read it.                      *)
LEMMA StoreLiveEmits ==
  ASSUME NEW U, Universe(U), NEW g \in Graphs(U), NEW w \in Graphs(U), NEW t, NEW st,
         Statement(U, st), Reading(g, w, t, st, ReadNames(st)),
         Resolve(st.target[1]) \notin Views, ~HasReaders(w, Resolve(st.target[1])),
         NEW l \in {st.target[2], "all"}
  PROVE  LET h == StoreLive(w, Resolve(st.target[1]), t, l)
         IN  h \in Graphs(U) /\ Live(h) /\ \E m : Emitted(g, h, t, m, st)
<1> DEFINE r == Resolve(st.target[1])
           k == Touch(w, r)
           m == k.cache[r]
           e == <<t, m, l>>
           h == AddEdges(k, {e})
           H == StoreLive(w, r, t, l)
<1>1. r \in U /\ l \in U /\ Resolve(r) = r
  BY ResolveInUniverse DEF Statement, Universe
<1>2. H = h
  BY <1>1 DEF StoreLive, IntoLive, Acc
<1>3. t \in DOMAIN w.nodes /\ t \in CodeNodes(w) /\ t \notin DOMAIN g.nodes
  BY DEF Reading, Gains, CodeNodes
<1>4. H \in Graphs(U)
  BY <1>1, <1>3, StoreLiveKeeps
<1> HIDE DEF H
<1>5. k \in Graphs(U) /\ Reached(w, k, r)
  BY <1>1, TouchKeeps, TouchReaches DEF Reading
<1>6. IsGraph(g) /\ IsGraph(w) /\ IsGraph(k) /\ Live(w) /\ IsGraph(h)
  <2>1. IsGraph(h)
    <3>1. IsGraph(H)
      BY <1>4, GraphsAreGraphs
    <3> QED BY <1>2, <3>1
  <2> HIDE DEF h, k
  <2>2. IsGraph(g) /\ IsGraph(w) /\ IsGraph(k)
    BY <1>5, GraphsAreGraphs
  <2>3. Live(w)
    BY DEF Reading
  <2> QED BY <2>1, <2>2, <2>3
<1> HIDE DEF k, r
<1>7. /\ Kept(w, k) /\ k.edges = w.edges /\ Live(k) /\ CodeNodes(k) = CodeNodes(w)
      /\ Cached(k, r)
  <2>1. CASE Cached(w, r) /\ k = w
    <3>1. Len(w.nodes) <= Len(w.nodes)
      BY <1>6 DEF IsGraph, Wired
    <3> QED BY <1>6, <2>1, <3>1 DEF Kept
  <2>2. CASE ~Cached(w, r) /\ NewVersion(w, k, r)
    BY <2>2 DEF NewVersion
  <2> QED BY <1>5, <2>1, <2>2 DEF Reached
<1>8. \A y, x : Later(k, y, x) => Later(w, y, x)
  <2>1. CASE ~Cached(w, r) /\ NewVersion(w, k, r)
    BY <1>6, <2>1, VersionsAfter
  <2> QED BY <1>5, <2>1 DEF Reached
<1>9. m \in DataNodes(k) /\ k.nodes[m].data = r /\ \A n : ~Later(k, m, n)
  BY <1>5, <1>7, NewestSink
<1>10. \A x \in w.edges : x[1] # m
  <2>1. CASE Cached(w, r) /\ k = w
    BY <2>1 DEF HasReaders, r
  <2>2. CASE ~Cached(w, r) /\ NewVersion(w, k, r)
    <3>1. m \notin DOMAIN w.nodes
      BY <2>2 DEF NewVersion
    <3> QED BY <1>6, <3>1 DEF IsGraph, Wired
  <2> QED BY <1>5, <2>1, <2>2 DEF Reached
<1> HIDE DEF m
<1>11. /\ Kept(k, h) /\ h.nodes = k.nodes /\ h.edges = w.edges \cup {e} /\ Live(h)
       /\ DataNodes(h) = DataNodes(k) /\ CodeNodes(h) = CodeNodes(w)
       /\ \A y, x : Later(h, y, x) <=> Later(k, y, x)
  BY <1>6, <1>7, EdgesKeepVersions
<1>12. e \in h.edges /\ e[1] = t /\ e[2] = m /\ e[3] = l
  BY <1>11
<1> HIDE DEF e, h
<1>13. Kept(g, h) /\ Kept(w, h) /\ DOMAIN w.nodes \subseteq DOMAIN k.nodes
  <2>1. Kept(g, k) /\ Kept(w, h)
    BY <1>6, <1>7, <1>11, KeptOn DEF Reading
  <2>2. DOMAIN w.nodes \subseteq DOMAIN k.nodes
    BY <1>6, <1>7, <1>11, KeptOn
  <2> QED BY <1>6, <1>11, <2>1, <2>2, KeptOn
<1>14. \A n \in DOMAIN w.nodes : h.nodes[n] = w.nodes[n]
  BY <1>13 DEF Kept
<1>15. Gains(g, h, t, st)
  BY <1>3, <1>11, <1>14 DEF Reading, Gains
<1>16. StoredIn(h, st, m)
  <2>1. t # m
    BY <1>3, <1>6, <1>7, <1>9, NodesOfGraph
  <2>2. \A x \in h.edges : x[1] # m
    BY <1>10, <1>11, <1>12, <2>1
  <2> QED BY <1>9, <1>11, <2>2 DEF StoredIn, r
<1>17. \A d \in ReadNames(st) :
         LET n == w.cache[Resolve(d)]
         IN  /\ n \in DataNodes(h) /\ h.nodes[n].data = Resolve(d) /\ Edge(h, n, t)
             /\ \A x : ~Later(w, n, x)
  <2> SUFFICES ASSUME NEW d \in ReadNames(st)
               PROVE  LET n == w.cache[Resolve(d)]
                      IN  /\ n \in DataNodes(h) /\ h.nodes[n].data = Resolve(d) /\ Edge(h, n, t)
                          /\ \A x : ~Later(w, n, x)
    OBVIOUS
  <2> DEFINE n == w.cache[Resolve(d)]
  <2>1. Cached(w, Resolve(d)) /\ Edge(w, n, t)
    BY DEF Reading, ReadEdges
  <2>2. n \in DataNodes(w) /\ w.nodes[n].data = Resolve(d) /\ \A x : ~Later(w, n, x)
    BY <1>6, <2>1, NewestSink
  <2> HIDE DEF n
  <2>3. n \in DataNodes(h) /\ h.nodes[n].data = Resolve(d)
    BY <1>11, <1>13, <1>14, <2>2 DEF DataNodes
  <2>4. Edge(h, n, t)
    BY <1>11, <2>1 DEF Edge
  <2> QED BY <2>2, <2>3, <2>4 DEF n
<1>18. EdgesOf(g, h, t, m, st)
  <2> SUFFICES ASSUME NEW x \in h.edges \ g.edges
               PROVE  \/ x[1] = t /\ x[2] = m /\ x[3] \in {st.target[2], "all"} /\ StoredIn(h, st, m)
                      \/ /\ x[1] \in DataNodes(h) /\ x[2] = t /\ x[3] = "read"
                         /\ \A n : Later(h, x[1], n) => n = m /\ m \notin DOMAIN g.nodes
    BY DEF EdgesOf
  <2>1. CASE x = e
    BY <1>12, <1>16, <2>1
  <2>2. CASE x # e
    <3>1. x \in w.edges \ g.edges
      BY <1>11, <2>2
    <3>2. PICK d \in ReadNames(st) : x = <<w.cache[Resolve(d)], t, "read">>
      BY <3>1 DEF Reading, ReadEdges
    <3> DEFINE n == w.cache[Resolve(d)]
    <3>3. n \in DataNodes(h) /\ \A z : ~Later(w, n, z)
      BY <1>17
    <3>4. x[1] = n /\ x[2] = t /\ x[3] = "read"
      BY <3>2
    <3> HIDE DEF n
    <3>5. \A z : ~Later(h, n, z)
      BY <1>8, <1>11, <3>3
    <3> QED BY <3>3, <3>4, <3>5
  <2> QED BY <2>1, <2>2
<1>19. VersionsOf(g, h, t, m)
  BY <1>8, <1>11 DEF Reading, VersionsOf
<1>20. ReadWired(h, t, st)
  BY <1>17 DEF ReadWired
<1>21. StoreWired(h, t, st)
  BY <1>12, <1>16 DEF StoreWired, StoredIn
<1>22. Emitted(g, h, t, m, st)
  BY <1>13, <1>15, <1>18, <1>19, <1>20, <1>21 DEF Emitted
<1>23. H \in Graphs(U) /\ Live(H) /\ Emitted(g, H, t, m, st)
  BY <1>2, <1>4, <1>11, <1>22
<1> QED BY <1>23 DEF H, r

(* A statement over containers without views has been added.               *)
Plain(st) ==
  /\ Resolve(st.target[1]) \notin Views /\ st.target[2] # "order"
  /\ \A d \in ReadNames(st) : Resolve(d) \notin Views
Grows(g, h, st) == Tidy(h) /\ Kept(g, h) /\ \E t : Gains(g, h, t, st)

LEMMA EmittedGrows ==
  ASSUME NEW U, NEW g \in Graphs(U), Tidy(g), NEW h \in Graphs(U), Live(h), NEW t, NEW m,
         NEW st, Plain(st), Emitted(g, h, t, m, st)
  PROVE  Grows(g, h, st)
<1>1. IsGraph(g) /\ IsGraph(h) /\ Versioned(g) /\ Complete(g)
  BY GraphsAreGraphs DEF Tidy
<1>2. Versioned(h)
  BY <1>1, EmittedVersions DEF Plain
<1>3. Complete(h)
  BY <1>1, EmittedComplete
<1> QED BY <1>2, <1>3 DEF Grows, Tidy, Emitted

(* emit_tasklet.                                                           *)
LEMMA EmitTaskletGrows ==
  ASSUME NEW U, Universe(U), NEW g \in Graphs(U), Tidy(g), NEW st, Statement(U, st), Plain(st)
  PROVE  EmitTasklet(g, st) \in Graphs(U) /\ Grows(g, EmitTasklet(g, st), st)
<1> DEFINE t == Len(g.nodes) + 1
           d == Resolve(st.target[1])
           l == st.target[2]
           w == WireReads(AddNode(g, "tasklet", d, st), st, t)
           h == EmitTasklet(g, st)
<1>1. d \in U /\ Resolve(d) = d /\ Live(g) /\ d \notin Views /\ l \in {l, "all"}
  BY ResolveInUniverse DEF Statement, Tidy, Plain
<1>2. w \in Graphs(U) /\ Reading(g, w, t, st, ReadNames(st))
  BY <1>1, WireReadsReads DEF Plain
<1>3. h = IF NeedsFreshSink(w, st) THEN StoreFresh(w, d, t, l) ELSE StoreLive(w, d, t, l)
  BY DEF EmitTasklet, StoreTarget
<1> HIDE DEF w, t, h
<1>4. Live(h) /\ h \in Graphs(U) /\ \E m : Emitted(g, h, t, m, st)
  <2>1. CASE NeedsFreshSink(w, st)
    <3>1. DOMAIN w.cache # {}
      <4>1. {st.target[1], d} \cap ReadNames(st) # {} => Cached(w, d)
        BY <1>1, <1>2 DEF Reading, ReadEdges
      <4> QED BY <1>1, <2>1, <4>1 DEF NeedsFreshSink, HasReaders, Cached
    <3>2. LET k == StoreFresh(w, d, t, l)
          IN  k \in Graphs(U) /\ Live(k) /\ Emitted(g, k, t, Len(w.nodes) + 1, st)
      BY <1>1, <1>2, <3>1, StoreFreshEmits
    <3> QED BY <1>3, <2>1, <3>2
  <2>2. CASE ~NeedsFreshSink(w, st)
    <3>1. ~HasReaders(w, d)
      BY <2>2 DEF NeedsFreshSink
    <3>2. LET k == StoreLive(w, d, t, l)
          IN  k \in Graphs(U) /\ Live(k) /\ \E m : Emitted(g, k, t, m, st)
      BY <1>1, <1>2, <3>1, StoreLiveEmits
    <3> QED BY <1>3, <2>2, <3>2
  <2> QED BY <2>1, <2>2
<1>5. Grows(g, h, st)
  BY <1>4, EmittedGrows
<1> QED BY <1>4, <1>5 DEF h

(* A fill of a container the state does not hold yet.                      *)
LEMMA AddFillGrows ==
  ASSUME NEW U, Universe(U), NEW g \in Graphs(U), Tidy(g), NEW st, Statement(U, st), Plain(st),
         ReadNames(st) = {}, ~Cached(g, Resolve(st.target[1]))
  PROVE  AddFill(g, st) \in Graphs(U) /\ Grows(g, AddFill(g, st), st)
<1> DEFINE t == Len(g.nodes) + 1
           d == Resolve(st.target[1])
           w == AddNode(g, "library", d, st)
           h == AddFill(g, st)
<1>1. d \in U /\ Live(g) /\ d \notin Views /\ st \in U
  BY ResolveInUniverse DEF Statement, Tidy, Plain
<1>2. h = StoreLive(w, d, t, "all")
  BY <1>1 DEF AddFill
<1>3. w \in Graphs(U)
  BY <1>1, AddNodeKeeps DEF Kinds
<1>4. /\ Kept(g, w) /\ Gains(g, w, t, st) /\ w.edges = g.edges /\ w.cache = g.cache /\ Live(w)
      /\ \A y, x : Later(w, y, x) => Later(g, y, x)
  BY <1>1, CodeKeepsVersions
<1> HIDE DEF w, t, d, h
<1>5. Reading(g, w, t, st, ReadNames(st))
  <2>1. \A y, x : Later(g, y, x) => x \in DOMAIN g.nodes
    BY DEF Later, DataNodes
  <2> QED BY <1>4, <2>1 DEF Reading, ReadEdges
<1>6. ~HasReaders(w, Resolve(st.target[1]))
  BY <1>4 DEF HasReaders, Cached
<1>7. LET k == StoreLive(w, d, t, "all")
      IN  k \in Graphs(U) /\ Live(k) /\ \E m : Emitted(g, k, t, m, st)
  <2>1. "all" \in {st.target[2], "all"}
    OBVIOUS
  <2> QED BY <1>1, <1>3, <1>5, <1>6, <2>1, StoreLiveEmits DEF d
<1>8. Live(h) /\ h \in Graphs(U) /\ \E m : Emitted(g, h, t, m, st)
  BY <1>2, <1>7
<1>9. Grows(g, h, st)
  BY <1>8, EmittedGrows
<1> QED BY <1>8, <1>9 DEF h

(* A copy node between two access nodes, the newest of its source and a    *)
(* fresh or unread one of its target.                                      *)
CopyEnds(g, j, r, w, st) ==
  /\ Kept(g, j) /\ j.edges = g.edges /\ CodeNodes(j) = CodeNodes(g) /\ Live(j)
  /\ r \in DataNodes(j) /\ \A d \in ReadNames(st) : j.nodes[r].data = Resolve(d)
  /\ w \in DataNodes(j) /\ j.nodes[w].data = Resolve(st.target[1]) /\ r # w
  /\ \A e \in j.edges : e[1] # w
  /\ \A x : ~Later(j, w, x)
  /\ \A x : Later(j, r, x) => x = w /\ w \notin DOMAIN g.nodes
  /\ \A y, x : Later(j, y, x) => x = w \/ x \in DOMAIN g.nodes

LEMMA CopyEdgesEmits ==
  ASSUME NEW U, Universe(U), NEW g \in Graphs(U), NEW j \in Graphs(U), NEW st, Statement(U, st),
         NEW r, NEW w, CopyEnds(g, j, r, w, st)
  PROVE  LET h == CopyEdges(j, r, w, st)
         IN  Live(h) /\ Emitted(g, h, Len(j.nodes) + 1, w, st)
<1> DEFINE c == Len(j.nodes) + 1
           d == Resolve(st.target[1])
           k == AddNode(j, "library", d, st)
           e == <<r, c, "read">>
           f == <<c, w, "all">>
           h == AddEdges(k, {e, f})
           H == CopyEdges(j, r, w, st)
<1>1. d \in U /\ st \in U
  BY ResolveInUniverse DEF Statement
<1>2. H = h
  BY DEF CopyEdges
<1>3. k \in Graphs(U)
  BY <1>1, AddNodeKeeps DEF Kinds
<1>4. /\ Kept(j, k) /\ Gains(j, k, c, st) /\ k.edges = j.edges /\ Live(k)
      /\ DataNodes(k) = DataNodes(j) /\ \A y, x : Later(k, y, x) => Later(j, y, x)
  BY <1>1, CodeKeepsVersions DEF CopyEnds
<1>5. IsGraph(g) /\ IsGraph(j) /\ IsGraph(k)
  <2> HIDE DEF k
  <2> QED BY <1>3, GraphsAreGraphs
<1> HIDE DEF k, c, d
<1>6. /\ Kept(k, h) /\ h.nodes = k.nodes /\ h.edges = g.edges \cup {e, f} /\ Live(h)
      /\ DataNodes(h) = DataNodes(j) /\ CodeNodes(h) = CodeNodes(k)
      /\ \A y, x : Later(h, y, x) <=> Later(k, y, x)
  BY <1>4, <1>5, EdgesKeepVersions DEF CopyEnds
<1>7. /\ e \in h.edges /\ e[1] = r /\ e[2] = c /\ e[3] = "read"
      /\ f \in h.edges /\ f[1] = c /\ f[2] = w /\ f[3] = "all"
  BY <1>6
<1>8. \A x \in h.edges : x \in g.edges \/ x = e \/ x = f
  BY <1>6
<1> HIDE DEF e, f, h, H
<1>9. \A n \in DOMAIN j.nodes : h.nodes[n] = j.nodes[n]
  BY <1>4, <1>6 DEF Kept
<1>10. DataNodes(j) \subseteq DOMAIN j.nodes /\ DataNodes(h) = DataNodes(j)
  BY <1>6 DEF DataNodes
<1>11. Kept(g, k) /\ DOMAIN g.nodes \subseteq DOMAIN j.nodes
  BY <1>4, <1>5, KeptOn DEF CopyEnds
<1>12. Kept(g, h)
  BY <1>6, <1>11 DEF Kept
<1>13. Gains(g, h, c, st)
  BY <1>4, <1>6, <1>11 DEF Gains, CopyEnds
<1>14. c # w /\ c # r
  BY <1>4, <1>10 DEF Gains, CopyEnds
<1>15. StoredIn(h, st, w)
  <2>1. \A x \in h.edges : x[1] # w
    BY <1>7, <1>8, <1>14 DEF CopyEnds
  <2>2. \A n : ~Later(h, w, n)
    BY <1>4, <1>6 DEF CopyEnds
  <2> QED BY <1>9, <1>10, <2>1, <2>2 DEF StoredIn, CopyEnds
<1>16. EdgesOf(g, h, c, w, st)
  <2>1. r \in DataNodes(h) /\ \A x : Later(h, r, x) => x = w /\ w \notin DOMAIN g.nodes
    BY <1>4, <1>6 DEF CopyEnds
  <2> QED BY <1>7, <1>8, <1>15, <2>1 DEF EdgesOf
<1>17. VersionsOf(g, h, c, w)
  <2>1. Edge(h, c, w)
    BY <1>7 DEF Edge
  <2> QED BY <1>4, <1>6, <2>1 DEF VersionsOf, CopyEnds
<1>18. ReadWired(h, c, st)
  <2>1. Edge(h, r, c)
    BY <1>7 DEF Edge
  <2> QED BY <1>9, <1>10, <2>1 DEF ReadWired, CopyEnds
<1>19. StoreWired(h, c, st)
  BY <1>7, <1>15 DEF StoreWired, StoredIn
<1>20. Live(H) /\ Emitted(g, H, c, w, st)
  BY <1>2, <1>6, <1>12, <1>13, <1>16, <1>17, <1>18, <1>19 DEF Emitted
<1> QED BY <1>20 DEF H, c

(* add_copy_node.                                                          *)
LEMMA AddCopyNodeGrows ==
  ASSUME NEW U, Universe(U), NEW g \in Graphs(U), Tidy(g), NEW st, Statement(U, st), Plain(st),
         NEW name, ReadNames(st) = {name}, ~st.self
  PROVE  AddCopyNode(g, st) \in Graphs(U) /\ Grows(g, AddCopyNode(g, st), st)
<1> DEFINE src == Resolve(name)
           d == Resolve(st.target[1])
           k == Touch(g, src)
           r == k.cache[src]
           h == AddCopyNode(g, st)
<1>1. name \in U /\ src \in U /\ d \in U /\ Resolve(src) = src /\ Resolve(d) = d
      /\ src \notin Views /\ d \notin Views /\ Live(g)
  BY ResolveInUniverse DEF Statement, Plain, Tidy
<1>2. (CHOOSE x \in ReadNames(st) : TRUE) = name
  OBVIOUS
<1>3. h = CopyFrom(k, src, d, st)
  BY <1>1, <1>2 DEF AddCopyNode, Acc
<1>4. h \in Graphs(U)
  BY <1>1, <1>2, AddCopyNodeKeeps
<1>5. k \in Graphs(U) /\ Reached(g, k, src)
  BY <1>1, TouchKeeps, TouchReaches
<1> HIDE DEF h, k, d, src
<1>6. IsGraph(g) /\ IsGraph(k)
  BY <1>5, GraphsAreGraphs
<1>7. /\ Kept(g, k) /\ k.edges = g.edges /\ Live(k) /\ CodeNodes(k) = CodeNodes(g)
      /\ Cached(k, src)
  <2>1. CASE Cached(g, src) /\ k = g
    <3>1. Len(g.nodes) <= Len(g.nodes)
      BY <1>6 DEF IsGraph, Wired
    <3> QED BY <1>1, <2>1, <3>1 DEF Kept
  <2>2. CASE ~Cached(g, src) /\ NewVersion(g, k, src)
    BY <2>2 DEF NewVersion
  <2> QED BY <1>5, <2>1, <2>2 DEF Reached
<1>8. \A y, x : Later(k, y, x) => x \in DOMAIN g.nodes
  <2>1. \A y, x : Later(k, y, x) => Later(g, y, x)
    <3>1. CASE ~Cached(g, src) /\ NewVersion(g, k, src)
      BY <1>1, <1>6, <3>1, VersionsAfter
    <3> QED BY <1>5, <3>1 DEF Reached
  <2> QED BY <2>1 DEF Later, DataNodes
<1>9. r \in DataNodes(k) /\ r \in DOMAIN k.nodes /\ k.nodes[r].data = src /\ \A n : ~Later(k, r, n)
  BY <1>5, <1>7, NewestSink DEF DataNodes
<1>10. ASSUME NEW j \in Graphs(U), NEW w, CopyEnds(g, j, r, w, st), h = CopyEdges(j, r, w, st)
       PROVE  Grows(g, h, st)
  <2> HIDE DEF r
  <2>1. LET x == CopyEdges(j, r, w, st)
        IN  Live(x) /\ Emitted(g, x, Len(j.nodes) + 1, w, st)
    BY <1>10, CopyEdgesEmits
  <2> QED BY <1>4, <1>10, <2>1, EmittedGrows
<1> HIDE DEF r
<1> SUFFICES Grows(g, h, st)
  BY <1>4 DEF h
<1>11. CASE Cached(k, d) /\ (d = src \/ HasReaders(k, d))
  <2> DEFINE j == NewSink(k, d)
             w == Len(k.nodes) + 1
  <2>1. DOMAIN k.cache # {}
    BY <1>11 DEF Cached
  <2>2. j \in Graphs(U) /\ NewVersion(k, j, d)
    BY <1>1, <1>5, <1>7, <2>1, NewSinkKeeps, NewSinkReaches
  <2>3. h = CopyEdges(j, r, w, st)
    BY <1>1, <1>3, <1>11 DEF CopyFrom, WriteBack, r
  <2> HIDE DEF j
  <2>4. /\ \A y, x : Later(j, y, x) => Later(k, y, x) \/ x = w
        /\ \A x : ~Later(j, w, x)
    BY <1>6, <1>7, <2>2, VersionsAfter
  <2>5. /\ w \notin DOMAIN k.nodes /\ DataNodes(j) = DataNodes(k) \cup {w} /\ j.nodes[w].data = d
        /\ CodeNodes(j) = CodeNodes(k) /\ j.edges = k.edges /\ Live(j) /\ Kept(k, j)
    BY <2>2 DEF NewVersion
  <2> HIDE DEF w
  <2>6. IsGraph(j)
    BY <2>2, GraphsAreGraphs
  <2>7. Kept(g, j) /\ DOMAIN g.nodes \subseteq DOMAIN k.nodes
    BY <1>6, <1>7, <2>5, <2>6, KeptOn
  <2>8. \A e \in j.edges : e[1] # w
    BY <1>6, <2>5 DEF IsGraph, Wired
  <2>9. j.nodes[r] = k.nodes[r] /\ r \in DataNodes(j) /\ r # w
    BY <1>9, <2>5 DEF Kept
  <2>10. CopyEnds(g, j, r, w, st)
    BY <1>7, <1>8, <1>9, <2>4, <2>5, <2>7, <2>8, <2>9 DEF CopyEnds, d, src
  <2> QED BY <1>10, <2>2, <2>3, <2>10
<1>12. CASE ~(Cached(k, d) /\ (d = src \/ HasReaders(k, d)))
  <2> DEFINE j == Touch(k, d)
             w == j.cache[d]
  <2>1. j \in Graphs(U) /\ Reached(k, j, d)
    BY <1>1, <1>5, <1>7, TouchKeeps, TouchReaches
  <2>2. h = CopyEdges(j, r, w, st)
    BY <1>1, <1>3, <1>12 DEF CopyFrom, CopyIntoLive, Acc, r
  <2> HIDE DEF j
  <2>3. IsGraph(j)
    BY <2>1, GraphsAreGraphs
  <2>4. /\ Kept(k, j) /\ j.edges = k.edges /\ Live(j) /\ CodeNodes(j) = CodeNodes(k)
        /\ Cached(j, d) /\ DataNodes(k) \subseteq DataNodes(j)
    <3>1. CASE Cached(k, d) /\ j = k
      <4>1. Len(k.nodes) <= Len(k.nodes)
        BY <1>6 DEF IsGraph, Wired
      <4> QED BY <1>7, <3>1, <4>1 DEF Kept
    <3>2. CASE ~Cached(k, d) /\ NewVersion(k, j, d)
      BY <3>2 DEF NewVersion
    <3> QED BY <2>1, <3>1, <3>2 DEF Reached
  <2>5. \A y, x : Later(j, y, x) => Later(k, y, x)
    <3>1. CASE ~Cached(k, d) /\ NewVersion(k, j, d)
      BY <1>6, <1>7, <3>1, VersionsAfter
    <3> QED BY <2>1, <3>1 DEF Reached
  <2>6. w \in DataNodes(j) /\ j.nodes[w].data = d /\ \A n : ~Later(j, w, n)
    BY <2>1, <2>4, NewestSink
  <2>7. \A x \in k.edges : x[1] # w
    <3>1. CASE Cached(k, d) /\ j = k
      BY <1>12, <3>1 DEF HasReaders
    <3>2. CASE ~Cached(k, d) /\ NewVersion(k, j, d)
      <4>1. w \notin DOMAIN k.nodes
        BY <3>2 DEF NewVersion
      <4> QED BY <1>6, <4>1 DEF IsGraph, Wired
    <3> QED BY <2>1, <3>1, <3>2 DEF Reached
  <2> HIDE DEF w
  <2>8. Kept(g, j)
    BY <1>6, <1>7, <2>3, <2>4, KeptOn
  <2>9. j.nodes[r] = k.nodes[r] /\ r \in DataNodes(j)
    BY <1>9, <2>4 DEF Kept
  <2>10. r # w
    BY <1>7, <1>9, <1>12, <2>6, <2>9
  <2>11. CopyEnds(g, j, r, w, st)
    BY <1>7, <1>8, <1>9, <2>4, <2>5, <2>6, <2>7, <2>8, <2>9, <2>10 DEF CopyEnds, d, src
  <2> QED BY <1>10, <2>1, <2>2, <2>11
<1> QED BY <1>11, <1>12

(* A node wired through acc, in a state of its own: it stores into a node  *)
(* of its own, for it does not read what it assigns.                       *)
LEMMA AddCachedNodeGrows ==
  ASSUME NEW U, Universe(U), NEW g \in Graphs(U), Tidy(g), DOMAIN g.nodes = {},
         NEW st, Statement(U, st), Plain(st),
         \A d \in ReadNames(st) : Resolve(d) # Resolve(st.target[1])
  PROVE  AddCachedNode(g, st) \in Graphs(U) /\ Grows(g, AddCachedNode(g, st), st)
<1> DEFINE t == Len(g.nodes) + 1
           d == st.target[1]
           w == WireReads(AddNode(g, "library", d, st), st, t)
           h == AddCachedNode(g, st)
<1>1. d \in U /\ Live(g) /\ Resolve(d) \notin Views
  BY DEF Statement, Tidy, Plain
<1>2. w \in Graphs(U) /\ Reading(g, w, t, st, ReadNames(st))
  BY <1>1, WireReadsReads DEF Plain
<1>3. h = IF d \in Outside THEN w ELSE StoreLive(w, Resolve(d), t, "all")
  BY DEF AddCachedNode, StoreResult
<1> HIDE DEF w, t, h
<1>4. CacheOK(w)
  BY <1>2, GraphsAreGraphs
<1>5. g.edges = {}
  <2>1. Wired(g)
    BY DEF Graphs
  <2> QED BY <2>1 DEF Wired
<1>6. Live(h) /\ h \in Graphs(U) /\ \E m : Emitted(g, h, t, m, st)
  <2>1. CASE d \in Outside
    <3>1. /\ Kept(g, w) /\ Gains(g, w, t, st) /\ Live(w)
          /\ \A e \in w.edges \ g.edges :
               \E c \in ReadNames(st) : Cached(w, Resolve(c)) /\ e = <<w.cache[Resolve(c)], t, "read">>
          /\ \A c \in ReadNames(st) : Cached(w, Resolve(c)) /\ Edge(w, w.cache[Resolve(c)], t)
          /\ \A y, x : ~Later(w, y, x)
      BY <1>2 DEF Reading, ReadEdges
    <3>2. \A c \in ReadNames(st) : /\ w.cache[Resolve(c)] \in DataNodes(w)
                                   /\ w.nodes[w.cache[Resolve(c)]].data = Resolve(c)
      BY <1>4, <3>1 DEF CacheOK, Points, Cached, DataNodes
    <3>3. EdgesOf(g, w, t, t, st)
      BY <3>1, <3>2 DEF EdgesOf
    <3>4. VersionsOf(g, w, t, t)
      BY <3>1 DEF VersionsOf
    <3>5. ReadWired(w, t, st)
      BY <3>1, <3>2 DEF ReadWired
    <3>6. StoreWired(w, t, st)
      BY <2>1 DEF StoreWired
    <3>7. Emitted(g, w, t, t, st)
      BY <3>1, <3>3, <3>4, <3>5, <3>6 DEF Emitted
    <3> QED BY <1>2, <1>3, <2>1, <3>1, <3>7
  <2>2. CASE d \notin Outside
    <3>1. ~HasReaders(w, Resolve(d))
      <4> SUFFICES ASSUME NEW e \in w.edges, Cached(w, Resolve(d)), e[1] = w.cache[Resolve(d)]
                   PROVE  FALSE
        BY DEF HasReaders
      <4>1. PICK c \in ReadNames(st) :
              Cached(w, Resolve(c)) /\ e = <<w.cache[Resolve(c)], t, "read">>
        BY <1>2, <1>5 DEF Reading, ReadEdges
      <4>2. w.cache[Resolve(c)] = w.cache[Resolve(d)]
        BY <4>1
      <4>3. Resolve(c) = Resolve(d)
        BY <1>4, <4>1, <4>2 DEF CacheOK, Points, Cached
      <4> QED BY <4>3
    <3>2. "all" \in {st.target[2], "all"}
      OBVIOUS
    <3>3. LET k == StoreLive(w, Resolve(d), t, "all")
          IN  k \in Graphs(U) /\ Live(k) /\ \E m : Emitted(g, k, t, m, st)
      BY <1>1, <1>2, <3>1, <3>2, StoreLiveEmits
    <3> QED BY <1>3, <2>2, <3>3
  <2> QED BY <2>1, <2>2
<1>7. Grows(g, h, st)
  BY <1>6, EmittedGrows
<1> QED BY <1>6, <1>7 DEF h

-----------------------------------------------------------------------------
(* The dependences of the program are paths of the ordered state.          *)

(* A statement that stores into a container ...                            *)
Stores(st) == Plain(st) /\ st.target[1] \notin Symbols \cup Outside

(* ... a location that another one reads or assigns.                       *)
ReadLocations(st) == {Real(r) : r \in st.reads}
StoresInto(s, u) ==
  Stores(s) /\ (Real(s.target) = Real(u.target) \/ Real(s.target) \in ReadLocations(u))
Conflicting(s, u) == StoresInto(s, u) \/ StoresInto(u, s)

(* Without views, two names of one location share their access nodes, and  *)
(* what is read at a location stored into is a container.                  *)
LEMMA SameContainer ==
  ASSUME NEW l, Resolve(l[1]) \notin Views, l[1] \notin Symbols \cup Outside,
         NEW m, Real(l) = Real(m)
  PROVE  /\ l[2] = m[2] /\ m[1] \notin Symbols \cup Outside
         /\ Resolve(m[1]) \notin Views => Resolve(l[1]) = Resolve(m[1])
<1>1. Root(l[1]) = Root(m[1]) /\ l[2] = m[2]
  BY DEF Real
<1>2. \A d : Resolve(d) \notin Views => Root(d) = Resolve(d)
  BY NamesAssumption DEF Root, Resolve
<1>3. \A d \in Symbols \cup Outside : Root(d) = d
  BY NamesAssumption DEF Root, Named
<1>4. Root(l[1]) \notin Symbols \cup Outside
  BY NamesAssumption DEF Root, Named
<1> QED BY <1>1, <1>2, <1>3, <1>4

(* The access nodes of a store and of a read of one location.              *)
LEMMA StoreEdge ==
  ASSUME NEW g, Complete(g), NEW t \in CodeNodes(g), Stores(g.nodes[t].stmt)
  PROVE  LET st == g.nodes[t].stmt
         IN  \E e \in g.edges : /\ e[1] = t /\ e[2] \in DataNodes(g)
                                /\ e[3] \in {st.target[2], "all"}
                                /\ g.nodes[e[2]].data = Resolve(st.target[1])
BY DEF Complete, StoreWired, Stores

(* A read of what a statement stores reads an access node of that name.    *)
LEMMA ReadEdge ==
  ASSUME NEW g, Complete(g), NEW t \in CodeNodes(g), Plain(g.nodes[t].stmt),
         NEW s, Stores(s), Real(s.target) \in ReadLocations(g.nodes[t].stmt)
  PROVE  \E n \in DataNodes(g) : g.nodes[n].data = Resolve(s.target[1]) /\ Edge(g, n, t)
<1> DEFINE st == g.nodes[t].stmt
<1> HIDE DEF st
<1>1. PICK r \in st.reads : Real(s.target) = Real(r)
  BY DEF ReadLocations, st
<1>2. Resolve(s.target[1]) \notin Views /\ s.target[1] \notin Symbols \cup Outside
  BY DEF Stores, Plain
<1>3. r[1] \notin Symbols \cup Outside
      /\ (Resolve(r[1]) \notin Views => Resolve(s.target[1]) = Resolve(r[1]))
  BY <1>1, <1>2, SameContainer
<1>4. r[1] \in ReadNames(st)
  BY <1>1, <1>3 DEF ReadNames
<1>5. Resolve(r[1]) \notin Views
  BY <1>4 DEF Plain, st
<1>6. ReadWired(g, t, st)
  BY DEF Complete, st
<1> QED BY <1>3, <1>4, <1>5, <1>6 DEF ReadWired

(* Of two statements of a state that access one location, and one of which *)
(* writes it, the earlier one leads to the later one.                      *)
THEOREM ConflictsOrdered ==
  ASSUME NEW g, Tidy(g), \A c \in CodeNodes(g) : Plain(g.nodes[c].stmt),
         NEW t \in CodeNodes(g), NEW u \in CodeNodes(g), t < u,
         Conflicting(g.nodes[t].stmt, g.nodes[u].stmt)
  PROVE  u \in Descendants(OrderState(g), t)
<1> DEFINE k == OrderState(g)
           s == g.nodes[t].stmt
           v == g.nodes[u].stmt
<1>1. Versioned(g) /\ IsGraph(g) /\ Complete(g) /\ t \in Nat /\ u \in Nat
  BY NodesOfGraph DEF Tidy, Versioned
<1>2. /\ Rising(g, k) /\ WritersOrdered(g, k)
      /\ \A a, b : Later(g, a, b) => Parted(g, k, a, b)
  BY <1>1, OrderStateParts
<1>3. Plain(s) /\ Plain(v)
  OBVIOUS
<1> SUFFICES u \in Descendants(k, t)
  OBVIOUS
<1> HIDE DEF k
<1>4. g.edges \subseteq k.edges /\ Wired(k)
  BY <1>2 DEF Rising, IsGraph
<1>5. \A n \in DataNodes(g), m \in DataNodes(g) :
        g.nodes[n].data = g.nodes[m].data => n = m \/ Later(g, n, m) \/ Later(g, m, n)
  <2>1. DataNodes(g) \subseteq Nat
    BY <1>1, NodesOfGraph
  <2> QED BY <2>1 DEF Later
<1>6. \A a, b, c : Later(g, a, b) /\ Touches(g, c, a) /\ u \in Writers(g, b) /\ c # u
                   => u \in Descendants(k, c)
  BY <1>2 DEF Parted
<1>7. CASE Stores(s) /\ Stores(v) /\ Real(s.target) = Real(v.target)
  <2>1. PICK e \in g.edges : /\ e[1] = t /\ e[2] \in DataNodes(g) /\ e[3] \in {s.target[2], "all"}
                             /\ g.nodes[e[2]].data = Resolve(s.target[1])
    BY <1>1, <1>7, StoreEdge
  <2>2. PICK f \in g.edges : /\ f[1] = u /\ f[2] \in DataNodes(g) /\ f[3] \in {v.target[2], "all"}
                             /\ g.nodes[f[2]].data = Resolve(v.target[1])
    BY <1>1, <1>7, StoreEdge
  <2> HIDE DEF s, v
  <2>3. s.target[2] = v.target[2] /\ Resolve(s.target[1]) = Resolve(v.target[1])
    BY <1>7, SameContainer DEF Stores, Plain
  <2>4. t \in Writers(g, e[2]) /\ u \in Writers(g, f[2])
    BY <2>1, <2>2 DEF Writers, Edge
  <2>5. CASE e[2] = f[2]
    <3>1. Clash(g, e[2], e, f)
      BY <1>1, <2>1, <2>2, <2>3, <2>5 DEF Clash, Intersects, Versioned, Bipartite
    <3> QED BY <1>2, <2>1, <2>2, <3>1 DEF WritersOrdered
  <2>6. CASE Later(g, e[2], f[2])
    BY <1>1, <1>6, <2>4, <2>6 DEF Touches, Writers
  <2>7. CASE Later(g, f[2], e[2])
    BY <1>1, <2>1, <2>2, <2>4, <2>7 DEF Versioned, VersionsInOrder
  <2> QED BY <1>5, <2>1, <2>2, <2>3, <2>5, <2>6, <2>7
<1>8. CASE Stores(s) /\ Real(s.target) \in ReadLocations(v)
  <2>1. PICK e \in g.edges : /\ e[1] = t /\ e[2] \in DataNodes(g) /\ e[3] \in {s.target[2], "all"}
                             /\ g.nodes[e[2]].data = Resolve(s.target[1])
    BY <1>1, <1>8, StoreEdge
  <2>2. PICK m \in DataNodes(g) : g.nodes[m].data = Resolve(s.target[1]) /\ Edge(g, m, u)
    BY <1>1, <1>3, <1>8, ReadEdge
  <2>3. t \in Writers(g, e[2])
    BY <2>1 DEF Writers, Edge
  <2>4. \A w : Edge(g, w, m) => u \in Descendants(k, w)
    BY <1>4, <2>2, Reaches DEF Edge
  <2>5. CASE e[2] = m
    BY <2>1, <2>4, <2>5 DEF Edge
  <2>6. CASE Later(g, e[2], m)
    <3>1. PICK w : w \in Writers(g, m)
      BY <1>1, <2>6 DEF Versioned, LaterWritten, Later
    <3>2. w = t \/ w \in Descendants(k, t)
      BY <1>2, <2>3, <2>6, <3>1 DEF Parted, Touches, Writers
    <3>3. u \in Descendants(k, w)
      BY <2>4, <3>1 DEF Writers
    <3> QED BY <1>4, <3>2, <3>3, ReachesOn
  <2>7. CASE Later(g, m, e[2])
    <3>1. u <= t
      BY <1>1, <2>1, <2>2, <2>3, <2>7 DEF Versioned, VersionsInOrder
    <3> QED BY <1>1, <3>1
  <2> QED BY <1>5, <2>1, <2>2, <2>5, <2>6, <2>7
<1>9. CASE Stores(v) /\ Real(v.target) \in ReadLocations(s)
  <2>1. PICK f \in g.edges : /\ f[1] = u /\ f[2] \in DataNodes(g) /\ f[3] \in {v.target[2], "all"}
                             /\ g.nodes[f[2]].data = Resolve(v.target[1])
    BY <1>1, <1>9, StoreEdge
  <2>2. PICK n \in DataNodes(g) : g.nodes[n].data = Resolve(v.target[1]) /\ Edge(g, n, t)
    BY <1>1, <1>3, <1>9, ReadEdge
  <2>3. u \in Writers(g, f[2])
    BY <2>1 DEF Writers, Edge
  <2>4. \A w \in Writers(g, n) : w < t
    BY <1>1, <2>2 DEF Versioned, WritersFirst
  <2>5. CASE n = f[2]
    BY <1>1, <2>3, <2>4, <2>5
  <2>6. CASE Later(g, n, f[2])
    <3>1. Touches(g, t, n) /\ t # u
      BY <1>1, <2>2 DEF Touches
    <3> QED BY <1>6, <2>3, <2>6, <3>1
  <2>7. CASE Later(g, f[2], n)
    <3>1. PICK w : w \in Writers(g, n)
      BY <1>1, <2>7 DEF Versioned, LaterWritten, Later
    <3>2. u < w
      BY <1>1, <2>1, <2>2, <2>3, <2>7, <3>1 DEF Versioned, VersionsInOrder
    <3>3. w < t /\ w \in Nat
      BY <1>1, <2>4, <3>1, NodesOfGraph
    <3> QED BY <1>1, <3>2, <3>3
  <2> QED BY <1>5, <2>1, <2>2, <2>5, <2>6, <2>7
<1>10. CASE Real(s.target) = Real(v.target) /\ (Stores(s) \/ Stores(v))
  <2>1. Stores(s) /\ Stores(v)
    BY <1>3, <1>10, SameContainer DEF Stores, Plain
  <2> QED BY <1>7, <1>10, <2>1
<1> QED BY <1>8, <1>9, <1>10 DEF Conflicting, StoresInto
=============================================================================
