--------------------------- MODULE LibraryNodes ----------------------------
(***************************************************************************)
(* The library nodes builder/emit_library.py puts into a state.  Four ways *)
(* of wiring one are told apart:                                           *)
(*   copy     a whole-array b = a (add_copy_node);                         *)
(*   fill     a whole-array b = 0 (emit_memset);                           *)
(*   through the cached access nodes of acc: reductions and intrinsics     *)
(*            (_emit_reduce, _emit_libcall), MPI send and receive, I/O;    *)
(*   through access nodes of its own, unknown to the cache: BLAS, LAPACK,  *)
(*            FFT and the MPI collectives.                                 *)
(* Which numbers a node computes is left out: a statement is what it reads *)
(* and what it writes.                                                     *)
(***************************************************************************)
EXTENDS StateGraph

(* add_copy_node: the target's live node is reused unless it is the        *)
(* source's or has been read; a copy of a name onto itself is dropped.     *)
CopyEdges(g, r, w, st) ==
  LET c == Len(g.nodes) + 1
  IN  AddEdges(AddNode(g, "library", Resolve(st.target[1]), st),
               {<<r, c, "read">>, <<c, w, "all">>})
CopyIntoLive(g, r, d, st) == CopyEdges(g, r, g.cache[d], st)
CopyFrom(g, src, d, st) ==
  IF Cached(g, d) /\ (d = src \/ HasReaders(g, d))
  THEN CopyEdges(WriteBack(NewSink(g, d), d), g.cache[src], Len(g.nodes) + 1, st)
  ELSE CopyIntoLive(Acc(g, d), g.cache[src], d, st)
AddCopyNode(g, st) ==
  IF st.self THEN g
  ELSE LET src == Resolve(CHOOSE d \in ReadNames(st) : TRUE)
       IN  CopyFrom(Acc(g, src), src, Resolve(st.target[1]), st)

(* emit_memset: a view is filled through a node that flows back into its   *)
(* source, anything else through the cached node.                          *)
AddFill(g, st) ==
  LET d == Resolve(st.target[1])
      f == Len(g.nodes) + 1
      filled == AddNode(g, "library", d, st)
  IN  IF d \in Views
      THEN WriteBack(AddEdges(AddNode(filled, "access", d, NoStatement),
                              {<<f, f + 1, "all">>}), d)
      ELSE StoreLive(filled, d, f, "all")

(* A node wired through acc.  Its store goes into the live node whatever   *)
(* has read that node before; an effect outside has no access node.        *)
StoreResult(g, d, t) == IF d \in Outside THEN g ELSE StoreLive(g, Resolve(d), t, "all")
AddCachedNode(g, st) ==
  LET t == Len(g.nodes) + 1
      d == st.target[1]
  IN  StoreResult(WireReads(AddNode(g, "library", d, st), st, t), d, t)

(* ensure_view_read_link: state.add_read, with the link a view needs.      *)
FreshRead(g, d, t) ==
  LET n == Len(g.nodes) + 1
      read == AddEdges(AddNode(g, "access", d, NoStatement), {<<n, t, "read">>})
  IN  IF d \notin Views THEN read
      ELSE AddEdges(AddNode(read, "access", SourceOf[d], NoStatement),
                    {<<n + 1, n, "all">>})

(* A node with read and write nodes of its own (add_read, add_write).      *)
FreshWrite(g, d, t) ==
  WriteBack(AddEdges(AddNode(g, "access", d, NoStatement),
                     {<<t, Len(g.nodes) + 1, "all">>}), d)
AddUncachedNode(g, st) ==
  LET t == Len(g.nodes) + 1
      d == st.target[1]
  IN  FreshWrite(FoldLeft(LAMBDA h, x : FreshRead(h, x, t),
                          AddNode(g, "library", d, st), SetToSeq(ReadNames(st))), d, t)

(* A node stores into a live node that its own statement or an earlier one *)
(* reads: the read gets the new value.  add_copy_node and emit_tasklet     *)
(* take a fresh node there, AddCachedNode does not.                        *)
Overtakes(g) ==
  \E t \in CodeNodes(g) :
    /\ g.nodes[t].stmt.how = "libcall"
    /\ \E u \in CodeNodes(g) \cap Descendants(g, t) :
         g.nodes[u].stmt.id <= g.nodes[t].stmt.id
=============================================================================
