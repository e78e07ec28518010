-------------------------- MODULE StateGraphProofs --------------------------
(***************************************************************************)
(* What the graph algorithms of StateGraph compute, for every graph.       *)
(***************************************************************************)
EXTENDS StateGraph, FiniteSetTheorems, TLAPS

-----------------------------------------------------------------------------
(* Induction, as facts about sets.                                         *)

(* A set of numbers has a least one.                                       *)
LEMMA LeastNumber ==
  ASSUME NEW T, T \subseteq Nat, T # {}
  PROVE  \E n \in T : \A m \in T : n <= m
<1> DEFINE R == {ss \in Nat \X Nat : ss[1] < ss[2]}
<1>1. IsWellFoundedOn(R, Nat)
  BY NatLessThanWellFounded DEF OpToRel
<1>2. \E x \in T : \A y \in T : <<y, x>> \notin R
  <2> HIDE DEF R
  <2> QED BY <1>1, WFMin
<1>3. PICK x \in T : \A y \in T : <<y, x>> \notin R
  BY <1>2
<1>4. \A y \in T : x <= y
  <2> TAKE y \in T
  <2>1. <<y, x>> \notin R
    BY <1>3
  <2>2. <<y, x>> \in Nat \X Nat /\ <<y, x>>[1] = y /\ <<y, x>>[2] = x
    OBVIOUS
  <2>3. ~(y < x)
    BY <2>1, <2>2
  <2> QED BY <2>3
<1> QED BY <1>4

(* A set that holds 0 and, with a number, the next one, holds all.         *)
LEMMA AllNumbers ==
  ASSUME NEW T, 0 \in T, \A n \in Nat : n \in T => n + 1 \in T
  PROVE  Nat \subseteq T
<1> SUFFICES ASSUME Nat \ T # {} PROVE FALSE
  OBVIOUS
<1>1. PICK n \in Nat \ T : \A m \in Nat \ T : n <= m
  BY LeastNumber
<1>2. n # 0 /\ n - 1 \in Nat
  BY <1>1
<1>3. n - 1 \in T
  BY <1>1, <1>2
<1> QED BY <1>1, <1>2, <1>3

(* A finite set of numbers has a greatest one.                             *)
LEMMA GreatestNumber ==
  ASSUME NEW n \in Nat, NEW T, T \subseteq 0 .. n, T # {}
  PROVE  \E m \in T : \A k \in T : m >= k
<1> DEFINE D == {n - k : k \in T}
<1>1. D \subseteq Nat /\ D # {}
  <2>1. \A k \in T : n - k \in Nat
    OBVIOUS
  <2> QED BY <2>1
<1>2. PICK d \in D : \A e \in D : d <= e
  <2> HIDE DEF D
  <2> QED BY <1>1, LeastNumber
<1> QED BY <1>2

(* A set of subsets of a finite set has a smallest one.                    *)
LEMMA SmallestSet ==
  ASSUME NEW S, IsFiniteSet(S), NEW C, C \subseteq SUBSET S, C # {}
  PROVE  \E s \in C : \A u \in C : u \subseteq s => u = s
<1>1. IsWellFoundedOn(StrictSubsetOrdering(S), SUBSET S)
  BY FS_StrictSubsetOrderingWellFounded, FS_FiniteSubsetsOfFinite
<1>2. \E s \in C : \A u \in C : <<u, s>> \notin StrictSubsetOrdering(S)
  BY <1>1, WFMin
<1> QED BY <1>2 DEF StrictSubsetOrdering

-----------------------------------------------------------------------------
(* Recursive functions: what they compute exists and stays in its set.     *)

(* A value and what a function makes of it, again and again.               *)
LEMMA IterationExists ==
  ASSUME NEW X, NEW base \in X, NEW F \in [X -> X]
  PROVE  \E f \in [Nat -> X] : \A k \in Nat : f[k] = IF k = 0 THEN base ELSE F[f[k - 1]]
<1> DEFINE
  Upto(f, n) == f \in [Nat -> X] /\ f[0] = base /\ \A k \in 1 .. n : f[k] = F[f[k - 1]]
  Ends == {n \in Nat : \E f \in [Nat -> X] : Upto(f, n)}
  some(n) == CHOOSE f \in [Nat -> X] : Upto(f, n)
  all == [n \in Nat |-> some(n)[n]]
<1>1. 0 \in Ends
  <2>1. Upto([n \in Nat |-> base], 0)
    OBVIOUS
  <2> QED BY <2>1
<1>2. ASSUME NEW n \in Nat, n \in Ends PROVE n + 1 \in Ends
  <2>1. PICK f \in [Nat -> X] : Upto(f, n)
    BY <1>2
  <2> DEFINE g == [f EXCEPT ![n + 1] = F[f[n]]]
  <2>2. g \in [Nat -> X] /\ g[0] = base
    BY <2>1
  <2>3. ASSUME NEW k \in 1 .. n + 1 PROVE g[k] = F[g[k - 1]]
    <3>1. k \in Nat /\ k - 1 \in Nat /\ k - 1 # n + 1 /\ g[k - 1] = f[k - 1]
      BY <2>1
    <3>2. CASE k = n + 1
      <4>1. k - 1 = n /\ g[k] = F[f[n]]
        BY <2>1, <3>2
      <4> QED BY <3>1, <4>1
    <3>3. CASE k # n + 1
      <4>1. k \in 1 .. n /\ g[k] = f[k]
        BY <2>1, <3>3
      <4> QED BY <2>1, <3>1, <4>1
    <3> QED BY <3>2, <3>3
  <2>4. Upto(g, n + 1)
    BY <2>2, <2>3
  <2> HIDE DEF g, Upto
  <2> QED BY <2>2, <2>4
<1>3. \A n \in Nat : some(n) \in [Nat -> X] /\ Upto(some(n), n)
  <2>1. Nat \subseteq Ends
    <3> HIDE DEF Ends
    <3> QED BY <1>1, <1>2, AllNumbers
  <2> HIDE DEF Upto
  <2> QED BY <2>1
<1>4. ASSUME NEW n \in Nat, NEW f, NEW g, Upto(f, n), Upto(g, n + 1) PROVE f[n] = g[n]
  <2> DEFINE Same == {k \in Nat : k <= n => f[k] = g[k]}
  <2>1. 0 \in Same
    BY <1>4
  <2>2. ASSUME NEW k \in Nat, k \in Same PROVE k + 1 \in Same
    <3>1. CASE k + 1 <= n
      <4>1. k + 1 \in 1 .. n /\ k + 1 \in 1 .. n + 1 /\ (k + 1) - 1 = k
        BY <3>1
      <4>2. f[k + 1] = F[f[k]] /\ g[k + 1] = F[g[k]]
        BY <1>4, <4>1
      <4> QED BY <2>2, <3>1, <4>2
    <3> QED BY <3>1
  <2>3. Nat \subseteq Same
    <3> HIDE DEF Same
    <3> QED BY <2>1, <2>2, AllNumbers
  <2> QED BY <2>3
<1>5. all \in [Nat -> X]
  BY <1>3
<1>6. ASSUME NEW n \in Nat PROVE all[n] = IF n = 0 THEN base ELSE F[all[n - 1]]
  <2>1. CASE n = 0
    BY <1>3, <2>1
  <2>2. CASE n # 0
    <3>1. n - 1 \in Nat /\ (n - 1) + 1 = n /\ n \in 1 .. n
      BY <2>2
    <3>2. some(n)[n] = F[some(n)[n - 1]]
      BY <1>3, <3>1
    <3>3. Upto(some(n - 1), n - 1) /\ Upto(some(n), (n - 1) + 1)
      BY <1>3, <3>1
    <3>4. some(n - 1)[n - 1] = some(n)[n - 1]
      <4> HIDE DEF Upto, some
      <4> QED BY <1>4, <3>1, <3>3
    <3> HIDE DEF some
    <3> QED BY <2>2, <3>1, <3>2, <3>4
  <2> QED BY <2>1, <2>2
<1> HIDE DEF all
<1> QED BY <1>5, <1>6

(* A fold: one element after the other, as pick chooses them.              *)
FoldOver(f, S, base, op, pick) ==
  \A s \in SUBSET S : f[s] = IF s = {} THEN base ELSE op[<<pick[s], f[s \ {pick[s]}]>>]
LEMMA FoldExists ==
  ASSUME NEW S, IsFiniteSet(S), NEW G, NEW base \in G, NEW op \in [S \X G -> G],
         NEW pick, \A s \in SUBSET S : s # {} => pick[s] \in s
  PROVE  \E f \in [SUBSET S -> G] : FoldOver(f, S, base, op, pick)
<1> DEFINE
  Folds(f, s) == f[s] = IF s = {} THEN base ELSE op[<<pick[s], f[s \ {pick[s]}]>>]
  Sizes == {n \in Nat : \E f \in [SUBSET S -> G] :
                          \A s \in SUBSET S : Cardinality(s) <= n => Folds(f, s)}
<1>1. \A s \in SUBSET S : IsFiniteSet(s) /\ Cardinality(s) \in Nat
                          /\ Cardinality(s) <= Cardinality(S)
  BY FS_Subset, FS_CardinalityType
<1>2. 0 \in Sizes
  <2>1. \A s \in SUBSET S : Cardinality(s) <= 0 => s = {}
    BY <1>1, FS_EmptySet
  <2>2. [s \in SUBSET S |-> base] \in [SUBSET S -> G]
    OBVIOUS
  <2> QED BY <2>1, <2>2
<1>3. ASSUME NEW n \in Nat, n \in Sizes PROVE n + 1 \in Sizes
  <2>1. PICK f \in [SUBSET S -> G] : \A s \in SUBSET S : Cardinality(s) <= n => Folds(f, s)
    BY <1>3
  <2> DEFINE next(s) == IF s = {} THEN base ELSE op[<<pick[s], f[s \ {pick[s]}]>>]
             g == [s \in SUBSET S |-> IF Cardinality(s) = n + 1 THEN next(s) ELSE f[s]]
  <2>2. ASSUME NEW s \in SUBSET S, s # {}
        PROVE  /\ pick[s] \in S /\ s \ {pick[s]} \in SUBSET S
               /\ Cardinality(s \ {pick[s]}) = Cardinality(s) - 1
    BY <1>1, <2>2, FS_RemoveElement
  <2>3. g \in [SUBSET S -> G]
    <3> SUFFICES ASSUME NEW s \in SUBSET S PROVE next(s) \in G
      BY <2>1
    <3> QED BY <2>1, <2>2
  <2>4. ASSUME NEW s \in SUBSET S, Cardinality(s) <= n + 1 PROVE Folds(g, s)
    <3>1. CASE s = {}
      <4>1. Cardinality(s) = 0
        BY <3>1, FS_EmptySet
      <4>2. g[s] = f[s] /\ Folds(f, s)
        BY <2>1, <4>1
      <4> QED BY <3>1, <4>2
    <3>2. CASE s # {}
      <4>1. Cardinality(s \ {pick[s]}) # n + 1
        BY <1>1, <2>2, <2>4, <3>2
      <4>2. g[s \ {pick[s]}] = f[s \ {pick[s]}]
        BY <2>2, <3>2, <4>1
      <4>3. g[s] = next(s)
        BY <1>1, <2>1, <2>4, <3>2
      <4> QED BY <3>2, <4>2, <4>3
    <3> QED BY <3>1, <3>2
  <2> HIDE DEF g, Folds
  <2> QED BY <2>3, <2>4
<1>4. Cardinality(S) \in Sizes
  <2> HIDE DEF Sizes
  <2> QED BY <1>1, <1>2, <1>3, AllNumbers
<1> QED BY <1>1, <1>4 DEF FoldOver

(* A fold ends in a set that holds what it starts from and is never left.  *)
LEMMA FoldStays ==
  ASSUME NEW S, IsFiniteSet(S), NEW G, NEW f, f[{}] \in G,
         \A s \in SUBSET S : s # {} => \E x \in s : f[s \ {x}] \in G => f[s] \in G
  PROVE  f[S] \in G
<1> DEFINE C == {s \in SUBSET S : f[s] \notin G}
<1> SUFFICES ASSUME C # {} PROVE FALSE
  OBVIOUS
<1>1. PICK s \in C : \A u \in C : u \subseteq s => u = s
  <2> HIDE DEF C
  <2>1. C \subseteq SUBSET S
    BY DEF C
  <2> QED BY <2>1, SmallestSet
<1>2. s # {}
  OBVIOUS
<1>3. PICK x \in s : f[s \ {x}] \in G => f[s] \in G
  BY <1>2
<1>4. s \ {x} \notin C
  BY <1>1
<1> QED BY <1>3, <1>4

-----------------------------------------------------------------------------
(* Reachability.  A set is closed when no edge leaves it.                  *)

Closed(E, C) == Successors(E, C) \subseteq C

(* The edges join nodes, which are the numbers 1 .. Len(g.nodes).          *)
Wired(g) ==
  /\ Len(g.nodes) \in Nat /\ DOMAIN g.nodes = 1 .. Len(g.nodes)
  /\ \A e \in g.edges : e[1] \in DOMAIN g.nodes /\ e[2] \in DOMAIN g.nodes

(* The nodes of a graph are finite.                                        *)
LEMMA FiniteNodes ==
  ASSUME NEW g, Wired(g)
  PROVE  IsFiniteSet(DOMAIN g.nodes) /\ Cardinality(DOMAIN g.nodes) = Len(g.nodes)
BY FS_Interval DEF Wired

(* descendants: the least set that holds the successors of n and is        *)
(* closed.  Len(g.nodes) steps reach all of it, for every step that adds   *)
(* nothing is the last and every other one adds a node.                    *)
LEMMA DescendantsLeast ==
  ASSUME NEW g, Wired(g), NEW n
  PROVE  /\ Descendants(g, n) \subseteq DOMAIN g.nodes
         /\ Successors(g.edges, {n}) \subseteq Descendants(g, n)
         /\ Closed(g.edges, Descendants(g, n))
         /\ \A C : Successors(g.edges, {n}) \subseteq C /\ Closed(g.edges, C)
                  => Descendants(g, n) \subseteq C
<1> DEFINE N == DOMAIN g.nodes
           base == Successors(g.edges, {n})
           more(S) == S \cup Successors(g.edges, S)
           F == [S \in SUBSET N |-> more(S)]
<1>1. \A S : Successors(g.edges, S) \subseteq N
  BY DEF Wired, Successors
<1>2. F \in [SUBSET N -> SUBSET N] /\ base \in SUBSET N
  BY <1>1
<1>3. PICK f \in [Nat -> SUBSET N] : \A k \in Nat : f[k] = IF k = 0 THEN base ELSE F[f[k - 1]]
  <2> DEFINE X == SUBSET N
  <2>1. F \in [X -> X] /\ base \in X
    BY <1>2
  <2>2. \E f \in [Nat -> X] : \A k \in Nat : f[k] = IF k = 0 THEN base ELSE F[f[k - 1]]
    <3> HIDE DEF X, F, base
    <3> QED BY <2>1, IterationExists
  <2> QED BY <2>2
<1>4. PICK h : /\ h = [k \in Nat |-> IF k = 0 THEN base ELSE LET S == h[k - 1] IN more(S)]
               /\ Descendants(g, n) = h[Len(g.nodes)]
  <2>1. \A k \in Nat : k # 0 => F[f[k - 1]] = more(f[k - 1])
    <3>1. \A k \in Nat : k # 0 => f[k - 1] \in SUBSET N
      OBVIOUS
    <3> QED BY <3>1
  <2>2. f = [k \in Nat |-> IF k = 0 THEN base ELSE LET S == f[k - 1] IN more(S)]
    <3> HIDE DEF F, base
    <3> QED BY <1>3, <2>1
  <2> QED BY <2>2 DEF Descendants
<1>5. h[0] = base /\ \A k \in Nat : h[k + 1] = more(h[k])
  <2> HIDE DEF base
  <2>1. \A k \in Nat : h[k] = IF k = 0 THEN base ELSE more(h[k - 1])
    BY <1>4
  <2>2. \A k \in Nat : k + 1 \in Nat /\ k + 1 # 0 /\ (k + 1) - 1 = k
    OBVIOUS
  <2> QED BY <2>1, <2>2
<1>6. \A k \in Nat : base \subseteq h[k] /\ h[k] \subseteq N
  <2> DEFINE T == {k \in Nat : base \subseteq h[k] /\ h[k] \subseteq N}
  <2>1. 0 \in T
    BY <1>2, <1>5
  <2>2. ASSUME NEW k \in Nat, k \in T PROVE k + 1 \in T
    <3>1. Successors(g.edges, h[k]) \subseteq N /\ h[k + 1] = h[k] \cup Successors(g.edges, h[k])
      BY <1>1, <1>5
    <3>2. base \subseteq h[k] /\ h[k] \subseteq N
      BY <2>2
    <3>3. base \subseteq h[k + 1] /\ h[k + 1] \subseteq N
      BY <3>1, <3>2
    <3> HIDE DEF base
    <3> QED BY <3>3
  <2>3. Nat \subseteq T
    <3> HIDE DEF T
    <3> QED BY <2>1, <2>2, AllNumbers
  <2> QED BY <2>3
<1>7. \A S \in SUBSET N : IsFiniteSet(S) /\ Cardinality(S) \in Nat
                          /\ Cardinality(S) <= Len(g.nodes)
  BY FiniteNodes, FS_Subset, FS_CardinalityType
<1>8. \A k \in Nat : Closed(g.edges, h[k]) \/ k <= Cardinality(h[k])
  <2> DEFINE T == {k \in Nat : Closed(g.edges, h[k]) \/ k <= Cardinality(h[k])}
  <2>1. 0 \in T
    BY <1>6, <1>7
  <2>2. ASSUME NEW k \in Nat, k \in T PROVE k + 1 \in T
    <3>1. CASE Closed(g.edges, h[k])
      <4>1. h[k + 1] = h[k]
        BY <1>5, <3>1 DEF Closed
      <4> QED BY <3>1, <4>1
    <3>2. CASE ~Closed(g.edges, h[k])
      <4>1. PICK m \in h[k + 1] : m \notin h[k]
        BY <1>5, <3>2 DEF Closed
      <4>2. h[k] \subseteq h[k + 1] \ {m}
        BY <1>5, <4>1
      <4>3. Cardinality(h[k]) <= Cardinality(h[k + 1] \ {m})
        BY <1>6, <1>7, <4>2, FS_Subset
      <4>4. Cardinality(h[k + 1] \ {m}) = Cardinality(h[k + 1]) - 1
        BY <1>6, <1>7, <4>1, FS_RemoveElement
      <4>5. Cardinality(h[k]) \in Nat /\ Cardinality(h[k + 1]) \in Nat
        BY <1>6, <1>7
      <4> QED BY <2>2, <3>2, <4>3, <4>4, <4>5
    <3> QED BY <3>1, <3>2
  <2>3. Nat \subseteq T
    <3> HIDE DEF T
    <3> QED BY <2>1, <2>2, AllNumbers
  <2> QED BY <2>3
<1>9. Closed(g.edges, h[Len(g.nodes)])
  <2>1. Len(g.nodes) \in Nat
    BY DEF Wired
  <2>2. CASE Len(g.nodes) <= Cardinality(h[Len(g.nodes)])
    <3>1. Cardinality(h[Len(g.nodes)]) = Cardinality(N)
      BY <1>6, <1>7, <2>1, <2>2, FiniteNodes
    <3>2. h[Len(g.nodes)] = N
      BY <1>6, <2>1, <3>1, FiniteNodes, FS_Subset
    <3> QED BY <1>1, <3>2 DEF Closed
  <2> QED BY <1>8, <2>1, <2>2
<1>10. ASSUME NEW C, base \subseteq C, Closed(g.edges, C) PROVE \A k \in Nat : h[k] \subseteq C
  <2> DEFINE T == {k \in Nat : h[k] \subseteq C}
  <2>1. 0 \in T
    BY <1>5, <1>10
  <2>2. ASSUME NEW k \in Nat, k \in T PROVE k + 1 \in T
    <3>1. Successors(g.edges, h[k]) \subseteq Successors(g.edges, C)
      BY <2>2 DEF Successors
    <3> QED BY <1>5, <1>10, <2>2, <3>1 DEF Closed
  <2>3. Nat \subseteq T
    <3> HIDE DEF T
    <3> QED BY <2>1, <2>2, AllNumbers
  <2> QED BY <2>3
<1>11. Len(g.nodes) \in Nat
  BY DEF Wired
<1> DEFINE D == h[Len(g.nodes)]
<1>12. D \subseteq N /\ base \subseteq D /\ Closed(g.edges, D)
  BY <1>6, <1>9, <1>11
<1>13. \A C : base \subseteq C /\ Closed(g.edges, C) => D \subseteq C
  BY <1>10, <1>11
<1>14. Descendants(g, n) = D
  BY <1>4
<1> HIDE DEF D, N, base
<1> QED BY <1>12, <1>13, <1>14 DEF N, base

(* What a node reaches has a predecessor that is the node, or is reached.  *)
LEMMA ReachedFrom ==
  ASSUME NEW g, Wired(g), NEW n, NEW m \in Descendants(g, n)
  PROVE  \E e \in g.edges : e[2] = m /\ e[1] \in {n} \cup Descendants(g, n)
<1> DEFINE D == Descendants(g, n)
<1> SUFFICES ASSUME \A e \in g.edges : e[2] = m => e[1] \notin {n} \cup D PROVE FALSE
  OBVIOUS
<1>1. Successors(g.edges, {n}) \subseteq D \ {m} /\ Closed(g.edges, D \ {m})
  BY DescendantsLeast DEF Closed, Successors
<1>2. D \subseteq D \ {m}
  <2> HIDE DEF D
  <2> QED BY <1>1, DescendantsLeast DEF D
<1> QED BY <1>2

(* More edges and nodes reach more.                                        *)
LEMMA DescendantsGrow ==
  ASSUME NEW g, NEW h, Wired(g), Wired(h), g.edges \subseteq h.edges, NEW n
  PROVE  Descendants(g, n) \subseteq Descendants(h, n)
<1> DEFINE C == Descendants(h, n)
<1>1. Successors(h.edges, {n}) \subseteq C /\ Closed(h.edges, C)
  BY DescendantsLeast
<1>2. Successors(g.edges, {n}) \subseteq C /\ Closed(g.edges, C)
  BY <1>1 DEF Closed, Successors
<1> HIDE DEF C
<1> QED BY <1>2, DescendantsLeast DEF C

-----------------------------------------------------------------------------
(* Acyclicity: every set of nodes has one that no edge from the set enters.*)

Acyclic(E, N) ==
  \A S \in SUBSET N : S # {} => \E n \in S : \A e \in E : e[2] = n => e[1] \notin S

(* An edge from a to b closes no cycle when b does not lead back to a.     *)
LEMMA NewEdge ==
  ASSUME NEW N, NEW E, Acyclic(E, N), NEW e, NEW D,
         e[1] # e[2], e[2] \in D, Closed(E, D), e[1] \notin D
  PROVE  Acyclic(E \cup {e}, N)
<1> SUFFICES ASSUME NEW S \in SUBSET N, S # {}
             PROVE  \E n \in S : \A x \in E \cup {e} : x[2] = n => x[1] \notin S
  BY DEF Acyclic
<1>1. CASE S \subseteq D
  <2>1. PICK n \in S : \A x \in E : x[2] = n => x[1] \notin S
    BY DEF Acyclic
  <2> QED BY <1>1, <2>1
<1>2. CASE ~(S \subseteq D)
  <2>1. PICK n \in S \ D : \A x \in E : x[2] = n => x[1] \notin S \ D
    BY <1>2 DEF Acyclic
  <2>2. \A x \in E : x[2] = n => x[1] \notin S
    BY <2>1 DEF Closed, Successors
  <2> QED BY <2>1, <2>2
<1> QED BY <1>1, <1>2

(* A state without a cycle is never stuck: as long as code nodes are left, *)
(* one of them waits for no other.                                         *)
LEMMA SomeReady ==
  ASSUME NEW g, Wired(g), Acyclic(g.edges, DOMAIN g.nodes),
         NEW done, CodeNodes(g) \ done # {}
  PROVE  Ready(g, done) # {}
<1> DEFINE W == CodeNodes(g) \ done
           S == {n \in DOMAIN g.nodes : \E u \in W : n \in Descendants(g, u)}
<1> SUFFICES ASSUME W \subseteq S PROVE FALSE
  BY DEF Ready, CodeNodes
<1>1. PICK n \in S : \A e \in g.edges : e[2] = n => e[1] \notin S
  BY DEF Acyclic
<1>2. PICK u \in W : n \in Descendants(g, u)
  OBVIOUS
<1>3. PICK e \in g.edges : e[2] = n /\ e[1] \in {u} \cup Descendants(g, u)
  BY <1>2, ReachedFrom
<1>4. e[1] \in S
  BY <1>3 DEF Wired
<1> QED BY <1>1, <1>3, <1>4

-----------------------------------------------------------------------------
(* The ordering pass.                                                      *)

(* A state graph is a record, and its edges join its nodes.                *)
IsGraph(g) ==
  /\ g = [nodes |-> g.nodes, edges |-> g.edges, cache |-> g.cache,
          opened |-> g.opened, entry |-> g.entry]
  /\ Wired(g)

(* g with ordering edges added, none of which closes a cycle.              *)
Loopless(g) == Acyclic(g.edges, DOMAIN g.nodes)
OrderEdges(g) == {<<a, b, "order">> : a, b \in DOMAIN g.nodes}
Ordered(g) ==
  {[g EXCEPT !.edges = E] :
     E \in {F \in SUBSET (g.edges \cup OrderEdges(g)) :
              g.edges \subseteq F /\ (Loopless(g) => Acyclic(F, DOMAIN g.nodes))}}

(* Such a graph has the nodes and edges of g.                              *)
LEMMA OrderedIsGraph ==
  ASSUME NEW g, IsGraph(g), NEW h \in Ordered(g)
  PROVE  /\ IsGraph(h) /\ h.nodes = g.nodes /\ g.edges \subseteq h.edges /\ h.entry = g.entry
         /\ h.edges \subseteq g.edges \cup OrderEdges(g)
         /\ Loopless(g) => Loopless(h)
<1>1. PICK E \in SUBSET (g.edges \cup OrderEdges(g)) :
        /\ g.edges \subseteq E /\ (Loopless(g) => Acyclic(E, DOMAIN g.nodes))
        /\ h = [g EXCEPT !.edges = E]
  BY DEF Ordered
<1>2. h = [nodes |-> g.nodes, edges |-> E, cache |-> g.cache, opened |-> g.opened,
           entry |-> g.entry]
  BY <1>1 DEF IsGraph
<1>3. \A e \in OrderEdges(g) : e[1] \in DOMAIN g.nodes /\ e[2] \in DOMAIN g.nodes
  BY DEF OrderEdges
<1>4. IsGraph(h)
  BY <1>1, <1>2, <1>3 DEF IsGraph, Wired
<1>5. Loopless(g) => Loopless(h)
  BY <1>1, <1>2 DEF Loopless
<1> QED BY <1>1, <1>2, <1>4, <1>5

(* g itself is one of them.                                                *)
LEMMA OrderedHoldsItself ==
  ASSUME NEW g, IsGraph(g)
  PROVE  g \in Ordered(g)
<1>1. g = [g EXCEPT !.edges = g.edges]
  BY DEF IsGraph
<1>2. g.edges \in {F \in SUBSET (g.edges \cup OrderEdges(g)) :
              g.edges \subseteq F /\ (Loopless(g) => Acyclic(F, DOMAIN g.nodes))}
  BY DEF Loopless
<1> QED BY <1>1, <1>2 DEF Ordered

(* An ordering edge that would close a cycle is skipped.                   *)
LEMMA AddOrderStays ==
  ASSUME NEW g, IsGraph(g), NEW h \in Ordered(g),
         NEW a \in DOMAIN g.nodes, NEW b \in DOMAIN g.nodes
  PROVE  AddOrder(h, a, b) \in Ordered(g)
<1> SUFFICES ASSUME a # b, a \notin Descendants(h, b)
             PROVE  [h EXCEPT !.edges = @ \cup {<<a, b, "order">>}] \in Ordered(g)
  BY DEF AddOrder
<1> DEFINE e == <<a, b, "order">>
           D == {b} \cup Descendants(h, b)
           E == h.edges \cup {e}
<1>1. IsGraph(h) /\ h.nodes = g.nodes /\ g.edges \subseteq h.edges
      /\ h.edges \subseteq g.edges \cup OrderEdges(g) /\ (Loopless(g) => Loopless(h))
  BY OrderedIsGraph
<1>2. Closed(h.edges, D)
  BY <1>1, DescendantsLeast DEF Closed, Successors, IsGraph
<1>3. e[1] # e[2] /\ e[2] \in D /\ e[1] \notin D
  OBVIOUS
<1>4. Loopless(g) => Acyclic(E, DOMAIN g.nodes)
  <2> SUFFICES ASSUME Loopless(g) PROVE Acyclic(E, DOMAIN g.nodes)
    OBVIOUS
  <2>1. Acyclic(h.edges, DOMAIN g.nodes)
    BY <1>1 DEF Loopless
  <2> HIDE DEF D, e
  <2> QED BY <1>2, <1>3, <2>1, NewEdge
<1>5. e \in OrderEdges(g)
  BY DEF OrderEdges
<1>6. [h EXCEPT !.edges = @ \cup {e}] = [g EXCEPT !.edges = E]
  BY DEF Ordered, IsGraph
<1>7. E \in SUBSET (g.edges \cup OrderEdges(g)) /\ g.edges \subseteq E
  BY <1>1, <1>5
<1> HIDE DEF e, E
<1>8. [g EXCEPT !.edges = E] \in Ordered(g)
  BY <1>4, <1>7 DEF Ordered
<1> QED BY <1>6, <1>8 DEF e

(* Of several triples of numbers, one comes last in lexicographic order.   *)
LastOf(s) == CHOOSE p \in s : \A q \in s \ {p} : Precedes(q, p)
IsLast(s, p) == p \in s /\ \A q \in s \ {p} : Precedes(q, p)
LEMMA LastTriple ==
  ASSUME NEW n \in Nat, NEW s \in SUBSET ((0 .. n) \X (0 .. n) \X (0 .. n)), s # {}
  PROVE  IsLast(s, LastOf(s))
<1> DEFINE A == {p[1] : p \in s}
<1>1. PICK m1 \in A : \A k \in A : m1 >= k
  <2>1. A \subseteq 0 .. n /\ A # {}
    OBVIOUS
  <2> HIDE DEF A
  <2> QED BY <2>1, GreatestNumber
<1> DEFINE B == {p[2] : p \in {q \in s : q[1] = m1}}
<1>2. PICK m2 \in B : \A k \in B : m2 >= k
  <2>1. B \subseteq 0 .. n /\ B # {}
    BY <1>1
  <2> HIDE DEF B
  <2> QED BY <2>1, GreatestNumber
<1> DEFINE C == {p[3] : p \in {q \in s : q[1] = m1 /\ q[2] = m2}}
<1>3. PICK m3 \in C : \A k \in C : m3 >= k
  <2>1. C \subseteq 0 .. n /\ C # {}
    BY <1>2
  <2> HIDE DEF C
  <2> QED BY <2>1, GreatestNumber
<1>4. PICK p \in s : p[1] = m1 /\ p[2] = m2 /\ p[3] = m3
  BY <1>3
<1>5. ASSUME NEW q \in s \ {p} PROVE Precedes(q, p)
  <2>1. q[1] \in 0 .. n /\ q[2] \in 0 .. n /\ q[3] \in 0 .. n /\ q = <<q[1], q[2], q[3]>>
        /\ p = <<p[1], p[2], p[3]>> /\ DOMAIN q = 1 .. 3
    OBVIOUS
  <2>2. m1 \in 0 .. n /\ m2 \in 0 .. n /\ m3 \in 0 .. n
    BY <1>4
  <2>3. q[1] <= m1 /\ (q[1] = m1 => q[2] <= m2) /\ (q[1] = m1 /\ q[2] = m2 => q[3] <= m3)
    BY <1>1, <1>2, <1>3
  <2>4. q[1] # m1 \/ q[2] # m2 \/ q[3] # m3
    BY <1>4, <1>5, <2>1
  <2> HIDE DEF A, B, C
  <2>5. CASE q[1] < m1
    <3>1. 1 \in DOMAIN q /\ \A j \in 1 .. (1 - 1) : FALSE
      BY <2>1
    <3> QED BY <1>4, <2>5, <3>1 DEF Precedes
  <2>6. CASE q[1] = m1 /\ q[2] < m2
    <3>1. 2 \in DOMAIN q /\ \A j \in 1 .. (2 - 1) : j = 1
      BY <2>1
    <3> QED BY <1>4, <2>6, <3>1 DEF Precedes
  <2>7. CASE q[1] = m1 /\ q[2] = m2 /\ q[3] < m3
    <3>1. 3 \in DOMAIN q /\ \A j \in 1 .. (3 - 1) : j = 1 \/ j = 2
      BY <2>1
    <3> QED BY <1>4, <2>7, <3>1 DEF Precedes
  <2> QED BY <2>1, <2>2, <2>3, <2>4, <2>5, <2>6, <2>7
<1> HIDE DEF A
<1> QED BY <1>4, <1>5 DEF LastOf, IsLast

(* Triples of nodes: finitely many, and any of them have a last one.       *)
Triples(N) == N \X N \X N
LEMMA TriplesOfNodes ==
  ASSUME NEW g, IsGraph(g), NEW S,
         S \subseteq Triples(DOMAIN g.nodes)
  PROVE  IsFiniteSet(S) /\ \A s \in SUBSET S : s # {} => IsLast(s, LastOf(s))
<1> DEFINE N == DOMAIN g.nodes
           T == N \X N \X N
           P == N \X (N \X N)
           pair(p) == <<p[1], <<p[2], p[3]>>>>
<1>1. IsFiniteSet(N) /\ N \subseteq 0 .. Len(g.nodes) /\ Len(g.nodes) \in Nat
  BY FiniteNodes DEF IsGraph, Wired
<1>2. IsFiniteSet(P)
  <2> HIDE DEF N
  <2> QED BY <1>1, FS_Product
<1>3. IsFiniteSet(T)
  <2> DEFINE f == [p \in P |-> <<p[1], p[2][1], p[2][2]>>]
  <2>1. f \in Surjection(P, T)
    <3> HIDE DEF N
    <3>1. f \in [P -> T]
      OBVIOUS
    <3>2. \A t \in T : \E p \in P : f[p] = t
      <4> TAKE t \in T
      <4>1. <<t[1], <<t[2], t[3]>>>> \in P /\ f[<<t[1], <<t[2], t[3]>>>>] = t
        OBVIOUS
      <4> HIDE DEF f, P
      <4> QED BY <4>1
    <3> QED BY <3>1, <3>2 DEF Surjection
  <2> HIDE DEF f, P, T
  <2> QED BY <1>2, <2>1, FS_Surjection
<1>4. IsFiniteSet(S)
  <2> HIDE DEF T, N
  <2>1. S \subseteq T
    BY DEF T, N, Triples
  <2> QED BY <1>3, <2>1, FS_Subset
<1>5. ASSUME NEW s \in SUBSET S, s # {} PROVE IsLast(s, LastOf(s))
  <2>1. s \in SUBSET ((0 .. Len(g.nodes)) \X (0 .. Len(g.nodes)) \X (0 .. Len(g.nodes)))
    BY <1>1 DEF Triples
  <2> QED BY <1>1, <1>5, <2>1, LastTriple
<1> QED BY <1>4, <1>5

(* order_writers goes from clash to clash of the stores into one node.     *)
Clash(g, n, e, f) ==
  /\ e[2] = n /\ f[2] = n /\ e[3] # "order" /\ f[3] # "order"
  /\ e[1] < f[1] /\ Intersects(e[3], f[3])
WritersFold(g, S, h) ==
  /\ IsFiniteSet(S) /\ S \subseteq Triples(DOMAIN g.nodes)
  /\ \A c \in S : /\ c[1] \in DataNodes(g)
                 /\ \E e, f \in g.edges : Clash(g, c[1], e, f) /\ c[2] = e[1] /\ c[3] = f[1]
  /\ \A n \in DataNodes(g), e, f \in g.edges : Clash(g, n, e, f) => <<n, e[1], f[1]>> \in S
  /\ h[{}] = g /\ h[S] = OrderWriters(g)
  /\ \A s \in SUBSET S : s # {} =>
       \E c \in s : h[s] = AddOrder(h[s \ {c}], c[2], c[3])
LEMMA OrderWritersFold ==
  ASSUME NEW g, IsGraph(g)
  PROVE  \E S, h : WritersFold(g, S, h)
<1> DEFINE
  N == DOMAIN g.nodes
  stores(n) == {e \in g.edges : e[2] = n /\ e[3] # "order"}
  clashes(n) == {<<n, e[1], f[1]>> : e, f \in stores(n)}
  may(c) == \E e, f \in stores(c[1]) :
              e[1] = c[2] /\ f[1] = c[3] /\ Intersects(e[3], f[3])
  S == {c \in UNION {clashes(n) : n \in DataNodes(g)} : c[2] < c[3] /\ may(c)}
  G == Ordered(g)
  op == [p \in S \X G |-> AddOrder(p[2], p[1][2], p[1][3])]
  pick == [s \in SUBSET S |-> LastOf(s)]
<1>1. S \subseteq Triples(N)
  <2>1. DataNodes(g) \subseteq N
    BY DEF DataNodes
  <2>2. \A n \in N : \A e, f \in stores(n) : <<n, e[1], f[1]>> \in N \X N \X N
    BY DEF IsGraph, Wired
  <2>3. \A n \in N : clashes(n) \subseteq N \X N \X N
    <3> HIDE DEF N, stores
    <3> QED BY <2>2
  <2> HIDE DEF clashes, N, may
  <2> QED BY <2>1, <2>3 DEF Triples
<1>1a. ASSUME NEW c \in S
       PROVE  /\ c[1] \in DataNodes(g)
              /\ \E e, f \in g.edges : Clash(g, c[1], e, f) /\ c[2] = e[1] /\ c[3] = f[1]
  <2>1. PICK e \in stores(c[1]), f \in stores(c[1]) :
          e[1] = c[2] /\ f[1] = c[3] /\ Intersects(e[3], f[3])
    OBVIOUS
  <2>2. c[1] \in DataNodes(g)
    <3> HIDE DEF stores, may
    <3> QED OBVIOUS
  <2> QED BY <2>1, <2>2 DEF Clash
<1>1b. ASSUME NEW n \in DataNodes(g), NEW e \in g.edges, NEW f \in g.edges, Clash(g, n, e, f)
       PROVE  <<n, e[1], f[1]>> \in S
  <2>1. e \in stores(n) /\ f \in stores(n) /\ e[1] < f[1] /\ Intersects(e[3], f[3])
    BY <1>1b DEF Clash
  <2>2. <<n, e[1], f[1]>> \in clashes(n) /\ may(<<n, e[1], f[1]>>)
    BY <2>1
  <2> HIDE DEF clashes, may, stores
  <2> QED BY <2>1, <2>2
<1> HIDE DEF stores, clashes, may
<1>2. IsFiniteSet(S) /\ \A s \in SUBSET S : s # {} => LastOf(s) \in s
  <2> HIDE DEF S
  <2> QED BY <1>1, TriplesOfNodes DEF IsLast
<1>3. g \in G
  BY OrderedHoldsItself
<1>3a. op \in [S \X G -> G]
  <2>1. \A c \in S, h \in G : AddOrder(h, c[2], c[3]) \in G
    <3> SUFFICES ASSUME NEW c \in S, NEW h \in G PROVE AddOrder(h, c[2], c[3]) \in G
      OBVIOUS
    <3> HIDE DEF S
    <3>1. c[2] \in N /\ c[3] \in N
      BY <1>1 DEF Triples
    <3> QED BY <3>1, AddOrderStays
  <2> HIDE DEF S, G
  <2> QED BY <2>1
<1>4. \A s \in SUBSET S : s # {} => pick[s] \in s
  <2> HIDE DEF S
  <2> QED BY <1>2
<1>5. PICK f \in [SUBSET S -> G] : FoldOver(f, S, g, op, pick)
  <2> HIDE DEF S, G, op, pick
  <2>1. IsFiniteSet(S)
    BY <1>2
  <2> QED BY <2>1, <1>3, <1>3a, <1>4, FoldExists
<1>6. f = [s \in SUBSET S |->
             IF s = {} THEN g ELSE AddOrder(f[s \ {LastOf(s)}], LastOf(s)[2], LastOf(s)[3])]
  <2> HIDE DEF S, G
  <2>1. \A s \in SUBSET S : s # {} =>
          /\ <<LastOf(s), f[s \ {LastOf(s)}]>> \in S \X G /\ pick[s] = LastOf(s)
    BY <1>2
  <2>2. \A s \in SUBSET S : s # {} =>
          f[s] = AddOrder(f[s \ {LastOf(s)}], LastOf(s)[2], LastOf(s)[3])
    BY <1>5, <2>1 DEF FoldOver
  <2> HIDE DEF op, pick
  <2> QED BY <1>5, <2>2 DEF FoldOver
<1>7. PICK h : /\ h = [s \in SUBSET S |->
                         IF s = {} THEN g
                         ELSE LET x == CHOOSE p \in s : \A q \in s \ {p} : Precedes(q, p)
                              IN  AddOrder(h[s \ {x}], x[2], x[3])]
               /\ OrderWriters(g) = h[S]
  <2>1. f = [s \in SUBSET S |->
               IF s = {} THEN g
               ELSE LET x == CHOOSE p \in s : \A q \in s \ {p} : Precedes(q, p)
                    IN  AddOrder(f[s \ {x}], x[2], x[3])]
    <3> HIDE DEF S
    <3> QED BY <1>6 DEF LastOf
  <2>2. OrderWriters(g) = InOrder(LAMBDA c, h : AddOrder(h, c[2], c[3]), g, S)
    BY DEF OrderWriters, stores, clashes, may
  <2> HIDE DEF S
  <2> QED BY <2>1, <2>2 DEF InOrder, MapThenFoldSet
<1>8. \A s \in SUBSET S : s # {} =>
        LastOf(s) \in s /\ h[s] = AddOrder(h[s \ {LastOf(s)}], LastOf(s)[2], LastOf(s)[3])
  <2> HIDE DEF S
  <2> QED BY <1>2, <1>7 DEF LastOf
<1>9. h[{}] = g
  <2> HIDE DEF S
  <2> QED BY <1>7
<1> HIDE DEF S
<1>10. \A s \in SUBSET S : s # {} =>
         \E c \in s : h[s] = AddOrder(h[s \ {c}], c[2], c[3])
  BY <1>8
<1>11. IsFiniteSet(S) /\ h[S] = OrderWriters(g)
  BY <1>2, <1>7
<1>12. WritersFold(g, S, h)
  BY <1>1, <1>1a, <1>1b, <1>9, <1>10, <1>11 DEF WritersFold
<1> QED BY <1>12

(* order_writers adds ordering edges only.                                 *)
LEMMA OrderWritersStays ==
  ASSUME NEW g, IsGraph(g)
  PROVE  OrderWriters(g) \in Ordered(g)
<1> DEFINE G == Ordered(g)
<1>1. PICK S, h : WritersFold(g, S, h)
  BY OrderWritersFold
<1>2. h[{}] \in G
  BY <1>1, OrderedHoldsItself DEF WritersFold
<1>3. ASSUME NEW s \in SUBSET S, s # {}
      PROVE  \E x \in s : h[s \ {x}] \in G => h[s] \in G
  <2>1. PICK x \in s : h[s] = AddOrder(h[s \ {x}], x[2], x[3])
    BY <1>1, <1>3 DEF WritersFold
  <2>2. x[2] \in DOMAIN g.nodes /\ x[3] \in DOMAIN g.nodes
    BY <1>1 DEF WritersFold, Triples
  <2> QED BY <2>1, <2>2, AddOrderStays
<1>4. h[S] \in G
  <2> HIDE DEF G
  <2>1. IsFiniteSet(S)
    BY <1>1 DEF WritersFold
  <2> QED BY <1>2, <1>3, <2>1, FoldStays
<1> QED BY <1>1, <1>4 DEF WritersFold

(* The anchors of a node are nodes.                                        *)
LEMMA AnchorsAreNodes ==
  ASSUME NEW g, Wired(g), NEW n \in DOMAIN g.nodes,
         NEW E, \A e \in E : e[2] \in DOMAIN g.nodes
  PROVE  Anchors(g, E, n) \subseteq DOMAIN g.nodes
<1> DEFINE N == DOMAIN g.nodes
           through(S) == S \cup Successors(E, S \cap DataNodes(g))
           X == SUBSET N
           F == [S \in X |-> through(S)]
           base == {n}
<1>1. \A S \in X : through(S) \in X
  BY DEF Successors
<1>2. F \in [X -> X] /\ base \in X
  BY <1>1
<1>3. PICK f \in [Nat -> X] : \A k \in Nat : f[k] = IF k = 0 THEN base ELSE F[f[k - 1]]
  <2> HIDE DEF X, F, base
  <2> QED BY <1>2, IterationExists
<1>4. PICK h : /\ h = [k \in Nat |-> IF k = 0 THEN {n} ELSE through(h[k - 1])]
               /\ Anchors(g, E, n) = {m \in h[Len(g.nodes)] :
                                        m \in CodeNodes(g) \/ Successors(E, {m}) = {}}
  <2>1. \A k \in Nat : k # 0 => F[f[k - 1]] = through(f[k - 1])
    <3>1. \A k \in Nat : k # 0 => f[k - 1] \in X
      <4> HIDE DEF X
      <4> QED OBVIOUS
    <3> HIDE DEF X
    <3> QED BY <3>1
  <2>2. f = [k \in Nat |-> IF k = 0 THEN {n} ELSE through(f[k - 1])]
    <3> HIDE DEF F, X
    <3> QED BY <1>3, <2>1
  <2> QED BY <2>2 DEF Anchors
<1>5. \A k \in Nat : h[k] \in X
  <2> DEFINE T == {k \in Nat : h[k] \in X}
  <2>1. 0 \in T
    BY <1>4
  <2>2. ASSUME NEW k \in Nat, k \in T PROVE k + 1 \in T
    <3>1. h[k + 1] = through(h[k])
      <4> HIDE DEF through
      <4>1. k + 1 \in Nat /\ k + 1 # 0 /\ (k + 1) - 1 = k
        OBVIOUS
      <4> QED BY <1>4, <4>1
    <3> QED BY <1>1, <2>2, <3>1
  <2>3. Nat \subseteq T
    <3> HIDE DEF T
    <3> QED BY <2>1, <2>2, AllNumbers
  <2> QED BY <2>3
<1> QED BY <1>4, <1>5 DEF Wired

(* Pairs of nodes.                                                         *)
Pairs(N) == N \X N
LEMMA PairOfNodes ==
  ASSUME NEW N, NEW c \in Pairs(N)
  PROVE  c[1] \in N /\ c[2] \in N
BY DEF Pairs

(* Ordering edges for a set of pairs are added one after the other.        *)
PairsFold(h, S, F) ==
  /\ F[{}] = h /\ F[S] = FoldSet(LAMBDA p, k : AddOrder(k, p[1], p[2]), h, S)
  /\ \A s \in SUBSET S : s # {} =>
       \E c \in s : F[s] = AddOrder(F[s \ {c}], c[1], c[2])
LEMMA OrderPairsFold ==
  ASSUME NEW g, IsGraph(g), NEW h \in Ordered(g),
         NEW S, IsFiniteSet(S), S \subseteq Pairs(DOMAIN g.nodes)
  PROVE  \E F : PairsFold(h, S, F)
<1> DEFINE
  G == Ordered(g)
  op == [p \in S \X G |-> AddOrder(p[2], p[1][1], p[1][2])]
  some(s) == CHOOSE x \in s : TRUE
  pick == [s \in SUBSET S |-> some(s)]
<1>1. \A c \in S, k \in G : AddOrder(k, c[1], c[2]) \in G
  <2> SUFFICES ASSUME NEW c \in S, NEW k \in G PROVE AddOrder(k, c[1], c[2]) \in G
    OBVIOUS
  <2>1. c[1] \in DOMAIN g.nodes /\ c[2] \in DOMAIN g.nodes
    BY PairOfNodes
  <2> QED BY <2>1, AddOrderStays
<1>2. op \in [S \X G -> G]
  <2> HIDE DEF G
  <2> QED BY <1>1
<1>3. \A s \in SUBSET S : s # {} => pick[s] \in s /\ some(s) \in s
  OBVIOUS
<1>4. PICK f \in [SUBSET S -> G] : FoldOver(f, S, h, op, pick)
  <2>1. \A s \in SUBSET S : s # {} => pick[s] \in s
    BY <1>3
  <2> HIDE DEF G, op, pick
  <2>2. h \in G
    BY DEF G
  <2> QED BY <1>2, <2>1, <2>2, FoldExists
<1>5. f = [s \in SUBSET S |->
             IF s = {} THEN h
             ELSE AddOrder(f[s \ {some(s)}], some(s)[1], some(s)[2])]
  <2> HIDE DEF G, some
  <2>1. \A s \in SUBSET S : s # {} =>
          /\ <<some(s), f[s \ {some(s)}]>> \in S \X G /\ pick[s] = some(s)
    BY <1>3
  <2>2. \A s \in SUBSET S : s # {} =>
          f[s] = AddOrder(f[s \ {some(s)}], some(s)[1], some(s)[2])
    BY <1>4, <2>1 DEF FoldOver
  <2> HIDE DEF op, pick
  <2> QED BY <1>4, <2>2 DEF FoldOver
<1>6. PICK F : /\ F = [s \in SUBSET S |->
                         IF s = {} THEN h
                         ELSE LET x == CHOOSE x \in s : TRUE
                              IN  AddOrder(F[s \ {x}], x[1], x[2])]
               /\ FoldSet(LAMBDA p, k : AddOrder(k, p[1], p[2]), h, S) = F[S]
  <2>1. f = [s \in SUBSET S |->
               IF s = {} THEN h
               ELSE LET x == CHOOSE x \in s : TRUE
                    IN  AddOrder(f[s \ {x}], x[1], x[2])]
    BY <1>5
  <2> QED BY <2>1 DEF FoldSet, MapThenFoldSet
<1>7. \A s \in SUBSET S : s # {} =>
        some(s) \in s /\ F[s] = AddOrder(F[s \ {some(s)}], some(s)[1], some(s)[2])
  BY <1>3, <1>6
<1>8. F[{}] = h
  BY <1>6
<1>9. \A s \in SUBSET S : s # {} =>
        \E c \in s : F[s] = AddOrder(F[s \ {c}], c[1], c[2])
  <2> HIDE DEF some
  <2> QED BY <1>7
<1>10. PairsFold(h, S, F)
  BY <1>6, <1>8, <1>9 DEF PairsFold
<1> QED BY <1>10

(* The pairs that order_state orders for two access nodes.                 *)
LEMMA PairsOfAnchors ==
  ASSUME NEW g, IsGraph(g), NEW a \in DOMAIN g.nodes, NEW b \in DOMAIN g.nodes
  PROVE  LET S == LoadAnchors(g, a) \X StoreAnchors(g, b)
         IN  IsFiniteSet(S) /\ S \subseteq Pairs(DOMAIN g.nodes)
<1> DEFINE N == DOMAIN g.nodes
<1>1. LoadAnchors(g, a) \subseteq N /\ StoreAnchors(g, b) \subseteq N
  <2>1. \A e \in g.edges : e[2] \in DOMAIN g.nodes
    BY DEF IsGraph, Wired
  <2>2. \A e \in {<<e[2], e[1], e[3]>> : e \in g.edges} : e[2] \in DOMAIN g.nodes
    BY DEF IsGraph, Wired
  <2> QED BY <2>1, <2>2, AnchorsAreNodes DEF LoadAnchors, StoreAnchors, IsGraph
<1>2. IsFiniteSet(N)
  BY FiniteNodes DEF IsGraph
<1>3. IsFiniteSet(LoadAnchors(g, a)) /\ IsFiniteSet(StoreAnchors(g, b))
  <2> HIDE DEF N
  <2> QED BY <1>1, <1>2, FS_Subset
<1> DEFINE A == LoadAnchors(g, a)
           B == StoreAnchors(g, b)
<1>4. IsFiniteSet(A \X B)
  <2> HIDE DEF A, B
  <2>1. IsFiniteSet(A) /\ IsFiniteSet(B)
    BY <1>3 DEF A, B
  <2> QED BY <2>1, FS_Product
<1>5. A \X B \subseteq Pairs(N)
  <2> HIDE DEF A, B, N
  <2>1. A \subseteq N /\ B \subseteq N
    BY <1>1 DEF A, B
  <2> QED BY <2>1 DEF Pairs
<1> HIDE DEF A, B
<1> QED BY <1>4, <1>5 DEF A, B

(* order_state orders two access nodes with ordering edges only.           *)
LEMMA OrderPairStays ==
  ASSUME NEW g, IsGraph(g), NEW h \in Ordered(g),
         NEW a \in DOMAIN g.nodes, NEW b \in DOMAIN g.nodes
  PROVE  OrderPair(h, a, b) \in Ordered(g)
<1> DEFINE
  S == LoadAnchors(h, a) \X StoreAnchors(h, b)
  G == Ordered(g)
<1>1. IsGraph(h) /\ h.nodes = g.nodes
  BY OrderedIsGraph
<1>2. IsFiniteSet(S) /\ S \subseteq Pairs(DOMAIN g.nodes)
  BY <1>1, PairsOfAnchors
<1>3. PICK F : PairsFold(h, S, F)
  <2> HIDE DEF S
  <2> QED BY <1>2, OrderPairsFold
<1>4. F[S] \in G
  <2>1. ASSUME NEW s \in SUBSET S, s # {}
        PROVE  \E x \in s : F[s \ {x}] \in G => F[s] \in G
    <3> HIDE DEF S
    <3>1. PICK x \in s : F[s] = AddOrder(F[s \ {x}], x[1], x[2])
      BY <1>3, <2>1 DEF PairsFold
    <3>2. x[1] \in DOMAIN g.nodes /\ x[2] \in DOMAIN g.nodes
      BY <1>2, PairOfNodes
    <3> QED BY <3>1, <3>2, AddOrderStays
  <2>2. F[{}] \in G
    BY <1>3 DEF PairsFold
  <2> HIDE DEF S, G
  <2> QED BY <1>2, <2>1, <2>2, FoldStays
<1>5. AddOrder(h, a, b) \in G
  BY AddOrderStays
<1>6. OrderPair(h, a, b) \in {h, AddOrder(h, a, b), F[S]}
  <2> HIDE DEF G
  <2> QED BY <1>3 DEF OrderPair, PairsFold
<1> HIDE DEF G, S
<1>7. h \in G
  BY DEF G
<1> QED BY <1>4, <1>5, <1>6, <1>7 DEF G

(* order_state goes from pair to pair of access nodes of one container.     *)
StateFold(g, S, h) ==
  /\ IsFiniteSet(S) /\ S \subseteq Triples(DOMAIN g.nodes)
  /\ \A c \in S : /\ c[2] \in DataNodes(g) /\ c[3] \in DataNodes(g) /\ c[2] < c[3]
                 /\ g.nodes[c[2]].data = g.nodes[c[3]].data
  /\ \A c, q \in S : c[2] = q[2] => c[1] = q[1]
  /\ \A a, b \in DataNodes(g) :
       a < b /\ g.nodes[a].data = g.nodes[b].data => \E c \in S : c[2] = a /\ c[3] = b
  /\ h[{}] = g
  /\ \A s \in SUBSET S : s # {} =>
       \E c \in s : IsLast(s, c) /\ h[s] = OrderPair(h[s \ {c}], c[2], c[3])
LEMMA OrderStateFold ==
  ASSUME NEW g, IsGraph(g)
  PROVE  LET w == OrderWriters(g)
         IN  IsGraph(w) /\ \E S, h : StateFold(w, S, h) /\ h[S] = OrderState(g)
<1> DEFINE
  w == OrderWriters(g)
  N == DOMAIN w.nodes
  alike(d) == {m \in DataNodes(w) : w.nodes[m].data = d}
  first(d) == Min({m \in DataNodes(w) : w.nodes[m].data = d})
  same == {c \in DataNodes(w) \X DataNodes(w) :
             c[1] < c[2] /\ w.nodes[c[1]].data = w.nodes[c[2]].data}
  S == {<<first(w.nodes[c[1]].data), c[1], c[2]>> : c \in same}
  G == Ordered(w)
  op == [p \in S \X G |-> OrderPair(p[2], p[1][2], p[1][3])]
  pick == [s \in SUBSET S |-> LastOf(s)]
<1>1. IsGraph(w)
  <2>1. w \in Ordered(g)
    BY OrderWritersStays
  <2> HIDE DEF w
  <2> QED BY <2>1, OrderedIsGraph
<1>2. S \subseteq Triples(N)
  <2>1. DataNodes(w) \subseteq N /\ N \subseteq Nat
    BY <1>1 DEF DataNodes, IsGraph, Wired
  <2>2. \A m \in DataNodes(w) : first(w.nodes[m].data) \in N
    <3> SUFFICES ASSUME NEW m \in DataNodes(w) PROVE first(w.nodes[m].data) \in N
      OBVIOUS
    <3> DEFINE A == alike(w.nodes[m].data)
    <3>1. m \in A /\ A \subseteq N
      BY <2>1
    <3>2. \E x \in A : \A y \in A : x <= y
      <4> HIDE DEF A, w
      <4>1. A \subseteq Nat /\ A # {}
        BY <2>1, <3>1
      <4> QED BY <4>1, LeastNumber
    <3>3. Min(A) \in A
      <4> HIDE DEF A
      <4> QED BY <3>2 DEF Min
    <3> QED BY <3>1, <3>3
  <2>3. \A c \in same : <<first(w.nodes[c[1]].data), c[1], c[2]>> \in Triples(N)
    <3> HIDE DEF first, w
    <3> QED BY <2>1, <2>2 DEF Triples
  <2> HIDE DEF first, w, same
  <2> QED BY <2>3
<1>2a. \A c \in S : /\ c[2] \in DataNodes(w) /\ c[3] \in DataNodes(w) /\ c[2] < c[3]
                   /\ w.nodes[c[2]].data = w.nodes[c[3]].data
                   /\ c[1] = first(w.nodes[c[2]].data)
  <2> HIDE DEF first, w
  <2> QED OBVIOUS
<1>2b. \A c, q \in S : c[2] = q[2] => c[1] = q[1]
  <2> HIDE DEF S, first, w
  <2> QED BY <1>2a
<1>2c. ASSUME NEW a \in DataNodes(w), NEW b \in DataNodes(w),
              a < b, w.nodes[a].data = w.nodes[b].data
       PROVE  \E c \in S : c[2] = a /\ c[3] = b
  <2>1. <<a, b>> \in same
    BY <1>2c
  <2> HIDE DEF first, w, same
  <2>2. <<first(w.nodes[a].data), a, b>> \in S
    BY <2>1
  <2> HIDE DEF S
  <2> QED BY <2>2
<1>3. OrderState(g) = InOrder(LAMBDA c, h : OrderPair(h, c[2], c[3]), w, S)
  BY DEF OrderState
<1> HIDE DEF w, first, same, S
<1>4. IsFiniteSet(S) /\ \A s \in SUBSET S : s # {} => IsLast(s, LastOf(s)) /\ LastOf(s) \in s
  BY <1>1, <1>2, TriplesOfNodes DEF IsLast
<1>5. \A c \in S, h \in G : OrderPair(h, c[2], c[3]) \in G
  <2> SUFFICES ASSUME NEW c \in S, NEW h \in G PROVE OrderPair(h, c[2], c[3]) \in G
    OBVIOUS
  <2>1. c[2] \in N /\ c[3] \in N
    BY <1>2 DEF Triples
  <2> QED BY <1>1, <2>1, OrderPairStays
<1>6. op \in [S \X G -> G]
  <2> HIDE DEF G
  <2> QED BY <1>5
<1>7. w \in G
  BY <1>1, OrderedHoldsItself
<1>8. PICK f \in [SUBSET S -> G] : FoldOver(f, S, w, op, pick)
  <2>1. \A s \in SUBSET S : s # {} => pick[s] \in s
    BY <1>4
  <2>2. IsFiniteSet(S)
    BY <1>4
  <2> HIDE DEF G, op, pick
  <2> QED BY <1>6, <1>7, <2>1, <2>2, FoldExists
<1>9. f = [s \in SUBSET S |->
             IF s = {} THEN w ELSE OrderPair(f[s \ {LastOf(s)}], LastOf(s)[2], LastOf(s)[3])]
  <2> HIDE DEF G
  <2>1. \A s \in SUBSET S : s # {} =>
          /\ <<LastOf(s), f[s \ {LastOf(s)}]>> \in S \X G /\ pick[s] = LastOf(s)
    BY <1>4
  <2>2. \A s \in SUBSET S : s # {} =>
          f[s] = OrderPair(f[s \ {LastOf(s)}], LastOf(s)[2], LastOf(s)[3])
    BY <1>8, <2>1 DEF FoldOver
  <2> HIDE DEF op, pick
  <2> QED BY <1>8, <2>2 DEF FoldOver
<1>10. PICK h : /\ h = [s \in SUBSET S |->
                         IF s = {} THEN w
                         ELSE LET x == CHOOSE p \in s : \A q \in s \ {p} : Precedes(q, p)
                              IN  OrderPair(h[s \ {x}], x[2], x[3])]
                /\ OrderState(g) = h[S]
  <2>1. f = [s \in SUBSET S |->
               IF s = {} THEN w
               ELSE LET x == CHOOSE p \in s : \A q \in s \ {p} : Precedes(q, p)
                    IN  OrderPair(f[s \ {x}], x[2], x[3])]
    BY <1>9 DEF LastOf
  <2> QED BY <1>3, <2>1 DEF InOrder, MapThenFoldSet
<1>11. \A s \in SUBSET S : s # {} =>
         /\ IsLast(s, LastOf(s)) /\ LastOf(s) \in s
         /\ h[s] = OrderPair(h[s \ {LastOf(s)}], LastOf(s)[2], LastOf(s)[3])
  BY <1>4, <1>10 DEF LastOf
<1>12. h[{}] = w
  BY <1>10
<1>13. \A s \in SUBSET S : s # {} =>
         \E c \in s : IsLast(s, c) /\ h[s] = OrderPair(h[s \ {c}], c[2], c[3])
  BY <1>11
<1>14. \A a, b \in DataNodes(w) :
         a < b /\ w.nodes[a].data = w.nodes[b].data => \E c \in S : c[2] = a /\ c[3] = b
  BY <1>2c
<1>15. StateFold(w, S, h)
  BY <1>2, <1>2a, <1>2b, <1>4, <1>12, <1>13, <1>14 DEF StateFold
<1> QED BY <1>1, <1>10, <1>15 DEF w

(* order_state adds ordering edges only, and closes no cycle with them.    *)
LEMMA OrderStateStays ==
  ASSUME NEW g, IsGraph(g)
  PROVE  LET w == OrderWriters(g) IN IsGraph(w) /\ OrderState(g) \in Ordered(w)
<1> DEFINE w == OrderWriters(g)
           G == Ordered(w)
<1>1. IsGraph(w)
  BY OrderStateFold
<1>2. PICK S, h : StateFold(w, S, h) /\ h[S] = OrderState(g)
  BY OrderStateFold
<1> HIDE DEF w
<1>3. h[{}] \in G
  BY <1>1, <1>2, OrderedHoldsItself DEF StateFold
<1>4. ASSUME NEW s \in SUBSET S, s # {}
      PROVE  \E x \in s : h[s \ {x}] \in G => h[s] \in G
  <2>1. PICK x \in s : h[s] = OrderPair(h[s \ {x}], x[2], x[3])
    BY <1>2, <1>4 DEF StateFold
  <2>2. x[2] \in DOMAIN w.nodes /\ x[3] \in DOMAIN w.nodes
    BY <1>2 DEF StateFold, Triples
  <2> QED BY <1>1, <2>1, <2>2, OrderPairStays
<1>5. h[S] \in G
  <2>1. IsFiniteSet(S)
    BY <1>2 DEF StateFold
  <2> HIDE DEF G
  <2> QED BY <1>3, <1>4, <2>1, FoldStays
<1> QED BY <1>1, <1>2, <1>5 DEF w

(* Of a state graph, the ordering pass keeps the nodes and the edges, and  *)
(* an acyclic one stays acyclic.                                           *)
THEOREM OrderStateKeeps ==
  ASSUME NEW g, IsGraph(g)
  PROVE  LET h == OrderState(g)
         IN  /\ IsGraph(h) /\ h.nodes = g.nodes /\ g.edges \subseteq h.edges
             /\ h.entry = g.entry
             /\ Loopless(g) => Loopless(h)
<1> DEFINE w == OrderWriters(g)
           h == OrderState(g)
<1>1. w \in Ordered(g) /\ IsGraph(w) /\ h \in Ordered(w)
  BY OrderWritersStays, OrderStateStays
<1> HIDE DEF w, h
<1>2. w.nodes = g.nodes /\ g.edges \subseteq w.edges /\ w.entry = g.entry
      /\ (Loopless(g) => Loopless(w))
  BY <1>1, OrderedIsGraph
<1>3. IsGraph(h) /\ h.nodes = w.nodes /\ w.edges \subseteq h.edges /\ h.entry = w.entry
      /\ (Loopless(w) => Loopless(h))
  BY <1>1, OrderedIsGraph
<1> QED BY <1>2, <1>3 DEF h

-----------------------------------------------------------------------------
(* What the pass orders.  The graphs of statements over containers without *)
(* views: every edge joins an access node and a code node, the access      *)
(* nodes of a container are its successive versions, and the numbers of    *)
(* the code nodes are the order of the statements.                         *)
Edge(g, p, q) == \E e \in g.edges : e[1] = p /\ e[2] = q
Writers(g, n) == {t \in CodeNodes(g) : Edge(g, t, n)}
Later(g, n, m) ==
  n \in DataNodes(g) /\ m \in DataNodes(g) /\ n < m /\ g.nodes[n].data = g.nodes[m].data

Bipartite(g) ==
  \A e \in g.edges :
    /\ e[3] # "order"
    /\ \/ e[1] \in DataNodes(g) /\ e[2] \in CodeNodes(g)
       \/ e[1] \in CodeNodes(g) /\ e[2] \in DataNodes(g)
WritersFirst(g) ==
  \A n \in DataNodes(g) : \A t \in Writers(g, n), u \in CodeNodes(g) : Edge(g, n, u) => t < u
VersionsInOrder(g) ==
  \A n, m \in DataNodes(g) : Later(g, n, m) =>
    \A u \in Writers(g, m) :
      /\ \A t \in Writers(g, n) : t < u
      /\ \A t \in CodeNodes(g) : Edge(g, n, t) => t <= u
LaterWritten(g) == \A n, m \in DataNodes(g) : Later(g, n, m) => Writers(g, m) # {}
Versioned(g) ==
  IsGraph(g) /\ Bipartite(g) /\ WritersFirst(g) /\ VersionsInOrder(g) /\ LaterWritten(g)

(* An ordering edge may lead to a later statement only: from a code node   *)
(* to a larger one, from an access node to one behind all that write it.   *)
Below(g, p, c) ==
  /\ p \in DOMAIN g.nodes /\ c \in CodeNodes(g)
  /\ p \in CodeNodes(g) => p < c
  /\ \A t \in Writers(g, p) : t < c
Rising(g, h) ==
  /\ IsGraph(h) /\ h.nodes = g.nodes /\ g.edges \subseteq h.edges
  /\ \A e \in h.edges \ g.edges : e[3] = "order" /\ Below(g, e[1], e[2])

(* What is written by statement w or a later one, and the later ones.      *)
Climb(g, w) ==
  {t \in CodeNodes(g) : t > w} \cup {n \in DataNodes(g) : \E t \in Writers(g, n) : t >= w}

(* The parts of a graph.                                                   *)
LEMMA NodesOfGraph ==
  ASSUME NEW g, IsGraph(g)
  PROVE  /\ DataNodes(g) \subseteq DOMAIN g.nodes /\ CodeNodes(g) \subseteq DOMAIN g.nodes
         /\ DOMAIN g.nodes \subseteq Nat
         /\ \A n \in DOMAIN g.nodes : n \in DataNodes(g) <=> n \notin CodeNodes(g)
         /\ \A n : Writers(g, n) \subseteq CodeNodes(g)
BY DEF IsGraph, Wired, DataNodes, CodeNodes, Writers

(* No edge leaves it, ordering edges included.                             *)
LEMMA ClimbClosed ==
  ASSUME NEW g, NEW h, Versioned(g), Rising(g, h), NEW w \in Nat
  PROVE  Closed(h.edges, Climb(g, w))
<1> SUFFICES ASSUME NEW e \in h.edges, e[1] \in Climb(g, w) PROVE e[2] \in Climb(g, w)
  BY DEF Closed, Successors
<1>1. /\ DataNodes(g) \subseteq DOMAIN g.nodes /\ CodeNodes(g) \subseteq DOMAIN g.nodes
      /\ DOMAIN g.nodes \subseteq Nat
      /\ \A n \in DOMAIN g.nodes : n \in DataNodes(g) <=> n \notin CodeNodes(g)
      /\ \A n : Writers(g, n) \subseteq CodeNodes(g)
  BY NodesOfGraph DEF Versioned
<1>2. CASE e \in g.edges /\ e[1] \in CodeNodes(g)
  <2>1. e[1] > w /\ e[2] \in DataNodes(g)
    BY <1>1, <1>2 DEF Climb, Versioned, Bipartite
  <2>2. e[1] \in Writers(g, e[2])
    BY <1>2 DEF Writers, Edge
  <2>3. e[1] >= w
    BY <1>1, <1>2, <2>1
  <2> QED BY <2>1, <2>2, <2>3 DEF Climb
<1>3. CASE e \in g.edges /\ e[1] \in DataNodes(g)
  <2>1. PICK t \in Writers(g, e[1]) : t >= w
    BY <1>1, <1>3 DEF Climb
  <2>2. e[2] \in CodeNodes(g) /\ Edge(g, e[1], e[2])
    BY <1>1, <1>3 DEF Versioned, Bipartite, Edge
  <2>3. t < e[2]
    BY <1>3, <2>1, <2>2 DEF Versioned, WritersFirst
  <2>4. e[2] > w
    BY <1>1, <2>1, <2>2, <2>3
  <2> QED BY <2>2, <2>4 DEF Climb
<1>4. CASE e \notin g.edges
  <2>1. Below(g, e[1], e[2])
    BY <1>4 DEF Rising
  <2>2. e[2] > w
    <3>1. CASE e[1] \in CodeNodes(g)
      <4>1. e[1] > w
        BY <1>1, <3>1 DEF Climb
      <4> QED BY <1>1, <2>1, <3>1, <4>1 DEF Below
    <3>2. CASE e[1] \notin CodeNodes(g)
      <4>1. PICK t \in Writers(g, e[1]) : t >= w
        BY <3>2 DEF Climb
      <4> QED BY <1>1, <2>1, <4>1 DEF Below
    <3> QED BY <3>1, <3>2
  <2> QED BY <2>1, <2>2 DEF Below, Climb
<1>5. e[1] \in CodeNodes(g) \cup DataNodes(g)
  BY DEF Climb
<1> QED BY <1>2, <1>3, <1>4, <1>5

(* A statement leads to later ones only.                                   *)
LEMMA NoWayBack ==
  ASSUME NEW g, NEW h, Versioned(g), Rising(g, h), NEW w \in CodeNodes(g)
  PROVE  /\ Descendants(h, w) \subseteq Climb(g, w)
         /\ \A n \in DataNodes(g) : w \in Writers(g, n) => Descendants(h, n) \subseteq Climb(g, w)
<1> DEFINE C == Climb(g, w)
<1>1. /\ DataNodes(g) \subseteq DOMAIN g.nodes /\ CodeNodes(g) \subseteq DOMAIN g.nodes
      /\ DOMAIN g.nodes \subseteq Nat
      /\ \A n \in DOMAIN g.nodes : n \in DataNodes(g) <=> n \notin CodeNodes(g)
      /\ \A n : Writers(g, n) \subseteq CodeNodes(g)
  BY NodesOfGraph DEF Versioned
<1>2. w \in Nat /\ Wired(h)
  BY <1>1 DEF Rising, IsGraph
<1>3. Closed(h.edges, C)
  BY <1>2, ClimbClosed
<1>4. Successors(h.edges, {w}) \subseteq C
  <2> SUFFICES ASSUME NEW e \in h.edges, e[1] = w PROVE e[2] \in C
    BY DEF Successors
  <2>1. CASE e \in g.edges
    <3>1. e[2] \in DataNodes(g) /\ w \in Writers(g, e[2])
      BY <1>1, <2>1 DEF Versioned, Bipartite, Writers, Edge
    <3>2. w >= w
      BY <1>2
    <3> QED BY <3>1, <3>2 DEF Climb
  <2>2. CASE e \notin g.edges
    <3>1. e[2] \in CodeNodes(g) /\ w < e[2]
      BY <2>2 DEF Rising, Below
    <3>2. e[2] > w
      BY <1>1, <3>1
    <3> QED BY <3>1, <3>2 DEF Climb
  <2> QED BY <2>1, <2>2
<1>5. ASSUME NEW n \in DataNodes(g), w \in Writers(g, n)
      PROVE  Successors(h.edges, {n}) \subseteq C
  <2>1. n \in C
    <3>1. w >= w
      BY <1>2
    <3> QED BY <1>5, <3>1 DEF Climb
  <2> QED BY <1>3, <2>1 DEF Closed, Successors
<1> HIDE DEF C
<1>6. Descendants(h, w) \subseteq C
  BY <1>2, <1>3, <1>4, DescendantsLeast
<1>7. \A n \in DataNodes(g) : w \in Writers(g, n) => Descendants(h, n) \subseteq C
  BY <1>2, <1>3, <1>5, DescendantsLeast
<1> QED BY <1>6, <1>7 DEF C

(* An edge reaches its end, and what that reaches.                         *)
LEMMA Reaches ==
  ASSUME NEW h, Wired(h), NEW e \in h.edges
  PROVE  e[2] \in Descendants(h, e[1]) /\ Descendants(h, e[2]) \subseteq Descendants(h, e[1])
<1>1. /\ Successors(h.edges, {e[1]}) \subseteq Descendants(h, e[1])
      /\ Closed(h.edges, Descendants(h, e[1]))
  BY DescendantsLeast
<1>2. e[2] \in Descendants(h, e[1])
  BY <1>1 DEF Successors
<1>3. Successors(h.edges, {e[2]}) \subseteq Descendants(h, e[1])
  BY <1>1, <1>2 DEF Closed, Successors
<1> QED BY <1>1, <1>2, <1>3, DescendantsLeast

(* What is reached from what a node reaches, the node reaches.             *)
LEMMA ReachesOn ==
  ASSUME NEW h, Wired(h), NEW a, NEW b \in Descendants(h, a)
  PROVE  Descendants(h, b) \subseteq Descendants(h, a)
<1>1. Closed(h.edges, Descendants(h, a))
  BY DescendantsLeast
<1>2. Successors(h.edges, {b}) \subseteq Descendants(h, a)
  BY <1>1 DEF Closed, Successors
<1> QED BY <1>1, <1>2, DescendantsLeast

(* So an ordering edge to a later statement is never skipped for a cycle.  *)
LEMMA AddOrderRises ==
  ASSUME NEW g, NEW h, Versioned(g), Rising(g, h), NEW p, NEW c, Below(g, p, c)
  PROVE  LET k == AddOrder(h, p, c)
         IN  /\ Rising(g, k) /\ h.edges \subseteq k.edges
             /\ k.edges \subseteq h.edges \cup {<<p, c, "order">>}
             /\ c \in Descendants(k, p)
<1>1. /\ DataNodes(g) \subseteq DOMAIN g.nodes /\ CodeNodes(g) \subseteq DOMAIN g.nodes
      /\ DOMAIN g.nodes \subseteq Nat
      /\ \A n \in DOMAIN g.nodes : n \in DataNodes(g) <=> n \notin CodeNodes(g)
      /\ \A n : Writers(g, n) \subseteq CodeNodes(g)
  BY NodesOfGraph DEF Versioned
<1>2. p \in DOMAIN g.nodes /\ c \in CodeNodes(g) /\ p \in Nat /\ c \in Nat
  BY <1>1 DEF Below
<1>3. p # c
  BY <1>1, <1>2 DEF Below
<1>4. p \notin Descendants(h, c)
  <2>1. Descendants(h, c) \subseteq Climb(g, c)
    BY <1>2, NoWayBack
  <2>2. p \notin Climb(g, c)
    <3>1. ~(p \in CodeNodes(g) /\ p > c)
      BY <1>2 DEF Below
    <3>2. \A t \in Writers(g, p) : ~(t >= c)
      BY <1>1, <1>2 DEF Below
    <3> QED BY <3>1, <3>2 DEF Climb
  <2> QED BY <2>1, <2>2
<1> DEFINE e == <<p, c, "order">>
           k == [h EXCEPT !.edges = @ \cup {e}]
<1>5. CASE c \in Descendants(h, p)
  <2>1. AddOrder(h, p, c) = h
    BY <1>5 DEF AddOrder
  <2> QED BY <1>5, <2>1
<1>6. CASE c \notin Descendants(h, p)
  <2>1. AddOrder(h, p, c) = k
    BY <1>3, <1>4, <1>6 DEF AddOrder
  <2>2. k = [nodes |-> h.nodes, edges |-> h.edges \cup {e}, cache |-> h.cache,
             opened |-> h.opened, entry |-> h.entry]
    BY DEF Rising, IsGraph
  <2>3. e[1] = p /\ e[2] = c /\ e[3] = "order"
    OBVIOUS
  <2> HIDE DEF e
  <2>4. IsGraph(k)
    BY <1>1, <1>2, <2>2, <2>3 DEF Rising, IsGraph, Wired
  <2>5. k.nodes = g.nodes /\ g.edges \subseteq k.edges /\ h.edges \subseteq k.edges
        /\ e \in k.edges /\ k.edges \subseteq h.edges \cup {e}
    BY <2>2 DEF Rising
  <2>6. Rising(g, k)
    BY <2>3, <2>4, <2>5 DEF Rising
  <2>7. c \in Descendants(k, p)
    BY <2>3, <2>4, <2>5, Reaches DEF IsGraph
  <2> HIDE DEF k
  <2> QED BY <2>1, <2>5, <2>6, <2>7 DEF e
<1> QED BY <1>5, <1>6

(* Element by element, from the empty set to all of a finite one.          *)
LEMMA ElementByElement ==
  ASSUME NEW S, IsFiniteSet(S), NEW Q, {} \in Q,
         \A s \in SUBSET S : s # {} => \E x \in s : s \ {x} \in Q => s \in Q
  PROVE  S \in Q
<1> DEFINE h == [s \in SUBSET S |-> s]
<1>1. h[{}] \in Q /\ h[S] = S
  OBVIOUS
<1>2. ASSUME NEW s \in SUBSET S, s # {} PROVE \E x \in s : h[s \ {x}] \in Q => h[s] \in Q
  <2>1. PICK x \in s : s \ {x} \in Q => s \in Q
    BY <1>2
  <2>2. h[s \ {x}] = s \ {x} /\ h[s] = s
    OBVIOUS
  <2> HIDE DEF h
  <2>3. h[s \ {x}] \in Q => h[s] \in Q
    BY <2>1, <2>2
  <2> QED BY <2>3
<1>3. h[S] \in Q
  <2> HIDE DEF h
  <2> QED BY <1>1, <1>2, FoldStays
<1> QED BY <1>1, <1>3

(* The anchors of an access node whose neighbours are code nodes: the      *)
(* neighbours, or the node itself when it has none.                        *)
LEMMA AnchorsNextTo ==
  ASSUME NEW g, IsGraph(g), NEW n \in DataNodes(g),
         NEW E, Successors(E, {n}) \subseteq CodeNodes(g)
  PROVE  Anchors(g, E, n) =
           IF Successors(E, {n}) = {} THEN {n} ELSE Successors(E, {n})
<1> DEFINE X == SUBSET (CodeNodes(g) \cup {n})
           next == Successors(E, {n})
           through(S) == S \cup Successors(E, S \cap DataNodes(g))
           F == [S \in X |-> through(S)]
           base == {n}
<1>1. /\ n \in DOMAIN g.nodes /\ n \notin CodeNodes(g) /\ CodeNodes(g) \cap DataNodes(g) = {}
      /\ Len(g.nodes) \in Nat /\ Len(g.nodes) # 0
  BY DEF IsGraph, Wired, DataNodes, CodeNodes
<1>2. ASSUME NEW S \in X
      PROVE  /\ n \in S => through(S) = S \cup next
             /\ through(S) \in X
  <2>1. S \cap DataNodes(g) \in {{}, {n}} /\ (n \in S => S \cap DataNodes(g) = {n})
    BY <1>1
  <2>2. Successors(E, {}) = {}
    BY DEF Successors
  <2> HIDE DEF next
  <2>3. next \subseteq CodeNodes(g)
    BY DEF next
  <2> QED BY <2>1, <2>2, <2>3 DEF next
<1>3. F \in [X -> X] /\ base \in X
  BY <1>2
<1>4. PICK f \in [Nat -> X] : \A k \in Nat : f[k] = IF k = 0 THEN base ELSE F[f[k - 1]]
  <2> HIDE DEF X, F, base
  <2> QED BY <1>3, IterationExists
<1>5. PICK h : /\ h = [k \in Nat |-> IF k = 0 THEN {n} ELSE through(h[k - 1])]
               /\ Anchors(g, E, n) = {m \in h[Len(g.nodes)] :
                                        m \in CodeNodes(g) \/ Successors(E, {m}) = {}}
  <2>1. \A k \in Nat : k # 0 => F[f[k - 1]] = through(f[k - 1])
    <3>1. \A k \in Nat : k # 0 => f[k - 1] \in X
      <4> HIDE DEF X
      <4> QED OBVIOUS
    <3> HIDE DEF X
    <3> QED BY <3>1
  <2>2. f = [k \in Nat |-> IF k = 0 THEN {n} ELSE through(f[k - 1])]
    <3> HIDE DEF F, X
    <3> QED BY <1>4, <2>1
  <2> QED BY <2>2 DEF Anchors
<1>6. \A k \in Nat : h[k + 1] = {n} \cup next
  <2> DEFINE T == {k \in Nat : h[k + 1] = {n} \cup next}
  <2>0. \A k \in Nat : k + 1 \in Nat /\ k + 1 # 0 /\ (k + 1) - 1 = k
    OBVIOUS
  <2>1. 0 \in T
    <3>1. h[0] = {n} /\ {n} \in X
      BY <1>5
    <3>2. h[0 + 1] = through(h[0])
      <4> HIDE DEF through
      <4> QED BY <1>5, <2>0
    <3> HIDE DEF through, next, X
    <3> QED BY <1>2, <3>1, <3>2
  <2>2. ASSUME NEW k \in Nat, k \in T PROVE k + 1 \in T
    <3>1. h[(k + 1) + 1] = through(h[k + 1])
      <4> HIDE DEF through
      <4>1. k + 1 \in Nat
        OBVIOUS
      <4> QED BY <1>5, <2>0, <4>1
    <3>2. {n} \cup next \in X
      OBVIOUS
    <3>3. h[k + 1] = {n} \cup next
      BY <2>2
    <3> HIDE DEF through, next, X
    <3> QED BY <1>2, <3>1, <3>2, <3>3
  <2>3. Nat \subseteq T
    <3> HIDE DEF T
    <3> QED BY <2>1, <2>2, AllNumbers
  <2> QED BY <2>3
<1>7. h[Len(g.nodes)] = {n} \cup next
  <2>1. Len(g.nodes) - 1 \in Nat /\ (Len(g.nodes) - 1) + 1 = Len(g.nodes)
    BY <1>1
  <2> HIDE DEF next
  <2> QED BY <1>6, <2>1
<1> QED BY <1>1, <1>5, <1>7

(* What order_state does for two versions of a container: every access to  *)
(* the earlier one comes before every write of the later one.              *)
Touches(g, t, n) == t = n \/ (t \in CodeNodes(g) /\ (Edge(g, t, n) \/ Edge(g, n, t)))
Parted(g, k, a, b) ==
  \A t, u : Touches(g, t, a) /\ u \in Writers(g, b) /\ t # u => u \in Descendants(k, t)

(* Its state so far: from access node a the ordering edges lead to writers *)
(* of versions before b.                                                   *)
OrderedUpTo(g, h, a, b) ==
  \A e \in h.edges \ g.edges : e[1] = a => \A u \in Writers(g, b) : e[2] < u
LEMMA AnchorsOfPair ==
  ASSUME NEW g, NEW h, Versioned(g), Rising(g, h), NEW a, NEW b, Later(g, a, b)
  PROVE  /\ LoadAnchors(h, a) = IF Successors(h.edges, {a}) = {} THEN {a}
                                ELSE Successors(h.edges, {a})
         /\ StoreAnchors(h, b) = Writers(g, b)
<1>1. /\ DataNodes(g) \subseteq DOMAIN g.nodes /\ CodeNodes(g) \subseteq DOMAIN g.nodes
      /\ DOMAIN g.nodes \subseteq Nat
      /\ \A n \in DOMAIN g.nodes : n \in DataNodes(g) <=> n \notin CodeNodes(g)
      /\ \A n : Writers(g, n) \subseteq CodeNodes(g)
  BY NodesOfGraph DEF Versioned
<1>2. DataNodes(h) = DataNodes(g) /\ CodeNodes(h) = CodeNodes(g) /\ IsGraph(h)
  BY DEF Rising, DataNodes, CodeNodes
<1>3. a \in DataNodes(g) /\ b \in DataNodes(g) /\ Writers(g, b) # {}
  BY DEF Later, Versioned, LaterWritten
<1>4. Successors(h.edges, {a}) \subseteq CodeNodes(g)
  <2> SUFFICES ASSUME NEW e \in h.edges, e[1] = a PROVE e[2] \in CodeNodes(g)
    BY DEF Successors
  <2>1. CASE e \in g.edges
    BY <1>1, <1>3, <2>1 DEF Versioned, Bipartite
  <2>2. CASE e \notin g.edges
    BY <2>2 DEF Rising, Below
  <2> QED BY <2>1, <2>2
<1> DEFINE R == {<<e[2], e[1], e[3]>> : e \in h.edges}
<1>5. Successors(R, {b}) = Writers(g, b)
  <2>1. ASSUME NEW t \in Successors(R, {b}) PROVE t \in Writers(g, b)
    <3>1. PICK e \in h.edges : e[2] = b /\ e[1] = t
      BY DEF Successors
    <3>2. e \in g.edges
      BY <1>1, <1>3, <3>1 DEF Rising, Below
    <3>3. t \in CodeNodes(g)
      BY <1>1, <1>3, <3>1, <3>2 DEF Versioned, Bipartite
    <3> QED BY <3>1, <3>2, <3>3 DEF Writers, Edge
  <2>2. ASSUME NEW t \in Writers(g, b) PROVE t \in Successors(R, {b})
    <3>1. PICK e \in g.edges : e[1] = t /\ e[2] = b
      BY DEF Writers, Edge
    <3>2. <<e[2], e[1], e[3]>> \in R
      BY DEF Rising
    <3> DEFINE q == <<e[2], e[1], e[3]>>
    <3>3. q \in R /\ q[1] = b /\ q[2] = t
      BY <3>1, <3>2
    <3> HIDE DEF q, R
    <3> QED BY <3>3 DEF Successors
  <2> QED BY <2>1, <2>2
<1> HIDE DEF R
<1>6. Anchors(h, R, b) = Writers(g, b)
  <2>1. Successors(R, {b}) \subseteq CodeNodes(h) /\ b \in DataNodes(h)
    BY <1>1, <1>2, <1>3, <1>5
  <2> QED BY <1>2, <1>3, <1>5, <2>1, AnchorsNextTo
<1>7. Anchors(h, h.edges, a) = IF Successors(h.edges, {a}) = {} THEN {a}
                               ELSE Successors(h.edges, {a})
  BY <1>2, <1>3, <1>4, AnchorsNextTo
<1> QED BY <1>6, <1>7 DEF LoadAnchors, StoreAnchors, R

LEMMA OrderPairParts ==
  ASSUME NEW g, NEW h, Versioned(g), Rising(g, h), NEW a, NEW b, Later(g, a, b),
         OrderedUpTo(g, h, a, b)
  PROVE  LET k == OrderPair(h, a, b)
         IN  /\ Rising(g, k) /\ h.edges \subseteq k.edges /\ Parted(g, k, a, b)
             /\ \A e \in k.edges \ h.edges :
                  e[1] \in DataNodes(g) => e[1] = a /\ e[2] \in Writers(g, b)
<1> DEFINE W == Writers(g, b)
           next == Successors(h.edges, {a})
           L == IF next = {} THEN {a} ELSE next
           S == L \X W
           k == OrderPair(h, a, b)
<1>1. /\ DataNodes(g) \subseteq DOMAIN g.nodes /\ CodeNodes(g) \subseteq DOMAIN g.nodes
      /\ DOMAIN g.nodes \subseteq Nat
      /\ \A n \in DOMAIN g.nodes : n \in DataNodes(g) <=> n \notin CodeNodes(g)
      /\ \A n : Writers(g, n) \subseteq CodeNodes(g)
  BY NodesOfGraph DEF Versioned
<1>2. a \in DataNodes(g) /\ b \in DataNodes(g) /\ W # {}
      /\ \A u \in W : /\ \A t \in Writers(g, a) : t < u
                      /\ \A t \in CodeNodes(g) : Edge(g, a, t) => t <= u
  BY DEF Later, Versioned, LaterWritten, VersionsInOrder
<1>3. LoadAnchors(h, a) = L /\ StoreAnchors(h, b) = W
  BY AnchorsOfPair
<1>4. a \notin Descendants(h, b)
  <2>1. PICK v \in W : TRUE
    BY <1>2
  <2>2. Descendants(h, b) \subseteq Climb(g, v)
    BY <1>1, <1>2, NoWayBack
  <2>3. \A t \in Writers(g, a) : ~(t >= v)
    BY <1>1, <1>2
  <2>4. a \notin Climb(g, v)
    BY <1>1, <1>2, <2>3 DEF Climb
  <2> QED BY <2>2, <2>4
<1>5. Written(h, b)
  BY <1>2 DEF Written, Writers, Edge, Rising
<1>6. k = FoldSet(LAMBDA p, x : AddOrder(x, p[1], p[2]), h, S)
  BY <1>3, <1>4, <1>5 DEF OrderPair
<1>7. ASSUME NEW p \in L, NEW c \in W PROVE p = c \/ Below(g, p, c)
  <2>1. CASE p = a
    BY <1>1, <1>2, <2>1 DEF Below
  <2>2. CASE p \in next
    <3>1. PICK e \in h.edges : e[1] = a /\ e[2] = p
      BY <2>2 DEF Successors
    <3>2. p \in CodeNodes(g) /\ p <= c
      <4>1. CASE e \in g.edges
        <5>1. p \in CodeNodes(g) /\ Edge(g, a, p)
          BY <1>1, <1>2, <3>1, <4>1 DEF Versioned, Bipartite, Edge
        <5> QED BY <1>2, <5>1
      <4>2. CASE e \notin g.edges
        <5>1. p \in CodeNodes(g) /\ p < c
          BY <3>1, <4>2 DEF Rising, Below, OrderedUpTo
        <5> QED BY <1>1, <5>1
      <4> QED BY <4>1, <4>2
    <3>3. Writers(g, p) = {}
      BY <1>1, <3>2 DEF Versioned, Bipartite, Writers, Edge
    <3> QED BY <1>1, <3>2, <3>3 DEF Below
  <2> QED BY <2>1, <2>2
<1>8. IsFiniteSet(S) /\ S \subseteq Pairs(DOMAIN h.nodes)
  <2>1. a \in DOMAIN h.nodes /\ b \in DOMAIN h.nodes /\ IsGraph(h)
    BY <1>1, <1>2 DEF Rising
  <2> HIDE DEF L, W
  <2> QED BY <1>3, <2>1, PairsOfAnchors
<1> HIDE DEF L, W, next, k, S
<1>9. PICK F : PairsFold(h, S, F)
  <2>1. IsGraph(h) /\ h \in Ordered(h)
    BY OrderedHoldsItself DEF Rising
  <2> QED BY <1>8, <2>1, OrderPairsFold
<1> DEFINE
  Fine(s, x) ==
    /\ Rising(g, x) /\ h.edges \subseteq x.edges
    /\ \A e \in x.edges \ h.edges : e[1] \in L /\ e[2] \in W
    /\ \A p \in s : p[1] # p[2] => p[2] \in Descendants(x, p[1])
  Q == {s \in SUBSET S : Fine(s, F[s])}
<1>10. F[{}] = h /\ F[S] = k
  BY <1>6, <1>9 DEF PairsFold
<1>11. {} \in Q
  BY <1>10
<1>12. ASSUME NEW s \in SUBSET S, s # {} PROVE \E x \in s : s \ {x} \in Q => s \in Q
  <2>1. PICK p \in s : F[s] = AddOrder(F[s \ {p}], p[1], p[2])
    BY <1>9, <1>12 DEF PairsFold
  <2>2. SUFFICES ASSUME s \ {p} \in Q PROVE Fine(s, F[s])
    OBVIOUS
  <2> DEFINE x == F[s \ {p}]
             y == AddOrder(x, p[1], p[2])
  <2>3. Fine(s \ {p}, x)
    BY <2>2
  <2>4. p[1] \in L /\ p[2] \in W
    <3>1. p \in L \X W
      BY DEF S
    <3> QED BY <3>1
  <2> HIDE DEF x
  <2>5. CASE p[1] = p[2]
    <3>1. y = x
      BY <2>5 DEF AddOrder
    <3>2. Fine(s, x)
      BY <2>3, <2>5
    <3>3. F[s] = x
      BY <2>1, <3>1 DEF x
    <3> HIDE DEF Fine
    <3> QED BY <3>2, <3>3
  <2>6. CASE p[1] # p[2]
    <3>1. Below(g, p[1], p[2])
      BY <1>7, <2>4, <2>6
    <3>2. /\ Rising(g, y) /\ x.edges \subseteq y.edges
          /\ y.edges \subseteq x.edges \cup {<<p[1], p[2], "order">>}
          /\ p[2] \in Descendants(y, p[1])
      BY <2>3, <3>1, AddOrderRises
    <3> HIDE DEF y
    <3>3. \A n : Descendants(x, n) \subseteq Descendants(y, n)
      BY <2>3, <3>2, DescendantsGrow DEF Rising, IsGraph
    <3>4. \A e \in y.edges \ h.edges : e[1] \in L /\ e[2] \in W
      BY <2>3, <2>4, <3>2
    <3>5. \A q \in s : q[1] # q[2] => q[2] \in Descendants(y, q[1])
      BY <2>3, <3>2, <3>3
    <3>6. h.edges \subseteq y.edges
      BY <2>3, <3>2
    <3> QED BY <2>1, <3>2, <3>4, <3>5, <3>6 DEF x, y
  <2> QED BY <2>5, <2>6
<1>13. S \in Q
  <2> HIDE DEF Q
  <2> QED BY <1>8, <1>11, <1>12, ElementByElement
<1>14. Fine(S, k)
  BY <1>10, <1>13
<1>15. \A p \in L, c \in W : p # c => c \in Descendants(k, p)
  <2> SUFFICES ASSUME NEW p \in L, NEW c \in W, p # c PROVE c \in Descendants(k, p)
    OBVIOUS
  <2>1. <<p, c>> \in S
    BY DEF S
  <2> QED BY <1>14, <2>1
<1>16. Wired(k) /\ h.edges \subseteq k.edges /\ g.edges \subseteq k.edges
  BY <1>14 DEF Rising, IsGraph
<1>17. ASSUME NEW c \in W PROVE c \in Descendants(k, a)
  <2>1. CASE next = {}
    <3>1. a \in L /\ a # c
      BY <1>1, <1>2, <2>1 DEF L, W
    <3> QED BY <1>15, <3>1
  <2>2. CASE next # {}
    <3>1. PICK e \in h.edges : e[1] = a /\ e[2] \in L
      BY <2>2 DEF L, next, Successors
    <3>2. e[2] \in Descendants(k, a) /\ Descendants(k, e[2]) \subseteq Descendants(k, a)
      BY <1>16, <3>1, Reaches
    <3> QED BY <1>15, <3>1, <3>2
  <2> QED BY <2>1, <2>2
<1>18. Parted(g, k, a, b)
  <2> SUFFICES ASSUME NEW t, NEW u, Touches(g, t, a), u \in W, t # u
               PROVE  u \in Descendants(k, t)
    BY DEF Parted, W
  <2>1. CASE t = a
    BY <1>17, <2>1
  <2>2. CASE Edge(g, t, a)
    <3>1. PICK e \in g.edges : e[1] = t /\ e[2] = a
      BY <2>2 DEF Edge
    <3>2. Descendants(k, a) \subseteq Descendants(k, t)
      BY <1>16, <3>1, Reaches
    <3> QED BY <1>17, <3>2
  <2>3. CASE Edge(g, a, t)
    <3>1. t \in next
      BY <2>3 DEF Edge, next, Successors, Rising
    <3> QED BY <1>15, <3>1 DEF L
  <2> QED BY <2>1, <2>2, <2>3 DEF Touches
<1>19. ASSUME NEW e \in k.edges \ h.edges, e[1] \in DataNodes(g)
       PROVE  e[1] = a /\ e[2] \in W
  <2>1. e[1] \in L /\ e[2] \in W
    BY <1>14
  <2>2. L \subseteq {a} \cup CodeNodes(g)
    <3> SUFFICES ASSUME NEW x \in h.edges, x[1] = a PROVE x[2] \in CodeNodes(g)
      BY DEF L, next, Successors
    <3> QED BY <1>1, <1>2 DEF Rising, Below, Versioned, Bipartite
  <2> QED BY <1>1, <1>19, <2>1, <2>2
<1> QED BY <1>14, <1>18, <1>19 DEF k, W

(* order_writers: of two statements that store into one node, and may hit  *)
(* the same element, the earlier one leads to the later one.               *)
WritersOrdered(g, k) ==
  \A n \in DataNodes(g), e, f \in g.edges :
    Clash(g, n, e, f) => f[1] \in Descendants(k, e[1])
LEMMA OrderWritersParts ==
  ASSUME NEW g, Versioned(g)
  PROVE  LET w == OrderWriters(g)
         IN  /\ Rising(g, w) /\ WritersOrdered(g, w)
             /\ \A e \in w.edges \ g.edges : e[1] \in CodeNodes(g)
<1> DEFINE w == OrderWriters(g)
<1>1. PICK S, h : WritersFold(g, S, h)
  BY OrderWritersFold DEF Versioned
<1>2. /\ DataNodes(g) \subseteq DOMAIN g.nodes /\ CodeNodes(g) \subseteq DOMAIN g.nodes
      /\ DOMAIN g.nodes \subseteq Nat
      /\ \A n \in DOMAIN g.nodes : n \in DataNodes(g) <=> n \notin CodeNodes(g)
      /\ \A n : Writers(g, n) \subseteq CodeNodes(g)
  BY NodesOfGraph DEF Versioned
<1>3. ASSUME NEW c \in S PROVE c[2] \in CodeNodes(g) /\ Below(g, c[2], c[3])
  <2>1. PICK e \in g.edges, f \in g.edges :
          Clash(g, c[1], e, f) /\ c[2] = e[1] /\ c[3] = f[1]
    BY <1>1 DEF WritersFold
  <2>2. c[1] \in DataNodes(g)
    BY <1>1 DEF WritersFold
  <2>3. c[2] \in CodeNodes(g) /\ c[3] \in CodeNodes(g) /\ c[2] < c[3]
    BY <1>2, <2>1, <2>2 DEF Clash, Versioned, Bipartite
  <2>4. Writers(g, c[2]) = {}
    BY <1>2, <2>3 DEF Versioned, Bipartite, Writers, Edge
  <2> QED BY <1>2, <2>3, <2>4 DEF Below
<1> DEFINE
  Fine(s, x) ==
    /\ Rising(g, x)
    /\ \A e \in x.edges \ g.edges : e[1] \in CodeNodes(g)
    /\ \A c \in s : c[3] \in Descendants(x, c[2])
  Q == {s \in SUBSET S : Fine(s, h[s])}
<1>4. {} \in Q
  BY <1>1 DEF WritersFold, Rising, Versioned
<1>5. ASSUME NEW s \in SUBSET S, s # {} PROVE \E x \in s : s \ {x} \in Q => s \in Q
  <2>1. PICK c \in s : h[s] = AddOrder(h[s \ {c}], c[2], c[3])
    BY <1>1, <1>5 DEF WritersFold
  <2>2. SUFFICES ASSUME s \ {c} \in Q PROVE Fine(s, h[s])
    OBVIOUS
  <2> DEFINE x == h[s \ {c}]
             y == AddOrder(x, c[2], c[3])
  <2>3. Fine(s \ {c}, x)
    BY <2>2
  <2> HIDE DEF x
  <2>4. c[2] \in CodeNodes(g) /\ Below(g, c[2], c[3])
    BY <1>3
  <2>5. /\ Rising(g, y) /\ x.edges \subseteq y.edges
        /\ y.edges \subseteq x.edges \cup {<<c[2], c[3], "order">>}
        /\ c[3] \in Descendants(y, c[2])
    BY <2>3, <2>4, AddOrderRises
  <2> HIDE DEF y
  <2>6. \A n : Descendants(x, n) \subseteq Descendants(y, n)
    BY <2>3, <2>5, DescendantsGrow DEF Rising, IsGraph
  <2>7. \A e \in y.edges \ g.edges : e[1] \in CodeNodes(g)
    BY <2>3, <2>4, <2>5
  <2>8. \A q \in s : q[3] \in Descendants(y, q[2])
    BY <2>3, <2>5, <2>6
  <2>9. h[s] = y
    BY <2>1 DEF x, y
  <2> QED BY <2>5, <2>7, <2>8, <2>9
<1>6. S \in Q
  <2> HIDE DEF Q
  <2>1. IsFiniteSet(S)
    BY <1>1 DEF WritersFold
  <2> QED BY <1>4, <1>5, <2>1, ElementByElement
<1>7. Fine(S, w)
  BY <1>1, <1>6 DEF WritersFold
<1>8. ASSUME NEW n \in DataNodes(g), NEW e \in g.edges, NEW f \in g.edges, Clash(g, n, e, f)
      PROVE  f[1] \in Descendants(w, e[1])
  <2> DEFINE c == <<n, e[1], f[1]>>
  <2>1. c \in S /\ c[2] = e[1] /\ c[3] = f[1]
    BY <1>1, <1>8 DEF WritersFold
  <2> HIDE DEF c
  <2> QED BY <1>7, <2>1
<1> QED BY <1>7, <1>8 DEF WritersOrdered

(* What is parted stays parted.                                            *)
LEMMA PartedStays ==
  ASSUME NEW g, NEW h, NEW k, Rising(g, h), Rising(g, k), h.edges \subseteq k.edges
  PROVE  /\ \A a, b : Parted(g, h, a, b) => Parted(g, k, a, b)
         /\ WritersOrdered(g, h) => WritersOrdered(g, k)
<1>1. \A n : Descendants(h, n) \subseteq Descendants(k, n)
  BY DescendantsGrow DEF Rising, IsGraph
<1>2. \A a, b : Parted(g, h, a, b) => Parted(g, k, a, b)
  BY <1>1 DEF Parted
<1>3. WritersOrdered(g, h) => WritersOrdered(g, k)
  BY <1>1 DEF WritersOrdered
<1> QED BY <1>2, <1>3

(* Pairs of one container and one earlier node come in the order of the    *)
(* later node.                                                             *)
LEMMA LastOfPairs ==
  ASSUME NEW N, N \subseteq Nat, NEW p \in Triples(N), NEW q \in Triples(N),
         Precedes(q, p), q[1] = p[1], q[2] = p[2]
  PROVE  q[3] < p[3]
<1>1. DOMAIN q = 1 .. 3 /\ q[1] \in Nat /\ q[2] \in Nat
  <2>1. q = <<q[1], q[2], q[3]>> /\ q[1] \in N /\ q[2] \in N
    BY DEF Triples
  <2>2. DOMAIN <<q[1], q[2], q[3]>> = 1 .. 3
    OBVIOUS
  <2> QED BY <2>1, <2>2
<1>2. PICK i \in 1 .. 3 : q[i] < p[i]
  BY <1>1 DEF Precedes
<1>3. i # 1 /\ i # 2
  BY <1>1, <1>2
<1>4. i = 3
  BY <1>2, <1>3
<1> QED BY <1>2, <1>4

(* The ordering pass orders every two conflicting accesses: the writes of  *)
(* one node, and the accesses of one version with the writes of a later    *)
(* version.                                                                *)
LEMMA OrderStateParts ==
  ASSUME NEW g, Versioned(g)
  PROVE  LET k == OrderState(g)
         IN  /\ Rising(g, k) /\ WritersOrdered(g, k)
             /\ \A a, b : Later(g, a, b) => Parted(g, k, a, b)
<1> DEFINE w == OrderWriters(g)
           k == OrderState(g)
<1>1. /\ Rising(g, w) /\ WritersOrdered(g, w)
      /\ \A e \in w.edges \ g.edges : e[1] \in CodeNodes(g)
  BY OrderWritersParts
<1>2. IsGraph(w)
  BY <1>1 DEF Rising
<1>3. PICK S, h : StateFold(w, S, h) /\ h[S] = k
  BY OrderStateFold DEF Versioned
<1> HIDE DEF w, k
<1>4. w.nodes = g.nodes /\ DataNodes(w) = DataNodes(g)
  BY <1>1 DEF Rising, DataNodes
<1>5. /\ DataNodes(g) \subseteq DOMAIN g.nodes /\ CodeNodes(g) \subseteq DOMAIN g.nodes
      /\ DOMAIN g.nodes \subseteq Nat
      /\ \A n \in DOMAIN g.nodes : n \in DataNodes(g) <=> n \notin CodeNodes(g)
      /\ \A n : Writers(g, n) \subseteq CodeNodes(g)
  BY NodesOfGraph DEF Versioned
<1>6. \A c \in S : Later(g, c[2], c[3])
  BY <1>3, <1>4 DEF StateFold, Later
<1>7. \A a, b : Later(g, a, b) => \E c \in S : c[2] = a /\ c[3] = b
  BY <1>3, <1>4 DEF StateFold, Later
<1> DEFINE
  Led(s, x) == \A e \in x.edges \ g.edges :
                 e[1] \in DataNodes(g) => \E c \in s : c[2] = e[1] /\ e[2] \in Writers(g, c[3])
  Fine(s, x) ==
    /\ Rising(g, x) /\ w.edges \subseteq x.edges /\ Led(s, x)
    /\ \A c \in s : Parted(g, x, c[2], c[3])
  Q == {s \in SUBSET S : Fine(s, h[s])}
<1>8. {} \in Q
  <2>1. Led({}, w)
    BY <1>1, <1>5
  <2>2. h[{}] = w
    BY <1>3 DEF StateFold
  <2> QED BY <1>1, <2>1, <2>2
<1>9. ASSUME NEW s \in SUBSET S, s # {} PROVE \E x \in s : s \ {x} \in Q => s \in Q
  <2>1. PICK c \in s : IsLast(s, c) /\ h[s] = OrderPair(h[s \ {c}], c[2], c[3])
    BY <1>3, <1>9 DEF StateFold
  <2>2. SUFFICES ASSUME s \ {c} \in Q PROVE Fine(s, h[s])
    OBVIOUS
  <2> DEFINE x == h[s \ {c}]
             y == OrderPair(x, c[2], c[3])
  <2>3. Fine(s \ {c}, x)
    BY <2>2
  <2> HIDE DEF x
  <2>4. Later(g, c[2], c[3])
    BY <1>6
  <2>5. OrderedUpTo(g, x, c[2], c[3])
    <3> SUFFICES ASSUME NEW e \in x.edges \ g.edges, e[1] = c[2], NEW u \in Writers(g, c[3])
                 PROVE  e[2] < u
      BY DEF OrderedUpTo
    <3>1. e[1] \in DataNodes(g)
      BY <2>4 DEF Later
    <3>2. PICK q \in s \ {c} : q[2] = e[1] /\ e[2] \in Writers(g, q[3])
      BY <2>3, <3>1
    <3>3. q[1] = c[1] /\ Precedes(q, c)
      BY <1>3, <2>1, <3>2 DEF StateFold, IsLast
    <3>4. q[3] < c[3]
      <4>1. S \subseteq Triples(DOMAIN g.nodes)
        BY <1>3, <1>4 DEF StateFold
      <4> QED BY <1>5, <3>2, <3>3, <4>1, LastOfPairs
    <3>5. Later(g, c[2], q[3])
      BY <1>6, <3>2
    <3>6. Later(g, q[3], c[3])
      BY <2>4, <3>4, <3>5 DEF Later
    <3>7. \A t \in Writers(g, q[3]) : t < u
      BY <3>6 DEF Versioned, VersionsInOrder, Later
    <3> QED BY <3>2, <3>7
  <2>6. /\ Rising(g, y) /\ x.edges \subseteq y.edges /\ Parted(g, y, c[2], c[3])
        /\ \A e \in y.edges \ x.edges :
             e[1] \in DataNodes(g) => e[1] = c[2] /\ e[2] \in Writers(g, c[3])
    BY <2>3, <2>4, <2>5, OrderPairParts
  <2> HIDE DEF y
  <2>7. \A q \in s : Parted(g, y, q[2], q[3])
    <3>1. \A q \in s \ {c} : Parted(g, y, q[2], q[3])
      BY <2>3, <2>6, PartedStays
    <3> QED BY <2>6, <3>1
  <2>8. Led(s, y)
    BY <2>3, <2>6
  <2>9. w.edges \subseteq y.edges
    BY <2>3, <2>6
  <2>10. h[s] = y
    BY <2>1 DEF x, y
  <2> HIDE DEF Led
  <2> QED BY <2>6, <2>7, <2>8, <2>9, <2>10
<1>10. S \in Q
  <2> HIDE DEF Q
  <2>1. IsFiniteSet(S)
    BY <1>3 DEF StateFold
  <2> QED BY <1>8, <1>9, <2>1, ElementByElement
<1>11. Fine(S, k)
  BY <1>3, <1>10
<1>12. WritersOrdered(g, k)
  BY <1>1, <1>11, PartedStays
<1>13. \A a, b : Later(g, a, b) => Parted(g, k, a, b)
  BY <1>7, <1>11
<1> QED BY <1>11, <1>12, <1>13 DEF k
=============================================================================
