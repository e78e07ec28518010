------------------------- MODULE AllocBuffersProofs -------------------------
(***************************************************************************)
(* The partition that groupAllocSites builds is coarse enough at every     *)
(* point of its walk, for routines of any length and nesting depth.        *)
(*                                                                         *)
(* ReachingShareBuffer is inductive once the types of the walk's state are *)
(* added: unite only coarsens the partition, so no set that lies in one    *)
(* class is split, and the two sets that meet at an END IF are put into    *)
(* one class unless one of them is empty.                                  *)
(***************************************************************************)
EXTENDS AllocBuffers, TLAPS

Statements == {"alloc", "free", "use", "if", "else", "end", "do", "od"}

Constructs == [at : Nat, in : SUBSET Nat, out : SUBSET Nat]

WalkTypes ==
  /\ prog \in Seq(Statements)
  /\ open \in Seq(Constructs)
  /\ reach \in SUBSET Nat
  /\ classes \in SUBSET (SUBSET Nat)

WalkInv == WalkTypes /\ ReachingShareBuffer

Within(S, P) == S = {} \/ \E b \in P : S \subseteq b

(* unite keeps every set that lies in one class in one class.              *)
LEMMA UniteCoarsens ==
  ASSUME NEW P, NEW S, NEW T, Within(S, P)
  PROVE  Within(S, Unite(P, T))
<1>1. CASE S = {}
  BY <1>1 DEF Within
<1>2. CASE S # {}
  <2>1. PICK b \in P : S \subseteq b
    BY <1>2 DEF Within
  <2>2. CASE b \cap T = {}
    BY <2>1, <2>2 DEF Within, Unite
  <2>3. CASE b \cap T # {}
    <3>1. S \subseteq UNION {c \in P : c \cap T # {}}
      BY <2>1, <2>3
    <3>2. QED
      BY <3>1 DEF Within, Unite
  <2>4. QED
    BY <2>2, <2>3
<1>3. QED
  BY <1>1, <1>2

(* unite puts two nonempty sets, each in one class, into one class.        *)
LEMMA UniteJoins ==
  ASSUME NEW P, NEW S, NEW T, Within(S, P), Within(T, P), S # {}, T # {}
  PROVE  Within(S \cup T, Unite(P, S \cup T))
<1>1. PICK b \in P : S \subseteq b
  BY DEF Within
<1>2. PICK c \in P : T \subseteq c
  BY DEF Within
<1>3. b \cap (S \cup T) # {} /\ c \cap (S \cup T) # {}
  BY <1>1, <1>2
<1>4. S \cup T \subseteq UNION {d \in P : d \cap (S \cup T) # {}}
  BY <1>1, <1>2, <1>3
<1>5. QED
  BY <1>4 DEF Within, Unite

(* A partition of sets of naturals stays one.                              *)
LEMMA UniteType ==
  ASSUME NEW P \in SUBSET (SUBSET Nat), NEW T
  PROVE  Unite(P, T) \in SUBSET (SUBSET Nat)
BY DEF Unite

(* A larger partition holds what a smaller one holds.                      *)
LEMMA WithinGrows ==
  ASSUME NEW P, NEW Q, NEW S, Within(S, P), P \subseteq Q
  PROVE  Within(S, Q)
BY DEF Within

(* The invariant, in the terms of the lemmas.                              *)
LEMMA InTermsOfWithin ==
  ReachingShareBuffer <=>
    /\ Within(reach, classes)
    /\ \A i \in DOMAIN open : Within(open[i].in, classes) /\ Within(open[i].out, classes)
BY DEF ReachingShareBuffer, OneBuffer, Within

LEMMA InTermsOfWithinNext ==
  ReachingShareBuffer' <=>
    /\ Within(reach', classes')
    /\ \A i \in DOMAIN open' : Within(open'[i].in, classes') /\ Within(open'[i].out, classes')
BY DEF ReachingShareBuffer, OneBuffer, Within

(* The innermost construct, and what is left without it.                   *)
LEMMA TopAndFront ==
  ASSUME open \in Seq(Constructs), open # <<>>
  PROVE  /\ Top \in Constructs
         /\ Len(open) \in DOMAIN open /\ Top = open[Len(open)]
         /\ Front(open) \in Seq(Constructs)
         /\ \A i \in DOMAIN Front(open) : i \in DOMAIN open /\ Front(open)[i] = open[i]
<1>1. Len(open) \in Nat \ {0} /\ DOMAIN open = 1..Len(open)
  OBVIOUS
<1>2. QED
  BY <1>1 DEF Top, Last, Front

(* Writing a statement keeps the routine a sequence of statements.         *)
LEMMA WriteType ==
  ASSUME prog \in Seq(Statements), NEW s \in Statements, Write(s)
  PROVE  prog' \in Seq(Statements) /\ Here \in Nat
<1>1. prog' = Append(prog, s)
  BY DEF Write
<1>2. Append(prog, s) \in Seq(Statements)
  OBVIOUS
<1>3. QED
  BY <1>1, <1>2 DEF Here

(* One step of the walk, or of the execution, keeps the invariant.         *)
LEMMA StepKeepsWalkInv ==
  ASSUME WalkInv, [Next]_vars
  PROVE  WalkInv'
<1> USE DEF WalkInv
<1>0. /\ Within(reach, classes)
      /\ \A i \in DOMAIN open : Within(open[i].in, classes) /\ Within(open[i].out, classes)
  BY InTermsOfWithin
<1>1. CASE UNCHANGED walkVars
  BY <1>1, <1>0, InTermsOfWithinNext DEF walkVars, WalkTypes
<1>2. CASE Allocate
  <2>1. Here \in Nat /\ prog' \in Seq(Statements) /\ open' = open
    BY <1>2, WriteType DEF Allocate, WalkTypes, Statements
  <2>2. reach' = {Here} /\ classes' = classes \cup {{Here}}
    BY <1>2 DEF Allocate
  <2>3. WalkTypes'
    BY <2>1, <2>2 DEF WalkTypes
  <2>4. Within(reach', classes')
    BY <2>2 DEF Within
  <2>5. \A i \in DOMAIN open' : Within(open'[i].in, classes') /\ Within(open'[i].out, classes')
    BY <1>0, <2>1, <2>2, WithinGrows
  <2>6. QED
    BY <2>3, <2>4, <2>5, InTermsOfWithinNext
<1>3. CASE \E s \in {"free", "use"} : Plain(s)
  <2>1. WalkTypes'
    BY <1>3, WriteType DEF Plain, WalkTypes, Statements
  <2>2. reach' = reach /\ classes' = classes /\ open' = open
    BY <1>3 DEF Plain
  <2>3. QED
    BY <1>0, <2>1, <2>2, InTermsOfWithinNext
<1>4. CASE If \/ Do
  <2>1. PICK c \in Constructs : /\ open' = Append(open, c)
                                /\ c.in \in {reach, {}} /\ c.out = {}
    <3>1. Construct(Here, reach, {}) \in Constructs /\ Construct(Here, {}, {}) \in Constructs
      BY DEF Constructs, Construct, Here, WalkTypes
    <3>2. QED
      BY <1>4, <3>1 DEF If, Do, Construct
  <2>2. reach' = reach /\ classes' = classes /\ prog' \in Seq(Statements)
    BY <1>4, WriteType DEF If, Do, WalkTypes, Statements
  <2>3. WalkTypes'
    BY <2>1, <2>2 DEF WalkTypes
  <2>4. Within({}, classes)
    BY DEF Within
  <2>5. ASSUME NEW i \in DOMAIN open'
        PROVE  Within(open'[i].in, classes') /\ Within(open'[i].out, classes')
    <3>1. open'[i] = c \/ (i \in DOMAIN open /\ open'[i] = open[i])
      BY <2>1, <2>5 DEF WalkTypes
    <3>2. QED
      BY <1>0, <2>1, <2>2, <2>4, <3>1
  <2>6. QED
    BY <1>0, <2>2, <2>3, <2>5, InTermsOfWithinNext
<1>5. CASE Else
  <2>1. open # <<>> /\ classes' = classes /\ reach' = Top.in
    BY <1>5 DEF Else
  <2>2. /\ Top \in Constructs /\ Within(Top.in, classes)
        /\ Front(open) \in Seq(Constructs)
        /\ \A i \in DOMAIN Front(open) : i \in DOMAIN open /\ Front(open)[i] = open[i]
    BY <1>0, <2>1, TopAndFront DEF WalkTypes
  <2>3. PICK c \in Constructs : /\ open' = Append(Front(open), c)
                                /\ c.in = Top.in /\ c.out = reach
    <3>1. Construct(Here, Top.in, reach) \in Constructs
      BY <2>2 DEF Constructs, Construct, Here, WalkTypes
    <3>2. QED
      BY <1>5, <3>1 DEF Else, Construct
  <2>4. prog' \in Seq(Statements)
    BY <1>5, WriteType DEF Else, WalkTypes, Statements
  <2>5. WalkTypes'
    BY <2>1, <2>2, <2>3, <2>4 DEF WalkTypes, Constructs
  <2>6. ASSUME NEW i \in DOMAIN open'
        PROVE  Within(open'[i].in, classes') /\ Within(open'[i].out, classes')
    <3>1. open'[i] = c \/ (i \in DOMAIN Front(open) /\ open'[i] = Front(open)[i])
      BY <2>2, <2>3, <2>6
    <3>2. QED
      BY <1>0, <2>1, <2>2, <2>3, <3>1
  <2>7. QED
    BY <2>1, <2>2, <2>5, <2>6, InTermsOfWithinNext
<1>6. CASE EndIf
  <2> DEFINE other == IF prog[Top.at] = "if" THEN Top.in ELSE Top.out
  <2>1. /\ open # <<>> /\ open' = Front(open)
        /\ MergeBranches(reach, other) /\ reach' = reach \cup other
    BY <1>6 DEF EndIf
  <2>2. /\ Top \in Constructs /\ Within(Top.in, classes) /\ Within(Top.out, classes)
        /\ Front(open) \in Seq(Constructs)
        /\ \A i \in DOMAIN Front(open) : i \in DOMAIN open /\ Front(open)[i] = open[i]
    BY <1>0, <2>1, TopAndFront DEF WalkTypes
  <2>3. other \in SUBSET Nat /\ Within(other, classes)
    BY <2>2 DEF Constructs
  <2> HIDE DEF other
  <2>4. prog' \in Seq(Statements)
    BY <1>6, WriteType DEF EndIf, WalkTypes, Statements
  <2>5. CASE reach = {} \/ other = {}
    <3>1. classes' = classes /\ reach' \in {reach, other}
      BY <2>1, <2>5 DEF MergeBranches
    <3>2. WalkTypes'
      BY <2>1, <2>2, <2>3, <2>4, <3>1 DEF WalkTypes
    <3>3. QED
      BY <1>0, <2>1, <2>2, <2>3, <3>1, <3>2, InTermsOfWithinNext
  <2>6. CASE reach # {} /\ other # {}
    <3>1. classes' = Unite(classes, reach \cup other)
      BY <2>1, <2>6 DEF MergeBranches
    <3>2. WalkTypes'
      BY <2>1, <2>2, <2>3, <2>4, <3>1, UniteType DEF WalkTypes
    <3>3. Within(reach', classes')
      BY <1>0, <2>1, <2>3, <2>6, <3>1, UniteJoins
    <3>4. \A i \in DOMAIN open' : Within(open'[i].in, classes') /\ Within(open'[i].out, classes')
      BY <1>0, <2>1, <2>2, <3>1, UniteCoarsens
    <3>5. QED
      BY <3>2, <3>3, <3>4, InTermsOfWithinNext
  <2>7. QED
    BY <2>5, <2>6
<1>7. CASE EndDo
  <2>1. /\ open # <<>> /\ open' = Front(open)
        /\ reach' = reach /\ classes' = classes /\ prog' \in Seq(Statements)
    BY <1>7, WriteType DEF EndDo, WalkTypes, Statements
  <2>2. /\ Front(open) \in Seq(Constructs)
        /\ \A i \in DOMAIN Front(open) : i \in DOMAIN open /\ Front(open)[i] = open[i]
    BY <2>1, TopAndFront DEF WalkTypes
  <2>3. WalkTypes'
    BY <2>1, <2>2 DEF WalkTypes
  <2>4. QED
    BY <1>0, <2>1, <2>2, <2>3, InTermsOfWithinNext
<1>8. QED
  <2>1. CASE BuildAST \/ Run
    BY <2>1, <1>1 DEF BuildAST, Run, RunAllocate, RunDeallocate, RunUse, RunBranch,
                      RunDo, RunEndDo
  <2>2. CASE UNCHANGED vars
    BY <2>2, <1>1 DEF vars, walkVars
  <2>3. QED
    BY <2>1, <2>2, <1>2, <1>3, <1>4, <1>5, <1>6, <1>7 DEF Next, Source

(* groupAllocSites: at every point of the walk the sites that may be       *)
(* current, there and at the joins still to come, belong to one buffer.    *)
THEOREM ReachingSitesShareBuffer == Spec => []ReachingShareBuffer
<1>1. Init => WalkInv
  <2>1. SUFFICES ASSUME Init PROVE WalkInv
    OBVIOUS
  <2>2. WalkTypes
    BY <2>1 DEF Init, WalkTypes
  <2>3. ReachingShareBuffer
    BY <2>1 DEF Init, ReachingShareBuffer, OneBuffer
  <2>4. QED
    BY <2>2, <2>3 DEF WalkInv
<1>2. WalkInv /\ [Next]_vars => WalkInv'
  BY StepKeepsWalkInv
<1>3. WalkInv => ReachingShareBuffer
  BY DEF WalkInv
<1>4. QED
  BY <1>1, <1>2, <1>3, PTL DEF Spec

-----------------------------------------------------------------------------
(***************************************************************************)
(* Every use gets the array's buffer: UsesFindBuffer, for routines of any  *)
(* length and nesting depth and executions of any length.                  *)
(*                                                                         *)
(* buildAST binds a use to the ALLOCATE walked last; the array Fortran's   *)
(* name denotes was allocated by whichever ALLOCATE ran last.  The proof   *)
(* ties both to the reaching sets of groupAllocSites, whose members share  *)
(* a buffer: the set in front of a statement holds the site that ran last, *)
(* and, across every construct, the site walked last meets it in the set   *)
(* of the next END IF.  reachAt is the record of those sets.               *)
(***************************************************************************)

(* The reaching set in front of each statement and of the one to come.     *)
Sets == Append(reachAt, reach)

(* No ALLOCATE lies strictly between a and b.                              *)
NoSites(P, a, b) == \A q \in (a + 1)..(b - 1) : P[q] # "alloc"

(* s is the ALLOCATE walked last in front of b.                            *)
LastSite(P, s, b) == s \in 1..(b - 1) /\ P[s] = "alloc" /\ NoSites(P, s, b)

(* S is a reaching set at b, seen from a: the set behind a, or one that    *)
(* holds the last site between them.                                       *)
Spans(P, F, a, b, S) ==
  \/ NoSites(P, a, b) /\ S = F[a + 1]
  \/ \E s \in S : a < s /\ LastSite(P, s, b)

(* What one statement does to the set.                                     *)
Threads(P, F, p) ==
  /\ P[p] = "alloc" => F[p + 1] = {p}
  /\ P[p] \in {"free", "use", "if", "do", "od"} => F[p + 1] = F[p]
  /\ P[p] = "end" => F[p] \subseteq F[p + 1]

(* The part of a construct between its statements a and b.                 *)
Part(P, F, a, b) == a < b /\ b <= Len(P) /\ Spans(P, F, a, b, F[b])

(* What a closed construct does to the set.                                *)
Joins(P, F, L, p) ==
  /\ L[p] \in Nat
  /\ P[p] = "if" =>
       /\ Part(P, F, p, L[p])
       /\ \/ P[L[p]] = "else" /\ F[L[p] + 1] = F[p]
          \/ P[L[p]] = "end" /\ F[L[p] + 1] = F[L[p]] \cup F[p]
  /\ P[p] = "else" =>
       /\ Part(P, F, p, L[p])
       /\ P[L[p]] = "end" /\ F[L[p] + 1] = F[L[p]] \cup F[p]
  /\ P[p] = "do" => Part(P, F, p, L[p]) /\ P[L[p]] = "od"
  /\ P[p] = "od" => L[p] > 0 /\ P[L[p]] = "do" /\ Part(P, F, L[p], p)

(* The set that the part behind c starts from, with the one already        *)
(* waiting for the END IF.                                                 *)
Entered(P, F, c) == IF P[c] = "else" THEN F[c] \cup F[c + 1] ELSE F[c]

(* An open construct c inside the one that starts at a.                    *)
OpenIn(P, F, a, c) ==
  /\ c.at \in 1..Len(P) /\ a < c.at
  /\ P[c.at] \in {"if", "else", "do"}
  /\ P[c.at] = "if" => c.in = F[c.at]
  /\ P[c.at] = "else" => c.out = F[c.at]
  /\ Spans(P, F, a, c.at, Entered(P, F, c.at))

(* Where the construct around the i-th one starts; 0 for the routine.      *)
Outer(o, i) == IF i = 1 THEN 0 ELSE o[i - 1].at

History == reachAt \in Seq(SUBSET Nat) /\ Len(reachAt) = Len(prog)

OpenInv ==
  /\ \A i \in 1..Len(open) : OpenIn(prog, Sets, Outer(open, i), open[i])
  /\ Spans(prog, Sets, Outer(open, Len(open) + 1), Here, reach)

Jumping == {"if", "else", "do", "od"}

IsOpen(o, p) == \E i \in 1..Len(o) : o[i].at = p

FlowInv ==
  /\ \A p \in 1..Len(prog) : Threads(prog, Sets, p)
  /\ \A p \in 1..Len(prog) : prog[p] \in Jumping /\ ~IsOpen(open, p)
       => p \in DOMAIN link /\ Joins(prog, Sets, link, p)

Apart(C) == \A b, c \in C : b = c \/ b \cap c = {}

SitesInv ==
  /\ UNION classes = {p \in 1..Len(prog) : prog[p] = "alloc"}
  /\ Apart(classes)
  /\ \A p \in 1..Here : Within(Sets[p], classes)

StaticInv == WalkInv /\ History /\ OpenInv /\ FlowInv /\ SitesInv

SameBuffer(C, s, t) == \E b \in C : s \in b /\ t \in b

(* The point whose set covers the array when the next statement is p: two  *)
(* branches meet at an END IF, and the set behind it covers both.          *)
Point(P, p) == IF p <= Len(P) /\ P[p] = "end" THEN p + 1 ELSE p

(* The site that ran last reaches pos and shares a buffer with the site    *)
(* walked last.                                                            *)
Found(p) ==
  /\ current \in Sets[Point(prog, p)]
  /\ \E s \in Sites : LastSite(prog, s, p) /\ SameBuffer(classes, s, current)

HeldInv ==
  /\ DOMAIN held = {Buffer(s) : s \in Sites}
  /\ current # 0 => current \in Sites /\ held[Buffer(current)] = current

FlagTypes == looped \in BOOLEAN /\ crossed \in BOOLEAN /\ wrong \in BOOLEAN

RunInv ==
  /\ FlagTypes
  /\ phase \in {"source", "run"}
  /\ pos \in 1..Here
  /\ phase = "source" => current = 0 /\ wrong = FALSE /\ pos = 1
  /\ phase = "run" => open = <<>> /\ HeldInv
  /\ current # 0 /\ ~looped /\ ~crossed => Found(pos)

IInv == StaticInv /\ RunInv /\ UsesFindBuffer

-----------------------------------------------------------------------------
(* Reading a longer routine.                                               *)

(* Q goes on where P ends.                                                 *)
Agree(P, Q, n) == \A p \in 1..n : Q[p] = P[p]

(* Statements behind b do not matter for what lies in front of it.         *)
LEMMA NoSitesKept ==
  ASSUME NEW P, NEW Q, NEW n \in Nat, Agree(P, Q, n), NEW a \in Nat,
         NEW b \in Nat, b <= n + 1
  PROVE  NoSites(P, a, b) <=> NoSites(Q, a, b)
BY DEF NoSites, Agree

(* The last site in front of b stays the last.                             *)
LEMMA LastSiteKept ==
  ASSUME NEW P, NEW Q, NEW n \in Nat, Agree(P, Q, n), NEW s,
         NEW b \in Nat, b <= n + 1
  PROVE  LastSite(P, s, b) => LastSite(Q, s, b)
<1>1. SUFFICES ASSUME LastSite(P, s, b) PROVE LastSite(Q, s, b)
  OBVIOUS
<1>2. s \in 1..n /\ s \in Nat
  BY <1>1 DEF LastSite
<1>3. Q[s] = P[s] /\ NoSites(Q, s, b)
  BY <1>1, <1>2, NoSitesKept DEF LastSite, Agree
<1>4. QED
  BY <1>1, <1>3 DEF LastSite

(* What lies between two places is read the same in a longer routine.      *)
LEMMA SpansKept ==
  ASSUME NEW P, NEW Q, NEW F, NEW G, NEW n \in Nat, Agree(P, Q, n), Agree(F, G, n + 1),
         NEW a \in 0..n, NEW b \in Nat, b <= n + 1, NEW S, Spans(P, F, a, b, S)
  PROVE  Spans(Q, G, a, b, S)
<1>1. G[a + 1] = F[a + 1]
  BY DEF Agree
<1>2. CASE NoSites(P, a, b) /\ S = F[a + 1]
  BY <1>1, <1>2, NoSitesKept DEF Spans
<1>3. CASE \E s \in S : a < s /\ LastSite(P, s, b)
  BY <1>3, LastSiteKept DEF Spans
<1>4. QED
  BY <1>2, <1>3 DEF Spans

(* So is what one statement does,                                          *)
LEMMA ThreadsKept ==
  ASSUME NEW P, NEW Q, NEW F, NEW G, NEW n \in Nat, Agree(P, Q, n), Agree(F, G, n + 1),
         NEW p \in 1..n, Threads(P, F, p)
  PROVE  Threads(Q, G, p)
BY DEF Threads, Agree

(* what a part does,                                                       *)
LEMMA PartKept ==
  ASSUME NEW P, NEW Q, NEW F, NEW G, Len(P) \in Nat, Len(Q) = Len(P) + 1,
         Agree(P, Q, Len(P)), Agree(F, G, Len(P) + 1),
         NEW a \in Nat, NEW b \in Nat, Part(P, F, a, b)
  PROVE  Part(Q, G, a, b)
<1>1. a \in 0..Len(P) /\ b \in 1..Len(P) /\ Spans(P, F, a, b, F[b])
  BY DEF Part
<1>2. G[b] = F[b]
  BY <1>1 DEF Agree
<1>3. Spans(Q, G, a, b, F[b])
  BY <1>1, SpansKept
<1>4. QED
  BY <1>1, <1>2, <1>3 DEF Part

(* what a closed construct does,                                           *)
LEMMA JoinsKept ==
  ASSUME NEW P, NEW Q, NEW F, NEW G, NEW L, NEW K, Len(P) \in Nat, Len(Q) = Len(P) + 1,
         Agree(P, Q, Len(P)), Agree(F, G, Len(P) + 1),
         NEW p \in 1..Len(P), P[p] \in Jumping, K[p] = L[p], Joins(P, F, L, p)
  PROVE  Joins(Q, G, K, p)
<1>1. L[p] \in 1..Len(P) /\ L[p] \in Nat /\ p \in Nat
  BY DEF Joins, Part, Jumping
<1>2. Q[p] = P[p] /\ Q[L[p]] = P[L[p]] /\ G[p] = F[p] /\ G[L[p]] = F[L[p]]
      /\ G[L[p] + 1] = F[L[p] + 1]
  <2>1. /\ p \in 1..(Len(P) + 1) /\ L[p] \in 1..(Len(P) + 1)
        /\ L[p] + 1 \in 1..(Len(P) + 1)
    BY <1>1
  <2>2. QED
    BY <1>1, <2>1 DEF Agree
<1>3. Part(P, F, p, L[p]) => Part(Q, G, p, L[p])
  BY <1>1, PartKept
<1>4. Part(P, F, L[p], p) => Part(Q, G, L[p], p)
  BY <1>1, PartKept
<1>5. QED
  BY <1>1, <1>2, <1>3, <1>4 DEF Joins

(* and what is known of an open one.                                       *)
LEMMA OpenInKept ==
  ASSUME NEW P, NEW Q, NEW F, NEW G, Len(P) \in Nat, Len(Q) = Len(P) + 1,
         Agree(P, Q, Len(P)), Agree(F, G, Len(P) + 1),
         NEW a \in Nat, NEW c, OpenIn(P, F, a, c)
  PROVE  OpenIn(Q, G, a, c)
<1>1. c.at \in 1..Len(P) /\ a < c.at /\ a \in 0..Len(P) /\ c.at \in Nat
  BY DEF OpenIn
<1>2. Q[c.at] = P[c.at] /\ G[c.at] = F[c.at] /\ G[c.at + 1] = F[c.at + 1]
  BY <1>1 DEF Agree
<1>3. Entered(Q, G, c.at) = Entered(P, F, c.at)
  BY <1>2 DEF Entered
<1>4. Spans(Q, G, a, c.at, Entered(P, F, c.at))
  BY <1>1, SpansKept DEF OpenIn
<1>5. QED
  BY <1>1, <1>2, <1>3, <1>4 DEF OpenIn

-----------------------------------------------------------------------------
(* Going on from one part to the next.                                     *)

(* A statement that is no ALLOCATE and keeps the set.                      *)
LEMMA SpansOne ==
  ASSUME NEW P, NEW F, NEW a \in Nat, NEW b \in Nat, a < b, NEW S,
         Spans(P, F, a, b, S), P[b] # "alloc"
  PROVE  Spans(P, F, a, b + 1, S)
<1>1. CASE NoSites(P, a, b) /\ S = F[a + 1]
  BY <1>1 DEF Spans, NoSites
<1>2. CASE \E s \in S : a < s /\ LastSite(P, s, b)
  <2>1. PICK s \in S : a < s /\ LastSite(P, s, b)
    BY <1>2
  <2>2. LastSite(P, s, b + 1)
    BY <2>1 DEF LastSite, NoSites
  <2>3. QED
    BY <2>1, <2>2 DEF Spans
<1>3. QED
  BY <1>1, <1>2 DEF Spans

(* A whole part behind c: the sites of the part, or those in front of it.  *)
LEMMA SpansPart ==
  ASSUME NEW P, NEW F, NEW a \in Nat, NEW c \in Nat, NEW e \in Nat, a < c, c < e,
         NEW S, NEW T, NEW U,
         Spans(P, F, a, c, S), Spans(P, F, c, e, T), P[c] # "alloc",
         T \subseteq U, T = F[c + 1] => U = S
  PROVE  Spans(P, F, a, e, U)
<1>1. CASE NoSites(P, c, e) /\ T = F[c + 1]
  <2>1. U = S
    BY <1>1
  <2>2. CASE NoSites(P, a, c) /\ S = F[a + 1]
    <3>1. NoSites(P, a, e)
      BY <1>1, <2>2 DEF NoSites
    <3>2. QED
      BY <2>1, <2>2, <3>1 DEF Spans
  <2>3. CASE \E s \in S : a < s /\ LastSite(P, s, c)
    <3>1. PICK s \in S : a < s /\ LastSite(P, s, c)
      BY <2>3
    <3>2. LastSite(P, s, e)
      BY <1>1, <3>1 DEF LastSite, NoSites
    <3>3. QED
      BY <2>1, <3>1, <3>2 DEF Spans
  <2>4. QED
    BY <2>2, <2>3 DEF Spans
<1>2. CASE \E s \in T : c < s /\ LastSite(P, s, e)
  <2>1. PICK s \in T : c < s /\ LastSite(P, s, e)
    BY <1>2
  <2>2. a < s
    BY <2>1 DEF LastSite
  <2>3. QED
    BY <2>1, <2>2 DEF Spans
<1>3. QED
  BY <1>1, <1>2 DEF Spans

(* An empty stretch.                                                       *)
LEMMA SpansNothing ==
  ASSUME NEW P, NEW F, NEW a \in Nat
  PROVE  Spans(P, F, a, a + 1, F[a + 1])
BY DEF Spans, NoSites

-----------------------------------------------------------------------------
(* One step of the walk.                                                   *)

(* Statement s has been written behind the others.                         *)
Wrote(s) ==
  /\ Len(prog) \in Nat /\ Here = Len(prog) + 1 /\ Here' = Here + 1
  /\ Len(prog') = Len(prog) + 1
  /\ Agree(prog, prog', Len(prog)) /\ prog'[Here] = s
  /\ Agree(Sets, Sets', Here) /\ Sets[Here] = reach /\ Sets'[Here + 1] = reach'

(* Write appends the statement, and the set in front of it to the record.  *)
LEMMA WriteRecords ==
  ASSUME WalkTypes, WalkTypes', History, NEW s \in Statements, Write(s)
  PROVE  Wrote(s) /\ History'
<1>1. /\ prog \in Seq(Statements) /\ prog' = Append(prog, s) /\ Len(prog) \in Nat
      /\ reachAt \in Seq(SUBSET Nat) /\ reachAt' = Append(reachAt, reach)
      /\ reach \in SUBSET Nat /\ reach' \in SUBSET Nat /\ Len(reachAt) = Len(prog)
  BY DEF WalkTypes, History, Write
<1>2. /\ Len(prog') = Len(prog) + 1 /\ Agree(prog, prog', Len(prog))
      /\ prog'[Len(prog) + 1] = s
  BY <1>1 DEF Agree
<1>3. reachAt' \in Seq(SUBSET Nat) /\ Len(reachAt') = Len(reachAt) + 1
  BY <1>1
<1>4. /\ \A p \in 1..Len(prog) : Sets[p] = reachAt[p]
      /\ Sets[Len(prog) + 1] = reach
  BY <1>1 DEF Sets
<1>5. /\ \A p \in 1..(Len(prog) + 1) : Sets'[p] = reachAt'[p]
      /\ Sets'[Len(prog) + 2] = reach'
  BY <1>1, <1>3 DEF Sets
<1>6. \A p \in 1..(Len(prog) + 1) : Sets'[p] = Sets[p]
  <2>1. TAKE p \in 1..(Len(prog) + 1)
  <2>2. CASE p = Len(prog) + 1
    BY <1>1, <1>4, <1>5, <2>2
  <2>3. CASE p \in 1..Len(prog)
    BY <1>1, <1>4, <1>5, <2>3
  <2>4. QED
    BY <1>1, <2>2, <2>3
<1>7. QED
  BY <1>1, <1>2, <1>3, <1>4, <1>5, <1>6 DEF Wrote, History, Here, Agree

(* What the statements do to the set, and the constructs that are closed.  *)
LEMMA FlowStep ==
  ASSUME FlowInv, NEW s, Wrote(s), Threads(prog', Sets', Here),
         \A p \in 1..Len(prog) : IsOpen(open, p) /\ ~IsOpen(open', p)
           => p \in DOMAIN link' /\ Joins(prog', Sets', link', p),
         \A p \in 1..Len(prog) : p \in DOMAIN link /\ ~IsOpen(open, p)
           => p \in DOMAIN link' /\ link'[p] = link[p],
         s \in Jumping /\ ~IsOpen(open', Here)
           => Here \in DOMAIN link' /\ Joins(prog', Sets', link', Here)
  PROVE  FlowInv'
<1>1. /\ Len(prog) \in Nat /\ Len(prog') = Len(prog) + 1 /\ Here = Len(prog) + 1
      /\ Agree(prog, prog', Len(prog)) /\ Agree(Sets, Sets', Len(prog) + 1)
      /\ prog'[Here] = s
  BY DEF Wrote
<1>2. ASSUME NEW p \in 1..Len(prog')
      PROVE  Threads(prog', Sets', p)
  <2>1. CASE p \in 1..Len(prog)
    <3>1. Threads(prog, Sets, p)
      BY <2>1 DEF FlowInv
    <3>2. QED
      BY <1>1, <2>1, <3>1, ThreadsKept
  <2>2. CASE p = Here
    BY <2>2
  <2>3. QED
    BY <1>1, <1>2, <2>1, <2>2
<1>3. ASSUME NEW p \in 1..Len(prog'), prog'[p] \in Jumping, ~IsOpen(open', p)
      PROVE  p \in DOMAIN link' /\ Joins(prog', Sets', link', p)
  <2>1. CASE p \in 1..Len(prog) /\ ~IsOpen(open, p)
    <3>1. prog[p] \in Jumping
      BY <1>1, <1>3, <2>1 DEF Agree
    <3>2. p \in DOMAIN link /\ Joins(prog, Sets, link, p)
      BY <2>1, <3>1 DEF FlowInv
    <3>3. p \in DOMAIN link' /\ link'[p] = link[p]
      BY <2>1, <3>2
    <3>4. QED
      BY <1>1, <2>1, <3>1, <3>2, <3>3, JoinsKept
  <2>2. CASE p \in 1..Len(prog) /\ IsOpen(open, p)
    BY <1>3, <2>2
  <2>3. CASE p = Here
    BY <1>1, <1>3, <2>3
  <2>4. QED
    BY <1>1, <1>3, <2>1, <2>2, <2>3
<1>4. QED
  BY <1>2, <1>3 DEF FlowInv

(* The constructs still open: the first k of them, perhaps a new one.      *)
LEMMA OpenStep ==
  ASSUME OpenInv, NEW s, Wrote(s), Len(open) \in Nat, NEW k \in 0..Len(open),
         \A i \in 1..Len(open) : open[i].at \in Nat,
         \A i \in 1..k : open'[i] = open[i],
         \/ Len(open') = k
         \/ Len(open') = k + 1 /\ OpenIn(prog', Sets', Outer(open, k + 1), open'[k + 1]),
         Spans(prog', Sets', Outer(open', Len(open') + 1), Here', reach')
  PROVE  OpenInv'
<1>1. /\ Len(prog) \in Nat /\ Len(prog') = Len(prog) + 1
      /\ Agree(prog, prog', Len(prog)) /\ Agree(Sets, Sets', Len(prog) + 1)
  BY DEF Wrote
<1>2. \A i \in 1..(k + 1) : Outer(open', i) = Outer(open, i) /\ Outer(open, i) \in Nat
  BY DEF Outer
<1>3. ASSUME NEW i \in 1..Len(open')
      PROVE  OpenIn(prog', Sets', Outer(open', i), open'[i])
  <2>1. CASE i \in 1..k
    <3>1. OpenIn(prog, Sets, Outer(open, i), open[i])
      BY <2>1 DEF OpenInv
    <3>2. OpenIn(prog', Sets', Outer(open, i), open[i])
      BY <1>1, <1>2, <2>1, <3>1, OpenInKept
    <3>3. QED
      BY <1>2, <2>1, <3>2
  <2>2. CASE i = k + 1
    BY <1>2, <1>3, <2>2
  <2>3. QED
    BY <1>3, <2>1, <2>2
<1>4. QED
  BY <1>3 DEF OpenInv

(* unite neither adds nor loses a site.                                    *)
LEMMA UniteSites ==
  ASSUME NEW C, NEW T
  PROVE  UNION Unite(C, T) = UNION C
BY DEF Unite

(* The classes stay disjoint.                                              *)
LEMMA UniteApart ==
  ASSUME NEW C, NEW T, Apart(C)
  PROVE  Apart(Unite(C, T))
<1> DEFINE U == UNION {b \in C : b \cap T # {}}
<1>1. ASSUME NEW b \in C, b \cap T = {}
      PROVE  b \cap U = {}
  <2>1. ASSUME NEW x \in b, x \in U PROVE FALSE
    <3>1. PICK c \in C : c \cap T # {} /\ x \in c
      BY <2>1
    <3>2. b = c
      BY <2>1, <3>1 DEF Apart
    <3>3. QED
      BY <1>1, <3>1, <3>2
  <2>2. QED
    BY <2>1
<1>2. \A b \in Unite(C, T) : b = U \/ (b \in C /\ b \cap T = {})
  BY DEF Unite
<1> HIDE DEF U
<1>3. ASSUME NEW b \in Unite(C, T), NEW c \in Unite(C, T)
      PROVE  b = c \/ b \cap c = {}
  BY <1>1, <1>2 DEF Apart
<1>4. QED
  BY <1>3 DEF Apart

(* The sites and their partition, past anything but an ALLOCATE.           *)
LEMMA SitesStep ==
  ASSUME SitesInv, NEW s, Wrote(s), s # "alloc", Within(reach', classes'),
         classes' = classes \/ \E T : classes' = Unite(classes, T)
  PROVE  SitesInv'
<1>1. /\ Len(prog) \in Nat /\ Len(prog') = Len(prog) + 1 /\ Here = Len(prog) + 1
      /\ Here' = Len(prog) + 2
      /\ Agree(prog, prog', Len(prog)) /\ Agree(Sets, Sets', Len(prog) + 1)
      /\ prog'[Here] = s /\ Sets'[Here + 1] = reach'
  BY DEF Wrote
<1>2. UNION classes' = UNION classes /\ Apart(classes')
  BY UniteSites, UniteApart DEF SitesInv
<1>3. {p \in 1..Len(prog') : prog'[p] = "alloc"} = {p \in 1..Len(prog) : prog[p] = "alloc"}
  <2>1. \A p \in 1..Len(prog') : prog'[p] = "alloc" => p # Here
    BY <1>1
  <2>2. QED
    BY <1>1, <2>1 DEF Agree
<1>4. ASSUME NEW p \in 1..Here'
      PROVE  Within(Sets'[p], classes')
  <2>1. CASE p \in 1..Here
    <3>1. Within(Sets[p], classes)
      BY <2>1 DEF SitesInv
    <3>2. Sets'[p] = Sets[p]
      BY <1>1, <2>1 DEF Agree
    <3>3. QED
      BY <3>1, <3>2, UniteCoarsens
  <2>2. CASE p = Here + 1
    BY <1>1, <2>2
  <2>3. QED
    BY <1>1, <1>4, <2>1, <2>2
<1>5. QED
  BY <1>2, <1>3, <1>4 DEF SitesInv

(* The place in front of the last one.                                     *)
LEMMA Before ==
  ASSUME NEW n \in Nat \ {0}
  PROVE  n - 1 \in 0..n /\ (n # 1 => n - 1 \in 1..n)
OBVIOUS

(* The innermost construct and the part of it walked so far.               *)
LEMMA Innermost ==
  ASSUME WalkTypes, OpenInv
  PROVE  /\ Len(open) \in Nat /\ \A i \in 1..Len(open) : open[i].at \in Nat
         /\ Outer(open, Len(open) + 1) \in 0..Len(prog)
         /\ Spans(prog, Sets, Outer(open, Len(open) + 1), Here, reach)
<1>1. Len(open) \in Nat /\ Len(prog) \in Nat
  BY DEF WalkTypes
<1>2. \A i \in 1..Len(open) : open[i].at \in 1..Len(prog)
  BY DEF OpenInv, OpenIn
<1>3. Outer(open, Len(open) + 1) \in 0..Len(prog)
  BY <1>1, <1>2 DEF Outer
<1>4. QED
  BY <1>1, <1>2, <1>3 DEF OpenInv

(* What is known of the construct that the next END closes.                *)
LEMMA TopConstruct ==
  ASSUME WalkTypes, OpenInv, open # <<>>
  PROVE  /\ Top.at \in 1..Len(prog) /\ Len(open) \in Nat \ {0}
         /\ Top = open[Len(open)] /\ Top.at = Outer(open, Len(open) + 1)
         /\ Outer(open, Len(open)) \in 0..Len(prog)
         /\ OpenIn(prog, Sets, Outer(open, Len(open)), Top)
         /\ Spans(prog, Sets, Top.at, Here, reach)
<1>1. Len(open) \in Nat \ {0} /\ Top = open[Len(open)] /\ Len(prog) \in Nat
  BY DEF WalkTypes, Top, Last
<1>2. \A i \in 1..Len(open) : open[i].at \in 1..Len(prog)
  BY DEF OpenInv, OpenIn
<1>3. Top.at = Outer(open, Len(open) + 1)
  BY <1>1 DEF Outer
<1>4. Outer(open, Len(open)) \in 0..Len(prog)
  <2>1. CASE Len(open) = 1
    BY <1>1, <2>1 DEF Outer
  <2>2. CASE Len(open) # 1
    <3>1. Len(open) - 1 \in 1..Len(open)
      BY <1>1, <2>2, Before
    <3>2. open[Len(open) - 1].at \in 1..Len(prog)
      BY <1>2, <3>1
    <3>3. QED
      BY <1>1, <2>2, <3>2 DEF Outer
  <2>3. QED
    BY <2>1, <2>2
<1>5. OpenIn(prog, Sets, Outer(open, Len(open)), Top)
  BY <1>1 DEF OpenInv
<1>6. QED
  BY <1>1, <1>2, <1>3, <1>4, <1>5 DEF OpenInv

(* The stack after a push and after a pop.                                 *)
LEMMA Pushed ==
  ASSUME WalkTypes, NEW c \in Constructs, open' = Append(open, c)
  PROVE  /\ Len(open') = Len(open) + 1 /\ open'[Len(open) + 1] = c
         /\ \A i \in 1..Len(open) : open'[i] = open[i]
BY DEF WalkTypes

(* The stack without its innermost construct.                              *)
LEMMA Popped ==
  ASSUME NEW o, o \in Seq(Constructs), o # <<>>
  PROVE  /\ Front(o) \in Seq(Constructs) /\ Len(Front(o)) = Len(o) - 1
         /\ \A i \in 1..(Len(o) - 1) : Front(o)[i] = o[i]
<1>1. Len(o) \in Nat \ {0}
  OBVIOUS
<1>2. Front(o) \in Seq(Constructs)
  BY <1>1 DEF Front
<1>3. Len(Front(o)) = Len(o) - 1
  <2>1. PICK m \in Nat : m = Len(o) - 1 /\ Front(o) = SubSeq(o, 1, m)
    BY <1>1 DEF Front
  <2>2. Len(SubSeq(o, 1, m)) = m
    BY <1>1, <2>1
  <2>3. QED
    BY <2>1, <2>2
<1>4. \A i \in 1..(Len(o) - 1) : Front(o)[i] = o[i]
  BY <1>1 DEF Front
<1>5. QED
  BY <1>2, <1>3, <1>4

(* ALLOCATE: the new site is the last and the only one reaching.           *)
LEMMA AllocateKeepsStatic ==
  ASSUME StaticInv, WalkInv', Allocate
  PROVE  StaticInv'
<1>1. /\ WalkTypes /\ WalkTypes' /\ History /\ Write("alloc") /\ "alloc" \in Statements
      /\ reach' = {Here} /\ classes' = classes \cup {{Here}} /\ open' = open /\ link' = link
  BY DEF Allocate, StaticInv, WalkInv, Statements
<1>2. Wrote("alloc") /\ History'
  BY <1>1, WriteRecords
<1>3. /\ Here = Len(prog) + 1 /\ Len(prog) \in Nat /\ Len(prog') = Here /\ Here' = Here + 1
      /\ prog'[Here] = "alloc" /\ Sets'[Here + 1] = {Here}
      /\ Agree(prog, prog', Len(prog)) /\ Agree(Sets, Sets', Len(prog) + 1)
  BY <1>1, <1>2 DEF Wrote
<1>4. FlowInv'
  <2>1. Threads(prog', Sets', Here)
    BY <1>3 DEF Threads
  <2>2. "alloc" \notin Jumping
    BY DEF Jumping
  <2>3. QED
    BY <1>1, <1>2, <2>1, <2>2, FlowStep DEF StaticInv
<1>5. OpenInv'
  <2> DEFINE a == Outer(open, Len(open) + 1)
  <2>1. Len(open) \in Nat /\ a \in 0..Len(prog) /\ \A i \in 1..Len(open) : open[i].at \in Nat
    BY <1>1, Innermost DEF StaticInv
  <2>2. Here \in 1..(Here + 1 - 1) /\ LastSite(prog', Here, Here + 1)
    BY <1>3 DEF LastSite, NoSites
  <2>3. Spans(prog', Sets', a, Here + 1, {Here})
    BY <1>3, <2>1, <2>2 DEF Spans
  <2>4. Spans(prog', Sets', Outer(open', Len(open') + 1), Here', reach')
    BY <1>1, <1>3, <2>3
  <2>5. Len(open') = Len(open) /\ \A i \in 1..Len(open) : open'[i] = open[i]
    BY <1>1
  <2>6. QED
    BY <1>2, <2>1, <2>4, <2>5, OpenStep DEF StaticInv
<1>6. SitesInv'
  <2>1. /\ UNION classes = {p \in 1..Len(prog) : prog[p] = "alloc"}
        /\ Apart(classes) /\ \A p \in 1..Here : Within(Sets[p], classes)
    BY DEF StaticInv, SitesInv
  <2>2. UNION classes' = (UNION classes) \cup {Here}
    <3>1. \A x : x \in UNION classes' <=> x \in UNION classes \/ x = Here
      BY <1>1
    <3>2. QED
      BY <3>1
  <2>3. {p \in 1..Len(prog') : prog'[p] = "alloc"}
          = {p \in 1..Len(prog) : prog[p] = "alloc"} \cup {Here}
    <3>1. ASSUME NEW p \in 1..Len(prog')
          PROVE  prog'[p] = "alloc" <=> p = Here \/ (p \in 1..Len(prog) /\ prog[p] = "alloc")
      BY <1>3, <3>1 DEF Agree
    <3>2. 1..Len(prog') = 1..Len(prog) \cup {Here}
      BY <1>3
    <3>3. QED
      BY <3>1, <3>2
  <2>4. Apart(classes')
    <3>1. \A b \in classes : Here \notin b
      BY <1>3, <2>1
    <3>2. ASSUME NEW b \in classes', NEW c \in classes'
          PROVE  b = c \/ b \cap c = {}
      <4>1. (b \in classes \/ b = {Here}) /\ (c \in classes \/ c = {Here})
        BY <1>1, <3>2
      <4>2. CASE b \in classes /\ c \in classes
        BY <2>1, <4>2 DEF Apart
      <4>3. CASE b = {Here} \/ c = {Here}
        BY <3>1, <4>1, <4>3
      <4>4. QED
        BY <4>1, <4>2, <4>3
    <3>3. QED
      BY <3>2 DEF Apart
  <2>5. ASSUME NEW p \in 1..Here'
        PROVE  Within(Sets'[p], classes')
    <3>1. CASE p \in 1..Here
      <4>1. Within(Sets[p], classes) /\ Sets'[p] = Sets[p]
        BY <1>3, <2>1, <3>1 DEF Agree
      <4>2. QED
        BY <1>1, <4>1, WithinGrows
    <3>2. CASE p = Here + 1
      BY <1>1, <1>3, <3>2 DEF Within
    <3>3. QED
      BY <1>3, <2>5, <3>1, <3>2
  <2>6. UNION classes' = {p \in 1..Len(prog') : prog'[p] = "alloc"}
    BY <2>1, <2>2, <2>3
  <2>7. QED
    BY <2>4, <2>5, <2>6 DEF SitesInv
<1>7. QED
  BY <1>2, <1>4, <1>5, <1>6 DEF StaticInv

(* DEALLOCATE and uses thread the set through.                             *)
LEMMA PlainKeepsStatic ==
  ASSUME StaticInv, WalkInv', NEW s \in {"free", "use"}, Plain(s)
  PROVE  StaticInv'
<1>1. /\ WalkTypes /\ WalkTypes' /\ History /\ Write(s) /\ s \in Statements
      /\ reach' = reach /\ classes' = classes /\ open' = open /\ link' = link
  BY DEF Plain, StaticInv, WalkInv, Statements
<1>2. Wrote(s) /\ History'
  BY <1>1, WriteRecords
<1>3. /\ Here = Len(prog) + 1 /\ Len(prog) \in Nat /\ Here' = Here + 1
      /\ prog'[Here] = s /\ Sets'[Here + 1] = reach /\ Sets'[Here] = reach
      /\ Agree(prog, prog', Len(prog)) /\ Agree(Sets, Sets', Len(prog) + 1)
  BY <1>1, <1>2 DEF Wrote, Agree
<1>4. FlowInv'
  <2>1. Threads(prog', Sets', Here)
    BY <1>3 DEF Threads
  <2>2. s \notin Jumping
    BY DEF Jumping
  <2>3. QED
    BY <1>1, <1>2, <2>1, <2>2, FlowStep DEF StaticInv
<1>5. OpenInv'
  <2> DEFINE a == Outer(open, Len(open) + 1)
  <2>1. /\ Len(open) \in Nat /\ a \in 0..Len(prog)
        /\ \A i \in 1..Len(open) : open[i].at \in Nat
        /\ Spans(prog, Sets, a, Here, reach)
    BY <1>1, Innermost DEF StaticInv
  <2> HIDE DEF a
  <2>2. Spans(prog', Sets', a, Here, reach)
    BY <1>3, <2>1, SpansKept
  <2>3. Spans(prog', Sets', a, Here + 1, reach)
    BY <1>3, <2>1, <2>2, SpansOne
  <2>4. Spans(prog', Sets', Outer(open', Len(open') + 1), Here', reach')
    BY <1>1, <1>3, <2>3 DEF a
  <2>5. QED
    BY <1>1, <1>2, <2>1, <2>4, OpenStep DEF StaticInv
<1>6. SitesInv'
  <2>1. Within(reach', classes')
    BY InTermsOfWithinNext DEF WalkInv
  <2>2. QED
    BY <1>1, <1>2, <2>1, SitesStep DEF StaticInv
<1>7. QED
  BY <1>2, <1>4, <1>5, <1>6 DEF StaticInv

(* An IF or a DO opens a part that starts from the set in front of it.     *)
LEMMA OpeningKeepsStatic ==
  ASSUME StaticInv, WalkInv', NEW s \in {"if", "do"}, Write(s), NEW c \in Constructs,
         open' = Append(open, c), c.at = Here, s = "if" => c.in = reach,
         reach' = reach, classes' = classes, link' = link
  PROVE  StaticInv'
<1>1. WalkTypes /\ WalkTypes' /\ History /\ s \in Statements
  BY DEF StaticInv, WalkInv, Statements
<1>2. Wrote(s) /\ History'
  BY <1>1, WriteRecords
<1>3. /\ Here = Len(prog) + 1 /\ Len(prog) \in Nat /\ Here' = Here + 1 /\ Here \in Nat
      /\ Len(prog') = Here
      /\ prog'[Here] = s /\ Sets'[Here + 1] = reach /\ Sets'[Here] = reach
      /\ Agree(prog, prog', Len(prog)) /\ Agree(Sets, Sets', Len(prog) + 1)
  BY <1>2 DEF Wrote, Agree
<1>4. /\ Len(open') = Len(open) + 1 /\ open'[Len(open) + 1] = c
      /\ \A i \in 1..Len(open) : open'[i] = open[i]
  BY <1>1, Pushed
<1> DEFINE a == Outer(open, Len(open) + 1)
<1>5. /\ Len(open) \in Nat /\ a \in 0..Len(prog)
      /\ \A i \in 1..Len(open) : open[i].at \in Nat
      /\ Spans(prog, Sets, a, Here, reach)
  BY <1>1, Innermost DEF StaticInv
<1>6. FlowInv'
  <2>1. Threads(prog', Sets', Here)
    BY <1>3 DEF Threads
  <2>2. IsOpen(open', Here)
    BY <1>4, <1>5 DEF IsOpen
  <2>3. \A p \in 1..Len(prog) : IsOpen(open, p) => IsOpen(open', p)
    BY <1>4, <1>5 DEF IsOpen
  <2>4. QED
    BY <1>2, <2>1, <2>2, <2>3, FlowStep DEF StaticInv
<1>7. OpenInv'
  <2> HIDE DEF a
  <2>1. Spans(prog', Sets', a, Here, reach)
    BY <1>3, <1>5, SpansKept
  <2>2. Entered(prog', Sets', Here) = reach
    BY <1>3 DEF Entered
  <2>3. OpenIn(prog', Sets', a, c)
    BY <1>3, <1>5, <2>1, <2>2 DEF OpenIn
  <2>4. Outer(open', Len(open') + 1) = Here
    BY <1>4, <1>5 DEF Outer
  <2>5. Spans(prog', Sets', Outer(open', Len(open') + 1), Here', reach')
    BY <1>3, <2>4, SpansNothing
  <2>6. OpenIn(prog', Sets', Outer(open, Len(open) + 1), open'[Len(open) + 1])
    BY <1>4, <2>3 DEF a
  <2>7. QED
    BY <1>2, <1>4, <1>5, <2>5, <2>6, OpenStep DEF StaticInv
<1>8. SitesInv'
  <2>1. Within(reach', classes')
    BY InTermsOfWithinNext DEF WalkInv
  <2>2. QED
    BY <1>2, <2>1, SitesStep DEF StaticInv
<1>9. QED
  BY <1>2, <1>6, <1>7, <1>8 DEF StaticInv

(* The part that ends here, read in the longer routine.                    *)
LEMMA PartEnds ==
  ASSUME StaticInv, open # <<>>, NEW s, Wrote(s)
  PROVE  /\ Top.at \in 1..Len(prog) /\ Part(prog', Sets', Top.at, Here)
         /\ prog'[Top.at] = prog[Top.at] /\ prog'[Here] = s
         /\ Sets'[Top.at] = Sets[Top.at] /\ Sets'[Top.at + 1] = Sets[Top.at + 1]
         /\ Sets'[Here] = reach /\ Sets'[Here + 1] = reach'
         /\ prog[Top.at] \in {"if", "do"} => Sets[Top.at + 1] = Sets[Top.at]
<1>1. /\ Top.at \in 1..Len(prog) /\ Spans(prog, Sets, Top.at, Here, reach)
  BY TopConstruct DEF StaticInv, WalkInv
<1>2. /\ Here = Len(prog) + 1 /\ Len(prog) \in Nat /\ Here \in Nat /\ Len(prog') = Here
      /\ prog'[Here] = s /\ Sets[Here] = reach /\ Sets'[Here + 1] = reach'
      /\ Agree(prog, prog', Len(prog)) /\ Agree(Sets, Sets', Len(prog) + 1)
  BY DEF Wrote
<1>3. /\ prog'[Top.at] = prog[Top.at] /\ Sets'[Top.at] = Sets[Top.at]
      /\ Sets'[Top.at + 1] = Sets[Top.at + 1] /\ Sets'[Here] = reach
  BY <1>1, <1>2 DEF Agree
<1>4. Spans(prog', Sets', Top.at, Here, reach)
  BY <1>1, <1>2, SpansKept
<1>5. Part(prog', Sets', Top.at, Here)
  BY <1>1, <1>2, <1>3, <1>4 DEF Part
<1>6. Threads(prog, Sets, Top.at)
  BY <1>1 DEF StaticInv, FlowInv
<1>7. QED
  BY <1>1, <1>2, <1>3, <1>5, <1>6 DEF Threads

(* Jumping to Here from the innermost construct leaves the other jumps.    *)
LEMMA JumpsAdds ==
  ASSUME NEW f, NEW from, NEW to
  PROVE  /\ from \in DOMAIN Jumps(f, from, to) /\ Jumps(f, from, to)[from] = to
         /\ \A p \in DOMAIN f : /\ p \in DOMAIN Jumps(f, from, to)
                                /\ p # from => Jumps(f, from, to)[p] = f[p]
BY DEF Jumps

(* Behind a construct, seen from the one around it: U is the set behind.   *)
LEMMA PastConstruct ==
  ASSUME StaticInv, open # <<>>, NEW s, Wrote(s), s # "alloc", NEW U,
         reach \subseteq U,
         reach = Sets[Top.at + 1] => U = Entered(prog, Sets, Top.at)
  PROVE  /\ Spans(prog', Sets', Outer(open, Len(open)), Here, U)
         /\ Spans(prog', Sets', Outer(open, Len(open)), Here + 1, U)
<1> DEFINE a == Outer(open, Len(open))
<1>1. /\ Top.at \in 1..Len(prog) /\ a \in 0..Len(prog)
      /\ OpenIn(prog, Sets, a, Top) /\ Spans(prog, Sets, Top.at, Here, reach)
  BY TopConstruct DEF StaticInv, WalkInv
<1>2. /\ Here = Len(prog) + 1 /\ Len(prog) \in Nat /\ Here \in Nat
      /\ prog'[Here] = s
      /\ Agree(prog, prog', Len(prog)) /\ Agree(Sets, Sets', Len(prog) + 1)
  BY DEF Wrote
<1> HIDE DEF a
<1>3. /\ a < Top.at /\ prog[Top.at] # "alloc" /\ a \in Nat /\ Top.at \in Nat /\ Top.at < Here
      /\ Spans(prog, Sets, a, Top.at, Entered(prog, Sets, Top.at))
  BY <1>1, <1>2 DEF OpenIn
<1>4. Spans(prog, Sets, a, Here, U)
  <2> DEFINE S == Entered(prog, Sets, Top.at)
  <2>1. /\ Here \in Nat /\ Spans(prog, Sets, a, Top.at, S)
        /\ Spans(prog, Sets, Top.at, Here, reach)
        /\ reach \subseteq U /\ (reach = Sets[Top.at + 1] => U = S)
    BY <1>1, <1>2, <1>3
  <2> HIDE DEF S
  <2>2. QED
    BY <1>3, <2>1, SpansPart
<1>5. Spans(prog', Sets', a, Here, U)
  <2>1. Here <= Len(prog) + 1
    BY <1>2
  <2>2. QED
    BY <1>1, <1>2, <1>4, <2>1, SpansKept
<1>6. Spans(prog', Sets', a, Here + 1, U)
  BY <1>1, <1>2, <1>3, <1>5, SpansOne
<1>7. QED
  BY <1>5, <1>6 DEF a

(* What leaves the stack is the innermost construct.                       *)
LEMMA OnlyTopCloses ==
  ASSUME WalkTypes, open # <<>>, NEW o, Len(o) >= Len(open) - 1, Len(o) \in Nat,
         \A i \in 1..(Len(open) - 1) : o[i] = open[i],
         NEW p, IsOpen(open, p), ~IsOpen(o, p)
  PROVE  p = Top.at
<1>1. Len(open) \in Nat \ {0} /\ Top = open[Len(open)]
  BY DEF WalkTypes, Top, Last
<1>2. PICK i \in 1..Len(open) : open[i].at = p
  BY DEF IsOpen
<1>3. CASE i \in 1..(Len(open) - 1)
  <2>1. i \in 1..Len(o) /\ o[i].at = p
    BY <1>1, <1>2, <1>3
  <2>2. QED
    BY <2>1 DEF IsOpen
<1>4. CASE i = Len(open)
  BY <1>1, <1>2, <1>4
<1>5. QED
  BY <1>1, <1>2, <1>3, <1>4

(* ELSE: the set goes back to the one in front of the IF.                  *)
LEMMA ElseKeepsStatic ==
  ASSUME StaticInv, WalkInv', Else
  PROVE  StaticInv'
<1> DEFINE c == Construct(Here, Top.in, reach)
<1>1. /\ WalkTypes /\ WalkTypes' /\ History /\ Write("else") /\ "else" \in Statements
      /\ open # <<>> /\ prog[Top.at] = "if" /\ reach' = Top.in /\ classes' = classes
      /\ open' = Append(Front(open), c) /\ link' = Jumps(link, Top.at, Here)
  BY DEF Else, StaticInv, WalkInv, Statements
<1>2. Wrote("else") /\ History'
  BY <1>1, WriteRecords
<1>3. /\ Here = Len(prog) + 1 /\ Len(prog) \in Nat /\ Here' = Here + 1 /\ Here \in Nat
      /\ Len(prog') = Here
  BY <1>2 DEF Wrote
<1>4. /\ Top.at \in 1..Len(prog) /\ Part(prog', Sets', Top.at, Here)
      /\ prog'[Top.at] = "if" /\ prog'[Here] = "else"
      /\ Sets'[Top.at] = Sets[Top.at] /\ Sets[Top.at + 1] = Sets[Top.at]
      /\ Sets'[Here] = reach /\ Sets'[Here + 1] = reach'
  BY <1>1, <1>2, PartEnds
<1>5. /\ Len(open) \in Nat \ {0} /\ Outer(open, Len(open)) \in 0..Len(prog)
      /\ Top.in = Sets[Top.at]
  BY <1>1, TopConstruct DEF StaticInv, OpenIn
<1>6. /\ c \in Constructs /\ c.at = Here /\ c.out = reach
  <2>1. Top \in Constructs
    BY <1>1, TopAndFront DEF WalkTypes
  <2>2. QED
    BY <1>1, <1>3, <2>1 DEF Constructs, Construct, WalkTypes
<1> HIDE DEF c
<1>7. /\ Len(open') = Len(open) /\ open'[Len(open)] = c
      /\ \A i \in 1..(Len(open) - 1) : open'[i] = open[i]
  <2>1. /\ Front(open) \in Seq(Constructs) /\ Len(Front(open)) = Len(open) - 1
        /\ \A i \in 1..(Len(open) - 1) : Front(open)[i] = open[i]
    BY <1>1, Popped DEF WalkTypes
  <2>2. QED
    BY <1>1, <1>5, <1>6, <2>1
<1>8. FlowInv'
  <2>1. Threads(prog', Sets', Here)
    BY <1>4 DEF Threads
  <2>2. IsOpen(open', Here)
    BY <1>5, <1>6, <1>7 DEF IsOpen
  <2>3. /\ Top.at \in DOMAIN link' /\ link'[Top.at] = Here
        /\ \A p \in DOMAIN link : p \in DOMAIN link' /\ (p # Top.at => link'[p] = link[p])
    BY <1>1, JumpsAdds
  <2>4. Joins(prog', Sets', link', Top.at)
    BY <1>1, <1>3, <1>4, <1>5, <2>3 DEF Joins
  <2>5. IsOpen(open, Top.at)
    BY <1>5 DEF IsOpen, Top, Last
  <2>6. \A p : IsOpen(open, p) /\ ~IsOpen(open', p) => p = Top.at
    <3>1. Len(open') \in Nat /\ Len(open') >= Len(open) - 1
      BY <1>5, <1>7
    <3>2. QED
      BY <1>1, <1>7, <3>1, OnlyTopCloses
  <2>7. QED
    BY <1>2, <2>1, <2>2, <2>3, <2>4, <2>5, <2>6, FlowStep DEF StaticInv
<1>9. OpenInv'
  <2> DEFINE a == Outer(open, Len(open))
             U == reach \cup Top.in
  <2>1. Entered(prog, Sets, Top.at) = Top.in
    BY <1>1, <1>5 DEF Entered
  <2>2. Spans(prog', Sets', a, Here, U)
    BY <1>1, <1>2, <1>4, <1>5, <2>1, PastConstruct
  <2>3. Entered(prog', Sets', Here) = U
    BY <1>1, <1>4 DEF Entered
  <2>4. OpenIn(prog', Sets', a, c)
    <3>1. a < Here /\ c.at \in 1..Len(prog')
      BY <1>3, <1>5, <1>6
    <3>2. Spans(prog', Sets', a, c.at, Entered(prog', Sets', c.at))
      BY <1>6, <2>2, <2>3
    <3>3. QED
      BY <1>4, <1>6, <3>1, <3>2 DEF OpenIn
  <2>5. Outer(open', Len(open') + 1) = Here
    BY <1>5, <1>6, <1>7 DEF Outer
  <2>6. Spans(prog', Sets', Outer(open', Len(open') + 1), Here', reach')
    BY <1>3, <1>4, <2>5, SpansNothing
  <2>7. PICK k \in 0..Len(open) : k = Len(open) - 1
    BY <1>5, Before
  <2>8. OpenIn(prog', Sets', Outer(open, k + 1), open'[k + 1])
    BY <1>5, <1>7, <2>4, <2>7
  <2>9. /\ Len(open) \in Nat /\ \A i \in 1..Len(open) : open[i].at \in Nat
    BY <1>1, Innermost DEF StaticInv
  <2>10. Len(open') = k + 1 /\ \A i \in 1..k : open'[i] = open[i]
    BY <1>5, <1>7, <2>7
  <2>11. QED
    BY <1>2, <2>6, <2>8, <2>9, <2>10, OpenStep DEF StaticInv
<1>10. SitesInv'
  <2>1. Within(reach', classes')
    BY InTermsOfWithinNext DEF WalkInv
  <2>2. QED
    BY <1>1, <1>2, <2>1, SitesStep DEF StaticInv
<1>11. QED
  BY <1>2, <1>8, <1>9, <1>10 DEF StaticInv

(* The stack and the part around, once the innermost construct is closed.  *)
LEMMA ClosingKeepsOpen ==
  ASSUME StaticInv, open # <<>>, NEW s, Wrote(s), s # "alloc", open' = Front(open),
         reach \subseteq reach',
         reach = Sets[Top.at + 1] => reach' = Entered(prog, Sets, Top.at)
  PROVE  /\ OpenInv' /\ Len(open') = Len(open) - 1
         /\ \A i \in 1..(Len(open) - 1) : open'[i] = open[i]
<1>1. /\ Len(open') = Len(open) - 1
      /\ \A i \in 1..(Len(open) - 1) : open'[i] = open[i]
  BY Popped DEF StaticInv, WalkInv, WalkTypes
<1>2. /\ Len(open) \in Nat \ {0} /\ \A i \in 1..Len(open) : open[i].at \in Nat
  BY Innermost, TopConstruct DEF StaticInv, WalkInv
<1>3. Here' = Here + 1 /\ Here \in Nat
  BY DEF Wrote
<1>4. Outer(open', Len(open') + 1) = Outer(open, Len(open))
  BY <1>1, <1>2 DEF Outer
<1>5. Spans(prog', Sets', Outer(open, Len(open)), Here + 1, reach')
  BY PastConstruct
<1>6. Spans(prog', Sets', Outer(open', Len(open') + 1), Here', reach')
  BY <1>3, <1>4, <1>5
<1>7. PICK k \in 0..Len(open) : k = Len(open) - 1
  BY <1>2, Before
<1>8. Len(open') = k /\ \A i \in 1..k : open'[i] = open[i]
  BY <1>1, <1>7
<1>9. OpenInv'
  BY <1>2, <1>6, <1>8, OpenStep DEF StaticInv
<1>10. QED
  BY <1>1, <1>9

(* END IF: the sets of the two branches meet.                              *)
LEMMA EndIfKeepsStatic ==
  ASSUME StaticInv, WalkInv', EndIf
  PROVE  StaticInv'
<1> DEFINE other == IF prog[Top.at] = "if" THEN Top.in ELSE Top.out
<1>1. /\ WalkTypes /\ WalkTypes' /\ History /\ Write("end") /\ "end" \in Statements
      /\ open # <<>> /\ prog[Top.at] \in {"if", "else"}
      /\ open' = Front(open) /\ link' = Jumps(link, Top.at, Here)
      /\ reach' = reach \cup other /\ MergeBranches(reach, other)
  BY DEF EndIf, StaticInv, WalkInv, Statements
<1>2. Wrote("end") /\ History'
  BY <1>1, WriteRecords
<1>3. Here = Len(prog) + 1 /\ Len(prog) \in Nat /\ Here \in Nat /\ Len(prog') = Here
  BY <1>2 DEF Wrote
<1>4. /\ Top.at \in 1..Len(prog) /\ Part(prog', Sets', Top.at, Here)
      /\ prog'[Top.at] = prog[Top.at] /\ prog'[Here] = "end"
      /\ Sets'[Top.at] = Sets[Top.at]
      /\ Sets'[Here] = reach /\ Sets'[Here + 1] = reach'
      /\ prog[Top.at] = "if" => Sets[Top.at + 1] = Sets[Top.at]
  BY <1>1, <1>2, PartEnds
<1>5. other = Sets[Top.at]
  BY <1>1, TopConstruct DEF StaticInv, OpenIn
<1> HIDE DEF other
<1>6. /\ OpenInv' /\ Len(open') = Len(open) - 1
      /\ \A i \in 1..(Len(open) - 1) : open'[i] = open[i]
  <2>1. reach = Sets[Top.at + 1] => reach' = Entered(prog, Sets, Top.at)
    BY <1>1, <1>4, <1>5 DEF Entered
  <2>2. QED
    BY <1>1, <1>2, <2>1, ClosingKeepsOpen
<1>7. FlowInv'
  <2>1. Threads(prog', Sets', Here)
    BY <1>1, <1>4 DEF Threads
  <2>2. "end" \notin Jumping
    BY DEF Jumping
  <2>3. /\ Top.at \in DOMAIN link' /\ link'[Top.at] = Here
        /\ \A p \in DOMAIN link : p \in DOMAIN link' /\ (p # Top.at => link'[p] = link[p])
    BY <1>1, JumpsAdds
  <2>4. Joins(prog', Sets', link', Top.at)
    BY <1>1, <1>3, <1>4, <1>5, <2>3 DEF Joins
  <2>5. Len(open) \in Nat \ {0} /\ IsOpen(open, Top.at)
    BY <1>1, TopConstruct DEF StaticInv, IsOpen
  <2>6. \A p : IsOpen(open, p) /\ ~IsOpen(open', p) => p = Top.at
    <3>1. Len(open') \in Nat /\ Len(open') >= Len(open) - 1
      BY <1>6, <2>5
    <3>2. QED
      BY <1>1, <1>6, <3>1, OnlyTopCloses
  <2>7. QED
    BY <1>2, <2>1, <2>2, <2>3, <2>4, <2>5, <2>6, FlowStep DEF StaticInv
<1>8. SitesInv'
  <2>1. Within(reach', classes')
    BY InTermsOfWithinNext DEF WalkInv
  <2>2. classes' = classes \/ \E T : classes' = Unite(classes, T)
    BY <1>1 DEF MergeBranches
  <2>3. QED
    BY <1>2, <2>1, <2>2, SitesStep DEF StaticInv
<1>9. QED
  BY <1>2, <1>6, <1>7, <1>8 DEF StaticInv

(* END DO: the set at the end of the body is the set behind the loop.      *)
LEMMA EndDoKeepsStatic ==
  ASSUME StaticInv, WalkInv', EndDo
  PROVE  StaticInv'
<1>1. /\ WalkTypes /\ WalkTypes' /\ History /\ Write("od") /\ "od" \in Statements
      /\ open # <<>> /\ prog[Top.at] = "do" /\ open' = Front(open)
      /\ link' = Jumps(Jumps(link, Top.at, Here), Here, Top.at)
      /\ reach' = reach /\ classes' = classes
  BY DEF EndDo, StaticInv, WalkInv, Statements
<1>2. Wrote("od") /\ History'
  BY <1>1, WriteRecords
<1>3. Here = Len(prog) + 1 /\ Len(prog) \in Nat /\ Here \in Nat /\ Len(prog') = Here
  BY <1>2 DEF Wrote
<1>4. /\ Top.at \in 1..Len(prog) /\ Part(prog', Sets', Top.at, Here)
      /\ prog'[Top.at] = "do" /\ prog'[Here] = "od"
      /\ Sets'[Here] = reach /\ Sets'[Here + 1] = reach
      /\ Sets[Top.at + 1] = Sets[Top.at]
  BY <1>1, <1>2, PartEnds
<1>5. /\ OpenInv' /\ Len(open') = Len(open) - 1
      /\ \A i \in 1..(Len(open) - 1) : open'[i] = open[i]
  <2>1. reach = Sets[Top.at + 1] => reach' = Entered(prog, Sets, Top.at)
    BY <1>1, <1>4 DEF Entered
  <2>2. QED
    BY <1>1, <1>2, <2>1, ClosingKeepsOpen
<1>6. FlowInv'
  <2>1. Threads(prog', Sets', Here)
    BY <1>4 DEF Threads
  <2> DEFINE once == Jumps(link, Top.at, Here)
  <2>2. /\ Top.at \in DOMAIN once /\ once[Top.at] = Here
        /\ \A p \in DOMAIN link : p \in DOMAIN once /\ (p # Top.at => once[p] = link[p])
    BY JumpsAdds
  <2>3. link' = Jumps(once, Here, Top.at)
    BY <1>1
  <2> HIDE DEF once
  <2>4. /\ Here \in DOMAIN link' /\ link'[Here] = Top.at
        /\ \A p \in DOMAIN once : p \in DOMAIN link' /\ (p # Here => link'[p] = once[p])
    BY <2>3, JumpsAdds
  <2>5. /\ Top.at \in DOMAIN link' /\ link'[Top.at] = Here
        /\ \A p \in 1..Len(prog) : p \in DOMAIN link /\ p # Top.at
             => p \in DOMAIN link' /\ link'[p] = link[p]
    BY <1>3, <1>4, <2>2, <2>4
  <2>6. Joins(prog', Sets', link', Top.at)
    BY <1>3, <1>4, <2>5 DEF Joins
  <2>7. Joins(prog', Sets', link', Here)
    BY <1>3, <1>4, <2>4 DEF Joins
  <2>8. Len(open) \in Nat \ {0} /\ IsOpen(open, Top.at)
    BY <1>1, TopConstruct DEF StaticInv, IsOpen
  <2>9. \A p : IsOpen(open, p) /\ ~IsOpen(open', p) => p = Top.at
    <3>1. Len(open') \in Nat /\ Len(open') >= Len(open) - 1
      BY <1>5, <2>8
    <3>2. QED
      BY <1>1, <1>5, <3>1, OnlyTopCloses
  <2>10. QED
    BY <1>2, <2>1, <2>4, <2>5, <2>6, <2>7, <2>8, <2>9, FlowStep DEF StaticInv
<1>7. SitesInv'
  <2>1. Within(reach', classes')
    BY InTermsOfWithinNext DEF WalkInv
  <2>2. QED
    BY <1>1, <1>2, <2>1, SitesStep DEF StaticInv
<1>8. QED
  BY <1>2, <1>5, <1>6, <1>7 DEF StaticInv

(* One step of the walk keeps what is known of the routine.                *)
LEMMA SourceKeepsStatic ==
  ASSUME StaticInv, Source
  PROVE  StaticInv'
<1>1. WalkInv'
  BY StepKeepsWalkInv DEF StaticInv, Next
<1>2. CASE Allocate
  BY <1>1, <1>2, AllocateKeepsStatic
<1>3. CASE \E s \in {"free", "use"} : Plain(s)
  BY <1>1, <1>3, PlainKeepsStatic
<1>4. CASE If
  <2> DEFINE c == Construct(Here, reach, {})
  <2>1. c \in Constructs /\ c.at = Here /\ c.in = reach
    BY DEF Constructs, Construct, Here, StaticInv, WalkInv, WalkTypes
  <2>2. open' = Append(open, c) /\ Write("if")
        /\ reach' = reach /\ classes' = classes /\ link' = link
    BY <1>4 DEF If
  <2> HIDE DEF c
  <2>3. QED
    BY <1>1, <2>1, <2>2, OpeningKeepsStatic
<1>5. CASE Do
  <2> DEFINE c == Construct(Here, {}, {})
  <2>1. c \in Constructs /\ c.at = Here
    BY DEF Constructs, Construct, Here, StaticInv, WalkInv, WalkTypes
  <2>2. open' = Append(open, c) /\ Write("do")
        /\ reach' = reach /\ classes' = classes /\ link' = link
    BY <1>5 DEF Do
  <2> HIDE DEF c
  <2>3. QED
    BY <1>1, <2>1, <2>2, OpeningKeepsStatic
<1>6. CASE Else
  BY <1>1, <1>6, ElseKeepsStatic
<1>7. CASE EndIf
  BY <1>1, <1>7, EndIfKeepsStatic
<1>8. CASE EndDo
  BY <1>1, <1>8, EndDoKeepsStatic
<1>9. QED
  BY <1>2, <1>3, <1>4, <1>5, <1>6, <1>7, <1>8 DEF Source

-----------------------------------------------------------------------------
(* The buffers.                                                            *)

(* A site is an ALLOCATE of the routine.                                   *)
LEMMA SitesAre ==
  ASSUME StaticInv
  PROVE  /\ Sites = {p \in 1..Len(prog) : prog[p] = "alloc"}
         /\ Len(prog) \in Nat /\ Here = Len(prog) + 1
BY DEF StaticInv, SitesInv, WalkInv, WalkTypes, Sites, Here

(* Two sites of one reaching set share a buffer.                           *)
LEMMA Together ==
  ASSUME StaticInv, NEW p \in 1..Here, NEW s \in Sets[p], NEW t \in Sets[p]
  PROVE  SameBuffer(classes, s, t)
<1>1. Within(Sets[p], classes)
  BY DEF StaticInv, SitesInv
<1>2. QED
  BY <1>1 DEF Within, SameBuffer

(* Sharing a buffer is having the same name for it.                        *)
LEMMA OneName ==
  ASSUME StaticInv, NEW s, NEW t, SameBuffer(classes, s, t)
  PROVE  Buffer(s) = Buffer(t)
<1>1. PICK b \in classes : s \in b /\ t \in b
  BY DEF SameBuffer
<1>2. \A c \in classes : (s \in c \/ t \in c) => c = b
  BY <1>1 DEF StaticInv, SitesInv, Apart
<1>3. (CHOOSE c \in classes : s \in c) = b
  BY <1>1, <1>2
<1>4. (CHOOSE c \in classes : t \in c) = b
  BY <1>1, <1>2
<1>5. QED
  BY <1>3, <1>4 DEF Buffer

(* buildAST binds a use to the buffer of the ALLOCATE walked last.         *)
LEMMA BoundToLast ==
  ASSUME StaticInv, NEW p \in Nat, NEW s \in Sites, LastSite(prog, s, p)
  PROVE  Bound(p) = Buffer(s)
<1> DEFINE before == {t \in Sites : t < p}
<1>1. \A t \in Sites : t \in Nat /\ prog[t] = "alloc"
  BY SitesAre
<1>2. s \in before
  BY <1>1 DEF LastSite
<1>3. \A t \in before : s >= t /\ t \in Nat
  <2>1. SUFFICES ASSUME NEW t \in before, ~(s >= t) PROVE FALSE
    BY <1>1, <1>2
  <2>2. t \in (s + 1)..(p - 1)
    BY <1>1, <1>2, <2>1
  <2>3. QED
    BY <1>1, <2>2 DEF LastSite, NoSites
<1> HIDE DEF before
<1>4. Max(before) = s
  <2>1. \A x \in before : (\A y \in before : x >= y) => x = s
    <3>1. SUFFICES ASSUME NEW x \in before, \A y \in before : x >= y PROVE x = s
      OBVIOUS
    <3>2. x \in Nat /\ s \in Nat /\ x >= s /\ s >= x
      BY <1>2, <1>3, <3>1
    <3>3. QED
      BY <3>2
  <2>2. QED
    BY <1>2, <1>3, <2>1 DEF Max
<1>5. before # {}
  BY <1>2
<1>6. QED
  BY <1>4, <1>5 DEF Bound, before

(* At a point where the two sites share a buffer the use gets the array.   *)
LEMMA UseIsRight ==
  ASSUME StaticInv, HeldInv, NEW p \in Nat, Found(p), current # 0
  PROVE  held[Bound(p)] = current
<1>1. PICK s \in Sites : LastSite(prog, s, p) /\ SameBuffer(classes, s, current)
  BY DEF Found
<1>2. Bound(p) = Buffer(s) /\ Buffer(s) = Buffer(current)
  BY <1>1, BoundToLast, OneName
<1>3. QED
  BY <1>2 DEF HeldInv

-----------------------------------------------------------------------------
(* Where the array goes.                                                   *)

(* Reaching q is enough at an END IF too, whose set only grows.            *)
LEMMA FoundAt ==
  ASSUME StaticInv, NEW q \in 1..Here, current \in Sets[q],
         NEW s, LastSite(prog, s, q), SameBuffer(classes, s, current)
  PROVE  Found(q)
<1>1. Sites = {p \in 1..Len(prog) : prog[p] = "alloc"}
      /\ Len(prog) \in Nat /\ Here = Len(prog) + 1
  BY SitesAre
<1>2. s \in Sites
  BY <1>1 DEF LastSite
<1>3. current \in Sets[Point(prog, q)]
  <2>1. CASE q <= Len(prog) /\ prog[q] = "end"
    <3>1. Threads(prog, Sets, q)
      BY <1>1, <2>1 DEF StaticInv, FlowInv
    <3>2. QED
      BY <2>1, <3>1 DEF Threads, Point
  <2>2. CASE ~(q <= Len(prog) /\ prog[q] = "end")
    BY <2>2 DEF Point
  <2>3. QED
    BY <2>1, <2>2
<1>4. QED
  BY <1>2, <1>3 DEF Found

(* From one statement to the next.                                         *)
LEMMA FoundNext ==
  ASSUME StaticInv, NEW p \in 1..Len(prog), Found(p),
         prog[p] \in {"use", "if", "do", "od", "end"}
  PROVE  Found(p + 1)
<1>1. Len(prog) \in Nat /\ Here = Len(prog) + 1 /\ p + 1 \in 1..Here
  BY SitesAre
<1>2. PICK s \in Sites : LastSite(prog, s, p) /\ SameBuffer(classes, s, current)
  BY DEF Found
<1>3. LastSite(prog, s, p + 1)
  BY <1>2 DEF LastSite, NoSites
<1>4. Threads(prog, Sets, p)
  BY DEF StaticInv, FlowInv
<1>5. current \in Sets[p + 1]
  BY <1>4 DEF Found, Point, Threads
<1>6. QED
  BY <1>1, <1>2, <1>3, <1>5, FoundAt

(* A part without an ALLOCATE ends with the set it started from.           *)
LEMMA QuietPart ==
  ASSUME NEW P, NEW F, NEW a \in Nat, NEW b \in Nat, Part(P, F, a, b), NoSites(P, a, b)
  PROVE  F[b] = F[a + 1]
<1>1. ASSUME NEW s, a < s, LastSite(P, s, b) PROVE FALSE
  BY <1>1 DEF LastSite, NoSites
<1>2. QED
  BY <1>1 DEF Part, Spans

(* A part with one ends with a set that holds the last.                    *)
LEMMA BusyPart ==
  ASSUME NEW P, NEW F, NEW a, NEW b, Part(P, F, a, b), ~NoSites(P, a, b)
  PROVE  \E s \in F[b] : a < s /\ LastSite(P, s, b)
BY DEF Part, Spans

(* An array that meets no ALLOCATE between two places.                     *)
LEMMA NotCarried ==
  ASSUME StaticInv, current # 0, NEW a \in Nat, NEW b \in Nat, b <= Here, ~Carries(a, b)
  PROVE  NoSites(prog, a, b)
<1>1. /\ Sites = {p \in 1..Len(prog) : prog[p] = "alloc"}
      /\ Len(prog) \in Nat /\ Here = Len(prog) + 1
  BY SitesAre
<1>2. SUFFICES ASSUME NEW q \in (a + 1)..(b - 1), prog[q] = "alloc" PROVE FALSE
  BY DEF NoSites
<1>3. q \in Sites /\ a < q /\ q < b
  BY <1>1, <1>2
<1>4. QED
  BY <1>3 DEF Carries

(* The jumps of a complete routine.                                        *)
LEMMA JumpAt ==
  ASSUME StaticInv, open = <<>>, NEW p \in 1..Len(prog), prog[p] \in Jumping
  PROVE  Joins(prog, Sets, link, p) /\ link[p] \in 1..Len(prog)
<1>1. ~IsOpen(open, p)
  BY DEF IsOpen
<1>2. Joins(prog, Sets, link, p)
  BY <1>1 DEF StaticInv, FlowInv
<1>3. Len(prog) \in Nat
  BY SitesAre
<1>4. QED
  BY <1>2, <1>3 DEF Joins, Part, Jumping

(* IF, condition false, no ELSE part: behind the END IF.  The THEN part    *)
(* and the path around it meet in the set there.                           *)
LEMMA FoundPastIf ==
  ASSUME StaticInv, open = <<>>, NEW p \in 1..Len(prog), Found(p), prog[p] = "if",
         prog[link[p]] = "end"
  PROVE  Found(link[p] + 1)
<1> DEFINE e == link[p]
<1>1. Joins(prog, Sets, link, p) /\ e \in 1..Len(prog)
  BY JumpAt DEF Jumping
<1>2. Len(prog) \in Nat /\ Here = Len(prog) + 1
  BY SitesAre
<1>3. /\ Part(prog, Sets, p, e) /\ p < e
      /\ Sets[e + 1] = Sets[e] \cup Sets[p] /\ prog[e] = "end"
  BY <1>1 DEF Joins, Part
<1> HIDE DEF e
<1>4. current \in Sets[p] /\ current \in Sets[e + 1] /\ e + 1 \in 1..Here
  BY <1>1, <1>2, <1>3 DEF Found, Point
<1>5. CASE NoSites(prog, p, e)
  <2>1. PICK s \in Sites : LastSite(prog, s, p) /\ SameBuffer(classes, s, current)
    BY DEF Found
  <2>2. LastSite(prog, s, e + 1)
    BY <1>1, <1>3, <1>5, <2>1 DEF LastSite, NoSites
  <2>3. QED
    BY <1>4, <2>1, <2>2, FoundAt DEF e
<1>6. CASE ~NoSites(prog, p, e)
  <2>1. PICK s \in Sets[e] : p < s /\ LastSite(prog, s, e)
    BY <1>3, <1>6, BusyPart
  <2>2. LastSite(prog, s, e + 1)
    BY <1>1, <1>3, <2>1 DEF LastSite, NoSites
  <2>3. SameBuffer(classes, s, current)
    BY <1>3, <1>4, <2>1, Together
  <2>4. QED
    BY <1>4, <2>2, <2>3, FoundAt DEF e
<1>7. QED
  BY <1>5, <1>6

(* IF, condition false, with an ELSE part.  If one part allocates nothing, *)
(* the THEN part's last site meets the array at the END IF.                *)
LEMMA FoundInElse ==
  ASSUME StaticInv, open = <<>>, current # 0, NEW p \in 1..Len(prog), Found(p),
         prog[p] = "if", prog[link[p]] = "else",
         ~(Carries(p, link[p]) /\ Carries(link[p], link[link[p]]))
  PROVE  Found(link[p] + 1)
<1> DEFINE m == link[p]
           e == link[m]
<1>1. Joins(prog, Sets, link, p) /\ m \in 1..Len(prog)
  BY JumpAt DEF Jumping
<1>2. Joins(prog, Sets, link, m) /\ e \in 1..Len(prog)
  BY <1>1, JumpAt DEF Jumping
<1>3. Len(prog) \in Nat /\ Here = Len(prog) + 1
  BY SitesAre
<1>4. Part(prog, Sets, p, m) /\ p < m /\ Sets[m + 1] = Sets[p] /\ prog[m] = "else"
  BY <1>1 DEF Joins, Part
<1>5. Part(prog, Sets, m, e) /\ m < e /\ Sets[e + 1] = Sets[e] \cup Sets[m]
  BY <1>2, <1>4 DEF Joins, Part
<1>6. ~Carries(p, m) \/ ~Carries(m, e)
  OBVIOUS
<1> HIDE DEF m, e
<1>7. current \in Sets[m + 1] /\ m + 1 \in 1..Here /\ e + 1 \in 1..Here
  BY <1>1, <1>2, <1>3, <1>4 DEF Found, Point
<1>8. CASE NoSites(prog, p, m)
  <2>1. PICK s \in Sites : LastSite(prog, s, p) /\ SameBuffer(classes, s, current)
    BY DEF Found
  <2>2. LastSite(prog, s, m + 1)
    BY <1>1, <1>4, <1>8, <2>1 DEF LastSite, NoSites
  <2>3. QED
    BY <1>7, <2>1, <2>2, FoundAt DEF m
<1>9. CASE ~NoSites(prog, p, m)
  <2>1. PICK s \in Sets[m] : p < s /\ LastSite(prog, s, m)
    BY <1>4, <1>9, BusyPart
  <2>2. LastSite(prog, s, m + 1)
    BY <1>1, <1>4, <2>1 DEF LastSite, NoSites
  <2>3. Carries(p, m)
    BY <1>1, <1>3, <1>9, NotCarried
  <2>4. NoSites(prog, m, e)
    BY <1>1, <1>2, <1>3, <1>6, <2>3, NotCarried
  <2>5. Sets[e] = Sets[m + 1]
    BY <1>1, <1>2, <1>5, <2>4, QuietPart
  <2>6. SameBuffer(classes, s, current)
    BY <1>5, <1>7, <2>1, <2>5, Together
  <2>7. QED
    BY <1>7, <2>2, <2>6, FoundAt DEF m
<1>10. QED
  BY <1>8, <1>9

(* The THEN part is done: at the END IF, where the ELSE part's last site   *)
(* meets the array.                                                        *)
LEMMA FoundAtEnd ==
  ASSUME StaticInv, open = <<>>, NEW m \in 1..Len(prog), Found(m), prog[m] = "else"
  PROVE  Found(link[m])
<1> DEFINE e == link[m]
<1>1. Joins(prog, Sets, link, m) /\ e \in 1..Len(prog)
  BY JumpAt DEF Jumping
<1>2. /\ Sites = {p \in 1..Len(prog) : prog[p] = "alloc"}
      /\ Len(prog) \in Nat /\ Here = Len(prog) + 1
  BY SitesAre
<1>3. /\ Part(prog, Sets, m, e) /\ m < e /\ prog[e] = "end"
      /\ Sets[e + 1] = Sets[e] \cup Sets[m]
  BY <1>1 DEF Joins, Part
<1> HIDE DEF e
<1>4. current \in Sets[e + 1] /\ e + 1 \in 1..Here
  BY <1>1, <1>2, <1>3 DEF Found, Point
<1>5. current \in Sets[Point(prog, e)]
  BY <1>1, <1>3, <1>4 DEF Point
<1>6. CASE NoSites(prog, m, e)
  <2>1. PICK s \in Sites : LastSite(prog, s, m) /\ SameBuffer(classes, s, current)
    BY DEF Found
  <2>2. LastSite(prog, s, e)
    BY <1>1, <1>3, <1>6, <2>1 DEF LastSite, NoSites
  <2>3. QED
    BY <1>5, <2>1, <2>2 DEF Found, e
<1>7. CASE ~NoSites(prog, m, e)
  <2>1. PICK s \in Sets[e] : m < s /\ LastSite(prog, s, e)
    BY <1>3, <1>7, BusyPart
  <2>2. s \in Sites
    BY <1>1, <1>2, <2>1 DEF LastSite
  <2>3. SameBuffer(classes, s, current)
    BY <1>3, <1>4, <2>1, Together
  <2>4. QED
    BY <1>5, <2>1, <2>2, <2>3 DEF Found, e
<1>8. QED
  BY <1>6, <1>7

(* A loop without an ALLOCATE: around it, and back to its start.           *)
LEMMA FoundAroundLoop ==
  ASSUME StaticInv, current # 0, NEW d \in 1..Len(prog), NEW o \in 1..Len(prog),
         Part(prog, Sets, d, o), prog[d] = "do", prog[o] = "od", ~Carries(d, o)
  PROVE  /\ Found(d) => Found(o + 1)
         /\ Found(o) => Found(d + 1)
<1>1. Len(prog) \in Nat /\ Here = Len(prog) + 1 /\ d < o
  BY SitesAre DEF Part
<1>2. NoSites(prog, d, o)
  BY <1>1, NotCarried
<1>3. Sets[o] = Sets[d + 1]
  BY <1>1, <1>2, QuietPart
<1>4. Sets[d + 1] = Sets[d] /\ Sets[o + 1] = Sets[o]
  BY DEF StaticInv, FlowInv, Threads
<1>5. ASSUME Found(d) PROVE Found(o + 1)
  <2>1. PICK s \in Sites : LastSite(prog, s, d) /\ SameBuffer(classes, s, current)
    BY <1>5 DEF Found
  <2>2. LastSite(prog, s, o + 1)
    BY <1>1, <1>2, <2>1 DEF LastSite, NoSites
  <2>3. current \in Sets[o + 1] /\ o + 1 \in 1..Here
    BY <1>1, <1>3, <1>4, <1>5 DEF Found, Point
  <2>4. QED
    BY <2>1, <2>2, <2>3, FoundAt
<1>6. ASSUME Found(o) PROVE Found(d + 1)
  <2>1. PICK s \in Sites : LastSite(prog, s, o) /\ SameBuffer(classes, s, current)
    BY <1>6 DEF Found
  <2>2. s <= d /\ s # d /\ s \in Nat
    BY <1>1, <1>2, <2>1 DEF LastSite, NoSites
  <2>3. LastSite(prog, s, d + 1)
    BY <1>1, <2>1, <2>2 DEF LastSite, NoSites
  <2>4. current \in Sets[d + 1] /\ d + 1 \in 1..Here
    BY <1>1, <1>3, <1>6 DEF Found, Point
  <2>5. QED
    BY <2>1, <2>3, <2>4, FoundAt
<1>7. QED
  BY <1>5, <1>6

-----------------------------------------------------------------------------
(* The execution.                                                          *)

(* A step that leaves the array and its buffers alone.                     *)
LEMMA MoveKeepsRun ==
  ASSUME StaticInv, RunInv, UsesFindBuffer, phase = "run", FlagTypes',
         UNCHANGED <<walkVars, phase, current, held>>, pos' \in 1..Here,
         looped => looped', crossed => crossed',
         current # 0 /\ ~looped' /\ ~crossed' => Found(pos'),
         ~looped' /\ ~crossed' => ~wrong'
  PROVE  RunInv' /\ UsesFindBuffer'
<1>1. /\ prog' = prog /\ reach' = reach /\ reachAt' = reachAt /\ classes' = classes
      /\ open' = open /\ phase' = phase /\ current' = current /\ held' = held
  BY DEF walkVars
<1>2. Here' = Here /\ Sets' = Sets /\ Sites' = Sites
  BY <1>1 DEF Here, Sets, Sites
<1>3. HeldInv => HeldInv'
  BY <1>1, <1>2 DEF HeldInv, Buffer
<1>4. Found(pos') => Found(pos)'
  BY <1>1, <1>2 DEF Found
<1>5. open' = <<>> /\ HeldInv'
  BY <1>1, <1>3 DEF RunInv
<1>6. pos' \in 1..Here' /\ phase' = "run"
  BY <1>1, <1>2
<1>7. current' # 0 /\ ~looped' /\ ~crossed' => Found(pos)'
  BY <1>1, <1>4
<1>8. RunInv'
  BY <1>5, <1>6, <1>7 DEF RunInv
<1>9. UsesFindBuffer'
  BY DEF UsesFindBuffer
<1>10. QED
  BY <1>8, <1>9

(* The next statement of a running routine.                                *)
LEMMA AtStatement ==
  ASSUME StaticInv, RunInv, NEW s, Running(s)
  PROVE  /\ phase = "run" /\ pos \in 1..Len(prog) /\ prog[pos] = s /\ open = <<>>
         /\ HeldInv /\ Len(prog) \in Nat /\ Here = Len(prog) + 1
<1>1. Len(prog) \in Nat /\ Here = Len(prog) + 1
  BY SitesAre
<1>2. QED
  BY <1>1 DEF RunInv, Running

(* ALLOCATE: the site walked last and the site that ran last are one.      *)
LEMMA RunAllocateKeeps ==
  ASSUME StaticInv, RunInv, UsesFindBuffer, RunAllocate
  PROVE  RunInv' /\ UsesFindBuffer'
<1>1. /\ phase = "run" /\ pos \in 1..Len(prog) /\ prog[pos] = "alloc" /\ open = <<>>
      /\ HeldInv /\ Len(prog) \in Nat /\ Here = Len(prog) + 1
  BY AtStatement DEF RunAllocate
<1>2. /\ prog' = prog /\ reach' = reach /\ reachAt' = reachAt /\ classes' = classes
      /\ open' = open /\ phase' = phase /\ current' = pos /\ pos' = pos + 1
      /\ held' = [held EXCEPT ![Buffer(pos)] = pos]
      /\ looped' = looped /\ crossed' = crossed /\ wrong' = wrong
  BY DEF RunAllocate, walkVars
<1>3. Here' = Here /\ Sets' = Sets /\ Sites' = Sites /\ \A s : Buffer(s)' = Buffer(s)
  BY <1>2 DEF Here, Sets, Sites, Buffer
<1>4. pos \in Sites
  BY <1>1, SitesAre
<1>5. HeldInv'
  <2>1. Buffer(pos) \in DOMAIN held /\ DOMAIN held = {Buffer(s) : s \in Sites}
    BY <1>1, <1>4 DEF HeldInv
  <2>2. DOMAIN held' = DOMAIN held /\ held'[Buffer(pos)] = pos
    BY <1>2, <2>1
  <2>3. DOMAIN held' = {Buffer(s) : s \in Sites}'
    BY <1>2, <2>1, <2>2 DEF Buffer, Sites
  <2>4. Buffer(current)' = Buffer(pos)
    BY <1>2 DEF Buffer
  <2>5. QED
    BY <1>2, <1>3, <1>4, <2>2, <2>3, <2>4 DEF HeldInv
<1>6. Found(pos)'
  <2>1. Threads(prog, Sets, pos)
    BY <1>1 DEF StaticInv, FlowInv
  <2>2. Sets[pos + 1] = {pos} /\ pos + 1 \in 1..Here
    BY <1>1, <2>1 DEF Threads
  <2>3. LastSite(prog, pos, pos + 1)
    BY <1>1 DEF LastSite, NoSites
  <2>4. SameBuffer(classes, pos, pos)
    BY <2>2, Together
  <2>5. pos \in Sets[Point(prog, pos + 1)]
    <3>1. CASE pos + 1 <= Len(prog) /\ prog[pos + 1] = "end"
      <4>1. Threads(prog, Sets, pos + 1)
        BY <1>1, <3>1 DEF StaticInv, FlowInv
      <4>2. QED
        BY <2>2, <3>1, <4>1 DEF Threads, Point
    <3>2. CASE ~(pos + 1 <= Len(prog) /\ prog[pos + 1] = "end")
      BY <2>2, <3>2 DEF Point
    <3>3. QED
      BY <3>1, <3>2
  <2>6. QED
    BY <1>2, <1>3, <1>4, <2>3, <2>4, <2>5 DEF Found
<1>7. pos' \in 1..Here' /\ phase' = "run" /\ open' = <<>> /\ FlagTypes'
  BY <1>1, <1>2, <1>3 DEF RunInv, FlagTypes
<1>8. RunInv'
  BY <1>5, <1>6, <1>7 DEF RunInv
<1>9. UsesFindBuffer'
  BY <1>2 DEF UsesFindBuffer
<1>10. QED
  BY <1>8, <1>9

(* DEALLOCATE: there is no array to find.                                  *)
LEMMA RunDeallocateKeeps ==
  ASSUME StaticInv, RunInv, UsesFindBuffer, RunDeallocate
  PROVE  RunInv' /\ UsesFindBuffer'
<1>1. /\ phase = "run" /\ pos \in 1..Len(prog) /\ open = <<>>
      /\ HeldInv /\ Len(prog) \in Nat /\ Here = Len(prog) + 1
  BY AtStatement DEF RunDeallocate
<1>2. /\ prog' = prog /\ classes' = classes /\ open' = open /\ phase' = phase
      /\ current' = 0 /\ pos' = pos + 1 /\ held' = held
      /\ looped' = looped /\ crossed' = crossed /\ wrong' = wrong
  BY DEF RunDeallocate, walkVars
<1>3. HeldInv'
  BY <1>1, <1>2 DEF HeldInv, Buffer, Sites
<1>4. pos' \in 1..Here' /\ phase' = "run" /\ open' = <<>> /\ FlagTypes'
  BY <1>1, <1>2 DEF RunInv, FlagTypes, Here
<1>5. RunInv'
  BY <1>2, <1>3, <1>4 DEF RunInv
<1>6. UsesFindBuffer'
  BY <1>2 DEF UsesFindBuffer
<1>7. QED
  BY <1>5, <1>6

(* A use: the buffer bound to it is the array's.                           *)
LEMMA RunUseKeeps ==
  ASSUME StaticInv, RunInv, UsesFindBuffer, RunUse
  PROVE  RunInv' /\ UsesFindBuffer'
<1>1. /\ phase = "run" /\ pos \in 1..Len(prog) /\ prog[pos] = "use" /\ open = <<>>
      /\ HeldInv /\ Len(prog) \in Nat /\ Here = Len(prog) + 1
  BY AtStatement DEF RunUse
<1>2. /\ UNCHANGED <<walkVars, phase, current, held>> /\ current # 0
      /\ looped' = looped /\ crossed' = crossed /\ pos' = pos + 1
      /\ wrong' = (wrong \/ held[Bound(pos)] # current)
  BY DEF RunUse
<1>3. pos' \in 1..Here /\ FlagTypes'
  BY <1>1, <1>2 DEF RunInv, FlagTypes
<1>4. ASSUME ~looped, ~crossed PROVE ~wrong' /\ Found(pos')
  <2>1. Found(pos)
    BY <1>2, <1>4 DEF RunInv
  <2>2. held[Bound(pos)] = current
    BY <1>1, <1>2, <2>1, UseIsRight
  <2>3. ~wrong
    BY <1>4 DEF UsesFindBuffer
  <2>4. Found(pos + 1)
    BY <1>1, <2>1, FoundNext
  <2>5. QED
    BY <1>2, <2>2, <2>3, <2>4
<1>5. QED
  BY <1>1, <1>2, <1>3, <1>4, MoveKeepsRun

(* IF, ELSE and END IF.                                                    *)
LEMMA RunBranchKeeps ==
  ASSUME StaticInv, RunInv, UsesFindBuffer, RunBranch
  PROVE  RunInv' /\ UsesFindBuffer'
<1>1. PICK s \in {"if", "else", "end"} : Running(s)
  BY DEF RunBranch
<1>2. /\ phase = "run" /\ pos \in 1..Len(prog) /\ prog[pos] = s /\ open = <<>>
      /\ Len(prog) \in Nat /\ Here = Len(prog) + 1
  BY <1>1, AtStatement
<1>3. /\ UNCHANGED <<walkVars, phase, current, held>>
      /\ looped' = looped /\ wrong' = wrong
  BY DEF RunBranch
<1>4. s \in {"if", "else"} => link[pos] \in 1..Len(prog)
  BY <1>2, JumpAt DEF Jumping
<1>5. CASE UNCHANGED crossed /\ pos' = pos + 1 /\ s \in {"if", "end"}
  <2>1. pos' \in 1..Here /\ FlagTypes'
    BY <1>2, <1>3, <1>5 DEF RunInv, FlagTypes
  <2>2. current # 0 /\ ~looped' /\ ~crossed' => Found(pos')
    BY <1>2, <1>3, <1>5, FoundNext DEF RunInv
  <2>3. QED
    BY <1>2, <1>3, <1>5, <2>1, <2>2, MoveKeepsRun DEF UsesFindBuffer
<1>6. CASE UNCHANGED crossed /\ pos' = link[pos] /\ s = "else"
  <2>1. pos' \in 1..Here /\ FlagTypes'
    BY <1>2, <1>3, <1>4, <1>6 DEF RunInv, FlagTypes
  <2>2. current # 0 /\ ~looped' /\ ~crossed' => Found(pos')
    BY <1>2, <1>3, <1>6, FoundAtEnd DEF RunInv
  <2>3. QED
    BY <1>2, <1>3, <1>6, <2>1, <2>2, MoveKeepsRun DEF UsesFindBuffer
<1>7. CASE crossed' = (crossed \/ BothAllocate) /\ pos' = link[pos] + 1 /\ s = "if"
  <2>1. pos' \in 1..Here
    BY <1>2, <1>4, <1>7
  <2>2. FlagTypes'
    BY <1>3, <1>7 DEF RunInv, FlagTypes
  <2>3. crossed => crossed'
    BY <1>7
  <2>4. ASSUME current # 0, ~looped', ~crossed' PROVE Found(pos')
    <3>1. ~looped /\ ~crossed /\ ~BothAllocate
      BY <1>3, <1>7, <2>4
    <3>2. Found(pos)
      BY <2>4, <3>1 DEF RunInv
    <3>3. Joins(prog, Sets, link, pos)
      BY <1>2, <1>7, JumpAt DEF Jumping
    <3>4. CASE prog[link[pos]] = "end"
      BY <1>2, <1>7, <3>2, <3>4, FoundPastIf
    <3>5. CASE prog[link[pos]] = "else"
      <4>1. ~(Carries(pos, link[pos]) /\ Carries(link[pos], link[link[pos]]))
        BY <3>1, <3>5 DEF BothAllocate
      <4>2. QED
        BY <1>2, <1>7, <2>4, <3>2, <3>5, <4>1, FoundInElse
    <3>6. QED
      BY <1>2, <1>7, <3>3, <3>4, <3>5 DEF Joins
  <2>5. QED
    BY <1>2, <1>3, <2>1, <2>2, <2>3, <2>4, MoveKeepsRun DEF UsesFindBuffer
<1>8. QED
  BY <1>1, <1>2, <1>5, <1>6, <1>7 DEF RunBranch, Running

(* DO: into the body, or around it.                                        *)
LEMMA RunDoKeeps ==
  ASSUME StaticInv, RunInv, UsesFindBuffer, RunDo
  PROVE  RunInv' /\ UsesFindBuffer'
<1>1. /\ phase = "run" /\ pos \in 1..Len(prog) /\ prog[pos] = "do" /\ open = <<>>
      /\ Len(prog) \in Nat /\ Here = Len(prog) + 1
  BY AtStatement DEF RunDo
<1>2. /\ UNCHANGED <<walkVars, phase, current, held>>
      /\ crossed' = crossed /\ wrong' = wrong
      /\ looped' = (looped \/ Carries(pos, link[pos]))
      /\ pos' \in {pos + 1, link[pos] + 1}
  BY DEF RunDo
<1>3. /\ link[pos] \in 1..Len(prog) /\ Part(prog, Sets, pos, link[pos])
      /\ prog[link[pos]] = "od"
  BY <1>1, JumpAt DEF Jumping, Joins
<1>4. pos' \in 1..Here
  BY <1>1, <1>2, <1>3
<1>5. FlagTypes' /\ (looped => looped')
  BY <1>2 DEF RunInv, FlagTypes
<1>6. ASSUME current # 0, ~looped', ~crossed' PROVE Found(pos')
  <2>1. ~looped /\ ~crossed /\ ~Carries(pos, link[pos])
    BY <1>2, <1>6
  <2>2. Found(pos)
    BY <1>6, <2>1 DEF RunInv
  <2>3. Found(pos + 1)
    BY <1>1, <2>2, FoundNext
  <2>4. Found(link[pos] + 1)
    BY <1>1, <1>3, <1>6, <2>1, <2>2, FoundAroundLoop
  <2>5. QED
    BY <1>2, <2>3, <2>4
<1>7. QED
  BY <1>1, <1>2, <1>4, <1>5, <1>6, MoveKeepsRun DEF UsesFindBuffer

(* END DO: behind the loop, or back to its start.                          *)
LEMMA RunEndDoKeeps ==
  ASSUME StaticInv, RunInv, UsesFindBuffer, RunEndDo
  PROVE  RunInv' /\ UsesFindBuffer'
<1>1. /\ phase = "run" /\ pos \in 1..Len(prog) /\ prog[pos] = "od" /\ open = <<>>
      /\ Len(prog) \in Nat /\ Here = Len(prog) + 1
  BY AtStatement DEF RunEndDo
<1>2. /\ UNCHANGED <<walkVars, phase, current, held>>
      /\ crossed' = crossed /\ wrong' = wrong
      /\ looped' = (looped \/ Carries(link[pos], pos))
      /\ pos' \in {pos + 1, link[pos] + 1}
  BY DEF RunEndDo
<1>3. /\ link[pos] \in 1..Len(prog) /\ Part(prog, Sets, link[pos], pos)
      /\ prog[link[pos]] = "do"
  BY <1>1, JumpAt DEF Jumping, Joins
<1>4. pos' \in 1..Here
  BY <1>1, <1>2, <1>3
<1>5. FlagTypes' /\ (looped => looped')
  BY <1>2 DEF RunInv, FlagTypes
<1>6. ASSUME current # 0, ~looped', ~crossed' PROVE Found(pos')
  <2>1. ~looped /\ ~crossed /\ ~Carries(link[pos], pos)
    BY <1>2, <1>6
  <2>2. Found(pos)
    BY <1>6, <2>1 DEF RunInv
  <2>3. Found(pos + 1)
    BY <1>1, <2>2, FoundNext
  <2>4. Found(link[pos] + 1)
    BY <1>1, <1>3, <1>6, <2>1, <2>2, FoundAroundLoop
  <2>5. QED
    BY <1>2, <2>3, <2>4
<1>7. QED
  BY <1>1, <1>2, <1>4, <1>5, <1>6, MoveKeepsRun DEF UsesFindBuffer

(* The walk writes its statements before the execution starts.             *)
LEMMA SourceKeepsRun ==
  ASSUME StaticInv, RunInv, UsesFindBuffer, Source
  PROVE  RunInv' /\ UsesFindBuffer'
<1>1. PICK s \in Statements : Write(s)
  BY DEF Source, Allocate, Plain, If, Else, EndIf, Do, EndDo, Statements
<1>2. phase = "source" /\ UNCHANGED <<phase, runVars>>
  BY DEF Source, Allocate, Plain, If, Else, EndIf, Do, EndDo, Room
<1>3. /\ phase' = phase /\ pos' = pos /\ current' = current /\ looped' = looped
      /\ crossed' = crossed /\ wrong' = wrong
  BY <1>2 DEF runVars
<1>4. prog \in Seq(Statements) /\ prog' = Append(prog, s)
  BY <1>1 DEF Write, StaticInv, WalkInv, WalkTypes
<1>5. 1 \in 1..Here'
  BY <1>4 DEF Here
<1>6. pos = 1 /\ current = 0 /\ wrong = FALSE /\ FlagTypes
  BY <1>2 DEF RunInv
<1>7. RunInv'
  BY <1>2, <1>3, <1>5, <1>6 DEF RunInv, FlagTypes
<1>8. UsesFindBuffer'
  BY <1>3 DEF UsesFindBuffer
<1>9. QED
  BY <1>7, <1>8

(* The execution starts with no array and empty buffers.                   *)
LEMMA BuildASTKeeps ==
  ASSUME StaticInv, RunInv, UsesFindBuffer, BuildAST
  PROVE  RunInv' /\ UsesFindBuffer'
<1>1. /\ phase = "source" /\ phase' = "run" /\ open = <<>>
      /\ prog' = prog /\ open' = open /\ classes' = classes
      /\ pos' = pos /\ current' = current /\ looped' = looped
      /\ crossed' = crossed /\ wrong' = wrong
      /\ held' = [b \in {Buffer(s) : s \in Sites} |-> 0]
  BY DEF BuildAST, walkVars
<1>2. pos \in 1..Here /\ current = 0 /\ FlagTypes
  BY <1>1 DEF RunInv
<1>3. HeldInv'
  BY <1>1, <1>2 DEF HeldInv, Buffer, Sites
<1>4. RunInv'
  BY <1>1, <1>2, <1>3 DEF RunInv, FlagTypes, Here
<1>5. UsesFindBuffer'
  BY <1>1 DEF UsesFindBuffer
<1>6. QED
  BY <1>4, <1>5

(* One step of either keeps the invariant.                                 *)
LEMMA StepKeepsIInv ==
  ASSUME IInv, [Next]_vars
  PROVE  IInv'
<1>1. StaticInv /\ RunInv /\ UsesFindBuffer
  BY DEF IInv
<1>2. CASE Source
  BY <1>1, <1>2, SourceKeepsStatic, SourceKeepsRun DEF IInv
<1>3. ASSUME UNCHANGED walkVars PROVE StaticInv'
  <2>1. /\ prog' = prog /\ open' = open /\ link' = link /\ reach' = reach
        /\ reachAt' = reachAt /\ classes' = classes
    BY <1>3 DEF walkVars
  <2>2. Sets' = Sets /\ Here' = Here
    BY <2>1 DEF Sets, Here
  <2>3. WalkInv' /\ History'
    BY <1>1, <2>1 DEF StaticInv, WalkInv, WalkTypes, ReachingShareBuffer, OneBuffer, History
  <2>4. OpenInv' /\ FlowInv' /\ SitesInv'
    BY <1>1, <2>1, <2>2 DEF StaticInv, OpenInv, FlowInv, SitesInv
  <2>5. QED
    BY <2>3, <2>4 DEF StaticInv
<1>4. CASE BuildAST
  BY <1>1, <1>3, <1>4, BuildASTKeeps DEF BuildAST, IInv
<1>5. CASE Run
  <2>1. UNCHANGED walkVars
    BY <1>5 DEF Run, RunAllocate, RunDeallocate, RunUse, RunBranch, RunDo, RunEndDo
  <2>2. RunInv' /\ UsesFindBuffer'
    BY <1>1, <1>5, RunAllocateKeeps, RunDeallocateKeeps, RunUseKeeps, RunBranchKeeps,
       RunDoKeeps, RunEndDoKeeps DEF Run
  <2>3. QED
    BY <1>3, <2>1, <2>2 DEF IInv
<1>6. CASE UNCHANGED vars
  <2>1. /\ UNCHANGED walkVars /\ phase' = phase /\ pos' = pos /\ current' = current
        /\ held' = held /\ looped' = looped /\ crossed' = crossed /\ wrong' = wrong
    BY <1>6 DEF vars, walkVars
  <2>2. RunInv'
    <3>1. /\ prog' = prog /\ open' = open /\ classes' = classes
          /\ Here' = Here /\ Sets' = Sets /\ Sites' = Sites
      BY <2>1 DEF walkVars, Here, Sets, Sites
    <3>2. HeldInv => HeldInv'
      BY <2>1, <3>1 DEF HeldInv, Buffer
    <3>3. Found(pos) => Found(pos)'
      BY <2>1, <3>1 DEF Found
    <3>4. FlagTypes'
      BY <1>1, <2>1 DEF RunInv, FlagTypes
    <3>5. QED
      BY <1>1, <2>1, <3>1, <3>2, <3>3, <3>4 DEF RunInv
  <2>3. UsesFindBuffer'
    BY <1>1, <2>1 DEF UsesFindBuffer
  <2>4. QED
    BY <1>3, <2>1, <2>2, <2>3 DEF IInv
<1>7. QED
  BY <1>2, <1>4, <1>5, <1>6 DEF Next

(* The empty routine.                                                      *)
LEMMA InitHasIInv ==
  ASSUME Init
  PROVE  IInv
<1>1. /\ prog = <<>> /\ open = <<>> /\ link = <<>> /\ reach = {} /\ reachAt = <<>>
      /\ classes = {} /\ phase = "source" /\ pos = 1 /\ current = 0
      /\ looped = FALSE /\ crossed = FALSE /\ wrong = FALSE
  BY DEF Init
<1>2. /\ Len(prog) = 0 /\ Len(open) = 0 /\ Here = 1 /\ Sets[1] = {}
      /\ 1..Len(prog) = {} /\ 1..Len(open) = {}
  BY <1>1 DEF Here, Sets
<1>3. WalkInv /\ History
  BY <1>1 DEF WalkInv, WalkTypes, ReachingShareBuffer, OneBuffer, History
<1>4. OpenInv
  <2>1. Outer(open, Len(open) + 1) = 0
    BY <1>2 DEF Outer
  <2>2. NoSites(prog, 0, 1)
    BY DEF NoSites
  <2>3. Spans(prog, Sets, 0, 1, {})
    BY <1>2, <2>2 DEF Spans
  <2>4. QED
    BY <1>1, <1>2, <2>1, <2>3 DEF OpenInv
<1>5. FlowInv
  BY <1>2 DEF FlowInv
<1>6. SitesInv
  <2>1. \A p \in 1..Here : Within(Sets[p], classes)
    BY <1>2 DEF Within
  <2>2. UNION classes = {} /\ Apart(classes)
    BY <1>1 DEF Apart
  <2>3. QED
    BY <1>2, <2>1, <2>2 DEF SitesInv
<1>7. RunInv /\ UsesFindBuffer
  <2>1. FlagTypes /\ UsesFindBuffer
    BY <1>1 DEF FlagTypes, UsesFindBuffer
  <2>2. pos \in 1..Here /\ phase = "source" /\ current = 0 /\ pos = 1
    BY <1>1, <1>2
  <2>3. QED
    BY <1>1, <2>1, <2>2 DEF RunInv
<1>8. QED
  BY <1>3, <1>4, <1>5, <1>6, <1>7 DEF IInv, StaticInv

(* buildAST and bindAllocSite: whatever path an execution takes, a use of  *)
(* the name gets the buffer that the ALLOCATE which ran last has sized, as *)
(* long as no array is carried into a loop that allocates or into the ELSE *)
(* part of an IF whose two parts allocate.                                 *)
THEOREM UsesGetTheirArray == Spec => []UsesFindBuffer
<1>1. Init => IInv
  BY InitHasIInv
<1>2. IInv /\ [Next]_vars => IInv'
  BY StepKeepsIInv
<1>3. IInv => UsesFindBuffer
  BY DEF IInv
<1>4. QED
  BY <1>1, <1>2, <1>3, PTL DEF Spec
=============================================================================
