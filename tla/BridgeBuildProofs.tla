------------------------- MODULE BridgeBuildProofs -------------------------
(***************************************************************************)
(* Proofs about BridgeBuild, for any number of workers, command lines,     *)
(* toolchains, extension names, edits, kills and failures.                 *)
(***************************************************************************)
EXTENDS BridgeBuild, TLAPS

(* Control states reached only after needs_build answered FALSE or after   *)
(* a build of one's own: the extension has been accepted.                  *)
Accepted == {"unlink", "relink", "release", "import", "reimport"}

(* What FreshImport rests on.  A file that is not older than the sources   *)
(* was compiled from them, unless a compilation was edited under; a        *)
(* process writes the file it looks for, unless the directory was          *)
(* configured for an interpreter of another name under it, and a file it   *)
(* has accepted is at least as new as the sources seen under the lock.     *)
FreshInv ==
  /\ src.mtime <= clock
  /\ \A n \in SoNames : so[n].mtime <= clock
  /\ \A p \in Procs : started[p] <= src.version
  /\ \A p \in Procs : pc[p] = "acquire" => loaded[p] = None
  /\ ~midEdit =>
       /\ \A p \in Procs : pc[p] = "write" => read[p] = src.version
       /\ \A n \in SoNames : so[n].status # "absent" /\ src.mtime <= so[n].mtime
                               => so[n].version = src.version
  /\ ~midEdit /\ ~crossed =>
       /\ \A p \in Procs : pc[p] = "write" => out[p] = SoName(p)
       /\ \A p \in Procs : pc[p] \in Accepted /\ Mine(p).status # "absent"
                             => Mine(p).version >= started[p]
       /\ \A p \in Procs : loaded[p] # None => loaded[p] >= started[p]

(* Control states of a process inside ensure_fresh's with-block.           *)
Locked == Building \cup {"check", "build", "release"}

(* Control states of a process whose make may rely on the cache.           *)
Configured == {"compile", "write", "unlink", "relink"}

(* What serialization rests on: in a quiet tree every builder holds the    *)
(* lock and works on a directory configured for its own toolchain, a       *)
(* process past its check has a good extension in front of it, and nobody  *)
(* rebuilds a good extension.                                              *)
QuietInv ==
  /\ \A p \in Procs : pc[p] \in Locked => lock = p
  /\ \A p \in Procs : pc[p] # "reimport"
  /\ \A n \in SoNames :
       /\ so[n].shared = FALSE
       /\ so[n].status # "corrupt"
       /\ so[n].status = "partial" => \E p \in Procs : pc[p] = "write" /\ out[p] = n
       /\ so[n].status = "ok" => so[n].mtime >= src.mtime
  /\ \A p \in Procs :
       /\ pc[p] \in {"release", "import", "done"}
            => Mine(p).status = "ok" /\ SoName(p) \in linked
       /\ pc[p] \in Building \cup {"build"}
            => \A q \in Procs : pc[q] \notin {"release", "import", "done"}
       /\ pc[p] = "configure" => cached \in {None, chain[p]}
       /\ pc[p] \in Configured => cached = chain[p]
       /\ pc[p] = "write" => out[p] = SoName(p) /\ Mine(p).status = "partial"
       /\ pc[p] \in {"unlink", "relink"} => Mine(p).status = "ok"
       /\ pc[p] = "relink" => SoName(p) \notin linked
       /\ pc[p] = "failed" => p \in Forbidden \cup broken

IInv == TypeOK /\ FreshInv /\ (Quiet => QuietInv)

SoType == [status : {"absent", "partial", "ok", "corrupt"}, version : Nat,
           mtime : Nat, chain : Toolchains \cup {None}, shared : BOOLEAN]

LEMMA AbsentType == Absent \in SoType
  BY DEF Absent, SoType

(* The name a process looks for is one of the names of extensions.         *)
LEMMA NameType ==
  ASSUME TypeOK
  PROVE  /\ \A p \in Procs : SoName(p) \in SoNames
         /\ \A t \in Toolchains : SoNameOf[t] \in SoNames
  BY BridgeAssumption DEF TypeOK, SoName

LEMMA TypeInit == Init => TypeOK
<1> SUFFICES ASSUME Init PROVE TypeOK
  OBVIOUS
<1>1. so \in [SoNames -> SoType]
  BY AbsentType DEF Init
<1>2. wipe \in [Procs -> BOOLEAN]
  BY DEF Init
<1>3. pc \in [Procs -> Labels]
  BY DEF Init, Labels, Building, Ended
<1>4. src \in [version : Nat, mtime : Nat]
  BY DEF Init
<1>5. chain \in [Procs -> Toolchains]
  BY BridgeAssumption DEF Init
<1>6. out \in [Procs -> SoNames]
  BY <1>5, BridgeAssumption DEF Init, SoName
<1> QED
  BY <1>1, <1>2, <1>3, <1>4, <1>5, <1>6 DEF Init, TypeOK, SoType

(* Writing one extension keeps the table of extensions in its type.        *)
LEMMA SoExcept ==
  ASSUME so \in [SoNames -> SoType], NEW n \in SoNames, NEW x \in SoType,
         so' = so \/ so' = [so EXCEPT ![n] = x]
  PROVE  so' \in [SoNames -> SoType]
  OBVIOUS

LEMMA TypeNext == TypeOK /\ [Next]_vars => TypeOK'
<1> SUFFICES ASSUME TypeOK, [Next]_vars PROVE TypeOK'
  OBVIOUS
<1>n. \A p \in Procs : SoName(p) \in SoNames
  BY NameType
<1>m. \A t \in Toolchains : SoNameOf[t] \in SoNames
  BY NameType
<1>s. so \in [SoNames -> SoType]
  BY DEF TypeOK, SoType
<1> USE DEF TypeOK, Labels, Building, Ended
<1>1. CASE Edit
  BY <1>1 DEF Edit
<1>2. ASSUME NEW p \in Procs, Acquire(p) PROVE TypeOK'
  BY <1>2 DEF Acquire, Goto, disk
<1>3. ASSUME NEW p \in Procs, Check(p) PROVE TypeOK'
  BY <1>3 DEF Check, Goto, disk, history
<1>4. ASSUME NEW p \in Procs, BeginBuild(p) PROVE TypeOK'
  <2>3. overlap' \in BOOLEAN
    BY <1>4 DEF BeginBuild
  <2> QED
    BY <1>4, <2>3 DEF BeginBuild, Goto, Raise, DropLock, disk
<1>w. ASSUME NEW p \in Procs, Wipe(p) PROVE TypeOK'
  <2>1. so' = so \/ \E n \in SoNames : so' = [so EXCEPT ![n] = Absent]
    BY <1>w DEF Wipe
  <2>2. so' \in [SoNames -> SoType]
    BY <2>1, <1>s, AbsentType
  <2>3. cached' \in {cached, None}
    BY <1>w DEF Wipe
  <2> QED
    BY <1>w, <2>2, <2>3 DEF Wipe, Goto, Raise, DropLock, history, SoType
<1>5. ASSUME NEW p \in Procs, Configure(p) PROVE TypeOK'
  BY <1>5 DEF Configure, Goto, history
<1>6. ASSUME NEW p \in Procs, Compile(p) PROVE TypeOK'
  <2> DEFINE sh == \E q \in Procs \ {p} : pc[q] = "write" /\ out[q] = SoNameOf[cached]
             x == [status |-> "partial", version |-> src.version,
                   mtime |-> clock + 1, chain |-> cached, shared |-> sh]
  <2>a. sh \in BOOLEAN
    OBVIOUS
  <2>b. \/ so' = so /\ out' = out
        \/ /\ cached # None
           /\ so' = [so EXCEPT ![SoNameOf[cached]] = x]
           /\ out' = [out EXCEPT ![p] = SoNameOf[cached]]
    BY <1>6 DEF Compile
  <2> HIDE DEF sh
  <2>c. cached # None => SoNameOf[cached] \in SoNames /\ x \in SoType
    BY <1>m, <2>a DEF SoType
  <2> HIDE DEF x
  <2>1. so' \in [SoNames -> SoType] /\ out' \in [Procs -> SoNames]
    BY <2>b, <2>c, <1>s
  <2>2. crossed' \in BOOLEAN
    BY <1>6 DEF Compile
  <2>3. /\ clock' \in Nat /\ read' \in [Procs -> Nat]
        /\ pc' \in [Procs -> Labels] /\ lock' \in Procs \cup {None}
    <3>1. \/ pc' = [pc EXCEPT ![p] = "failed"] /\ UNCHANGED <<clock, read>>
          \/ pc' = [pc EXCEPT ![p] = "unlink"] /\ UNCHANGED <<clock, read>>
          \/ /\ pc' = [pc EXCEPT ![p] = "write"] /\ clock' = clock + 1
             /\ read' = [read EXCEPT ![p] = src.version]
      BY <1>6 DEF Compile, Goto, Raise
    <3>2. lock' \in {lock, None}
      BY <1>6 DEF Compile, Raise, DropLock
    <3>3. src.version \in Nat
      OBVIOUS
    <3> QED
      BY <3>1, <3>2, <3>3
  <2>4. UNCHANGED <<src, linked, cached, chain, wipe, loaded, edits, kills,
                    started, overlap, midEdit, torn, broken>>
    BY <1>6 DEF Compile
  <2> QED
    BY <2>1, <2>2, <2>3, <2>4 DEF SoType
<1>7. ASSUME NEW p \in Procs, FinishLink(p) PROVE TypeOK'
  <2> DEFINE st == IF so[out[p]].shared THEN "corrupt" ELSE "ok"
             x == [status |-> st, version |-> read[p], mtime |-> clock + 1,
                   chain |-> so[out[p]].chain, shared |-> so[out[p]].shared]
  <2>a. st \in {"ok", "corrupt"}
    OBVIOUS
  <2>b. so' = so \/ so' = [so EXCEPT ![out[p]] = x]
    BY <1>7 DEF FinishLink
  <2> HIDE DEF st
  <2>c. so[out[p]] \in SoType /\ out[p] \in SoNames
    BY <1>s
  <2>d. x \in SoType
    BY <2>a, <2>c DEF SoType
  <2> HIDE DEF x
  <2>1. so' \in [SoNames -> SoType]
    BY <2>b, <2>c, <2>d, <1>s
  <2>3. /\ clock' \in Nat
        /\ pc' \in [Procs -> Labels] /\ lock' \in Procs \cup {None}
    BY <1>7 DEF FinishLink, Goto, Raise, DropLock
  <2>4. UNCHANGED <<src, linked, cached, chain, wipe, read, out, loaded, edits,
                    kills, history>>
    BY <1>7 DEF FinishLink
  <2> QED
    BY <2>1, <2>3, <2>4 DEF SoType, history
<1>8. ASSUME NEW p \in Procs, Unlink(p) PROVE TypeOK'
  BY <1>8 DEF Unlink, Goto, Raise, DropLock, history
<1>9. ASSUME NEW p \in Procs, Relink(p) PROVE TypeOK'
  BY <1>9, <1>n DEF Relink, Goto, Raise, DropLock, history
<1>10. ASSUME NEW p \in Procs, Release(p) PROVE TypeOK'
  BY <1>10 DEF Release, Goto, disk, history
<1>11. ASSUME NEW p \in Procs, Import(p) PROVE TypeOK'
  <2>1. Mine(p).version \in Nat
    BY <1>n, <1>s DEF Mine, SoType
  <2> QED
    BY <1>11, <2>1 DEF Import, Goto, disk, history
<1>12. ASSUME NEW p \in Procs, Kill(p) PROVE TypeOK'
  <2>1. so' = so \/ so' = [so EXCEPT ![out[p]] = Absent]
    BY <1>12 DEF Kill
  <2>2. torn' \in BOOLEAN
    BY <1>12 DEF Kill
  <2>3. so' \in [SoNames -> SoType]
    BY <2>1, <1>s, AbsentType
  <2> QED
    BY <1>12, <2>2, <2>3 DEF SoType, Kill, Goto, DropLock
<1>f. ASSUME NEW p \in Procs, Fail(p) PROVE TypeOK'
  <2>1. so' = so \/ so' = [so EXCEPT ![out[p]] = Absent]
    BY <1>f DEF Fail
  <2>3. so' \in [SoNames -> SoType]
    BY <2>1, <1>s, AbsentType
  <2> QED
    BY <1>f, <2>3 DEF SoType, Fail, Goto, Raise, DropLock
<1>13. CASE UNCHANGED vars
  BY <1>13 DEF vars
<1> QED
  BY <1>1, <1>2, <1>3, <1>4, <1>w, <1>5, <1>6, <1>7, <1>8, <1>9, <1>10, <1>11,
     <1>12, <1>f, <1>13 DEF Next, Step

(* Nobody changes the toolchain a process detects.                         *)
LEMMA ChainStays == [Next]_vars => chain' = chain
  BY DEF Next, vars, Edit, Step, Acquire, Check, BeginBuild, Wipe, Configure,
     Compile, FinishLink, Unlink, Relink, Release, Import, Kill, Fail

LEMMA FreshInit == Init => FreshInv
  BY BridgeAssumption DEF Init, FreshInv, Absent, Accepted, SoName, Mine

LEMMA FreshNext == TypeOK /\ FreshInv /\ [Next]_vars => FreshInv'
<1> SUFFICES ASSUME TypeOK, FreshInv, [Next]_vars PROVE FreshInv'
  OBVIOUS
<1>c. chain' = chain
  BY ChainStays
<1>n. \A p \in Procs : SoName(p) \in SoNames
  BY NameType
<1>m. \A t \in Toolchains : SoNameOf[t] \in SoNames
  BY NameType
<1>o. \A p \in Procs : SoName(p)' = SoName(p)
  BY <1>c DEF SoName
<1>p. \A p \in Procs : Mine(p)' = so'[SoName(p)]
  BY <1>o DEF Mine
<1>q. \A p \in Procs : Mine(p) = so[SoName(p)]
  BY DEF Mine
<1>a. Absent.status = "absent" /\ Absent.mtime = 0
  BY DEF Absent
<1>t. /\ clock \in Nat /\ src.version \in Nat /\ src.mtime \in Nat
      /\ \A n \in SoNames : so[n].version \in Nat /\ so[n].mtime \in Nat
      /\ DOMAIN so = SoNames /\ cached \in Toolchains \cup {None}
      /\ loaded \in [Procs -> Nat \cup {None}]
      /\ read \in [Procs -> Nat] /\ out \in [Procs -> SoNames]
      /\ pc \in [Procs -> Labels] /\ started \in [Procs -> Nat]
      /\ midEdit \in BOOLEAN /\ crossed \in BOOLEAN
  BY DEF TypeOK
<1> USE DEF FreshInv, Accepted
<1>1. CASE Edit
  <2>1. /\ clock' = clock + 1 /\ src'.version = src.version + 1
        /\ src'.mtime = clock + 1 /\ UNCHANGED <<so, pc, read, out, loaded, started, crossed>>
    BY <1>1 DEF Edit
  <2>2. ~midEdit' => ~midEdit /\ \A p \in Procs : pc[p] # "write"
    BY <1>1 DEF Edit
  <2> QED
    BY <2>1, <2>2, <1>t, <1>n, <1>o, <1>p, <1>q
<1>2. ASSUME NEW p \in Procs, Acquire(p) PROVE FreshInv'
  BY <1>2, <1>t, <1>o, <1>p, <1>q, <1>n DEF Acquire, Goto, disk
<1>3. ASSUME NEW p \in Procs, Check(p) PROVE FreshInv'
  BY <1>3, <1>t, <1>o, <1>p, <1>q, <1>n DEF Check, Goto, disk, history, NeedsBuild, Reachable
<1>4. ASSUME NEW p \in Procs, BeginBuild(p) PROVE FreshInv'
  BY <1>4, <1>t, <1>o, <1>p, <1>q, <1>n DEF BeginBuild, Goto, Raise, DropLock, disk
<1>w. ASSUME NEW p \in Procs, Wipe(p) PROVE FreshInv'
  <2>1. so' = so \/ \E n \in SoNames : so' = [so EXCEPT ![n] = Absent]
    BY <1>w DEF Wipe
  <2>2. \A n \in SoNames : so'[n] \in {so[n], Absent}
    BY <2>1, <1>t
  <2>3. /\ UNCHANGED <<src, clock, read, out, loaded, started, midEdit, crossed>>
        /\ pc' = pc \/ pc' = [pc EXCEPT ![p] = "configure"] \/ pc' = [pc EXCEPT ![p] = "failed"]
    BY <1>w DEF Wipe, Goto, Raise, history
  <2> QED
    BY <2>2, <2>3, <1>a, <1>t, <1>o, <1>p, <1>q, <1>n
<1>5. ASSUME NEW p \in Procs, Configure(p) PROVE FreshInv'
  BY <1>5, <1>t, <1>o, <1>p, <1>q, <1>n DEF Configure, Goto, history
<1>6. ASSUME NEW p \in Procs, Compile(p) PROVE FreshInv'
  <2>a. /\ UNCHANGED <<src, loaded, started, midEdit>>
        /\ pc[p] = "compile"
    BY <1>6 DEF Compile
  <2>1. CASE pc' = [pc EXCEPT ![p] = "failed"] /\ UNCHANGED <<clock, so, read, out, crossed>>
    BY <2>1, <2>a, <1>t, <1>o, <1>p, <1>q, <1>n
  <2>2. CASE /\ cached # None /\ UpToDate(so[SoNameOf[cached]])
             /\ pc' = [pc EXCEPT ![p] = "unlink"]
             /\ crossed' = (crossed \/ SoNameOf[cached] # SoName(p))
             /\ UNCHANGED <<clock, so, read, out>>
    <3>1. ~midEdit /\ ~crossed' =>
            ~crossed /\ Mine(p).status # "absent" /\ Mine(p).mtime >= src.mtime
      BY <2>2, <1>t DEF UpToDate, Mine
    <3>2. ~midEdit /\ ~crossed' => Mine(p).version = src.version
      BY <3>1, <1>n, <1>q, <1>t
    <3> QED
      BY <2>2, <2>a, <3>1, <3>2, <1>t, <1>o, <1>p, <1>q, <1>n
  <2>3. CASE /\ cached # None /\ pc' = [pc EXCEPT ![p] = "write"]
             /\ clock' = clock + 1
             /\ read' = [read EXCEPT ![p] = src.version]
             /\ out' = [out EXCEPT ![p] = SoNameOf[cached]]
             /\ crossed' = (crossed \/ SoNameOf[cached] # SoName(p))
             /\ so'[SoNameOf[cached]].version = src.version
             /\ so'[SoNameOf[cached]].mtime = clock'
             /\ \A n \in SoNames \ {SoNameOf[cached]} : so'[n] = so[n]
    <3>1. \A n \in SoNames :
                              \/ so'[n] = so[n]
                              \/ /\ so'[n].version = src.version
                                 /\ so'[n].mtime = clock + 1
      BY <2>3
    <3>2. ~crossed' => ~crossed /\ SoNameOf[cached] = SoName(p)
      BY <2>3
    <3>3. out' = [out EXCEPT ![p] = SoNameOf[cached]]
      BY <2>3
    <3>4. /\ clock' = clock + 1 /\ read' = [read EXCEPT ![p] = src.version]
          /\ pc' = [pc EXCEPT ![p] = "write"]
      BY <2>3
    <3> QED
      BY <2>a, <3>1, <3>2, <3>3, <3>4, <1>t, <1>o, <1>p, <1>q, <1>n
  <2> QED
    <3>1. \/ pc' = [pc EXCEPT ![p] = "failed"] /\ UNCHANGED <<clock, so, read, out, crossed>>
          \/ /\ cached # None /\ UpToDate(so[SoNameOf[cached]])
             /\ pc' = [pc EXCEPT ![p] = "unlink"]
             /\ crossed' = (crossed \/ SoNameOf[cached] # SoName(p))
             /\ UNCHANGED <<clock, so, read, out>>
          \/ /\ cached # None /\ pc' = [pc EXCEPT ![p] = "write"]
             /\ clock' = clock + 1
             /\ read' = [read EXCEPT ![p] = src.version]
             /\ out' = [out EXCEPT ![p] = SoNameOf[cached]]
             /\ crossed' = (crossed \/ SoNameOf[cached] # SoName(p))
             /\ so'[SoNameOf[cached]].version = src.version
             /\ so'[SoNameOf[cached]].mtime = clock'
             /\ \A n \in SoNames \ {SoNameOf[cached]} : so'[n] = so[n]
      <4> DEFINE x == [status |-> "partial", version |-> src.version,
                       mtime |-> clock', chain |-> cached,
                       shared |-> \E q \in Procs \ {p} :
                                    pc[q] = "write" /\ out[q] = SoNameOf[cached]]
      <4>1. \/ pc' = [pc EXCEPT ![p] = "failed"] /\ UNCHANGED <<clock, so, read, out, crossed>>
            \/ /\ cached # None /\ UpToDate(so[SoNameOf[cached]])
               /\ pc' = [pc EXCEPT ![p] = "unlink"]
               /\ crossed' = (crossed \/ SoNameOf[cached] # SoName(p))
               /\ UNCHANGED <<clock, so, read, out>>
            \/ /\ cached # None /\ pc' = [pc EXCEPT ![p] = "write"]
               /\ clock' = clock + 1
               /\ read' = [read EXCEPT ![p] = src.version]
               /\ out' = [out EXCEPT ![p] = SoNameOf[cached]]
               /\ crossed' = (crossed \/ SoNameOf[cached] # SoName(p))
               /\ so' = [so EXCEPT ![SoNameOf[cached]] = x]
        BY <1>6 DEF Compile, Goto, Raise
      <4>2. x.version = src.version /\ x.mtime = clock'
        OBVIOUS
      <4>3. cached # None => SoNameOf[cached] \in SoNames
        BY <1>m, <1>t
      <4> HIDE DEF x
      <4>4. ASSUME cached # None, so' = [so EXCEPT ![SoNameOf[cached]] = x]
            PROVE  /\ so'[SoNameOf[cached]] = x
                   /\ \A n \in SoNames \ {SoNameOf[cached]} : so'[n] = so[n]
        BY <4>3, <4>4, <1>t
      <4> QED
        BY <4>1, <4>2, <4>4
    <3> QED
      BY <3>1, <2>1, <2>2, <2>3
<1>7. ASSUME NEW p \in Procs, FinishLink(p) PROVE FreshInv'
  <2>1. CASE so[out[p]].status = "absent"
    BY <1>7, <2>1, <1>t, <1>o, <1>p, <1>q, <1>n DEF FinishLink, Goto, Raise, DropLock, history
  <2>2. CASE so[out[p]].status # "absent"
    <3>1. /\ so'[out[p]].version = read[p] /\ so'[out[p]].mtime = clock + 1
          /\ \A n \in SoNames \ {out[p]} : so'[n] = so[n]
          /\ clock' = clock + 1 /\ pc[p] = "write"
          /\ pc' = [pc EXCEPT ![p] = "unlink"]
          /\ UNCHANGED <<src, read, out, loaded, started, midEdit, crossed>>
      BY <1>7, <2>2, <1>t DEF FinishLink, Goto, Raise, history
    <3> QED
      BY <3>1, <1>t, <1>o, <1>p, <1>q, <1>n
  <2> QED
    BY <2>1, <2>2
<1>8. ASSUME NEW p \in Procs, Unlink(p) PROVE FreshInv'
  BY <1>8, <1>t, <1>o, <1>p, <1>q, <1>n DEF Unlink, Goto, Raise, DropLock, history
<1>9. ASSUME NEW p \in Procs, Relink(p) PROVE FreshInv'
  BY <1>9, <1>t, <1>o, <1>p, <1>q, <1>n DEF Relink, Goto, Raise, DropLock, history
<1>10. ASSUME NEW p \in Procs, Release(p) PROVE FreshInv'
  BY <1>10, <1>t, <1>o, <1>p, <1>q, <1>n DEF Release, Goto, disk, history
<1>11. ASSUME NEW p \in Procs, Import(p) PROVE FreshInv'
  <2>1. /\ pc[p] \in {"import", "reimport"}
        /\ UNCHANGED <<clock, src, so, read, out, started, midEdit, crossed>>
    BY <1>11 DEF Import, disk, history
  <2>2. \/ /\ Mine(p).status # "absent" /\ loaded' = [loaded EXCEPT ![p] = Mine(p).version]
           /\ pc' = [pc EXCEPT ![p] = "done"]
        \/ /\ loaded' = loaded
           /\ pc' \in {[pc EXCEPT ![p] = "build"], [pc EXCEPT ![p] = "failed"]}
    BY <1>11 DEF Import, Goto, Importable, Reachable
  <2> QED
    BY <2>1, <2>2, <1>t, <1>o, <1>p, <1>q, <1>n
<1>12. ASSUME NEW p \in Procs, Kill(p) PROVE FreshInv'
  <2>1. so' = so \/ so' = [so EXCEPT ![out[p]] = Absent]
    BY <1>12 DEF Kill
  <2>2. \A n \in SoNames : so'[n] \in {so[n], Absent}
    BY <2>1, <1>t
  <2> QED
    BY <1>12, <2>2, <1>a, <1>t, <1>o, <1>p, <1>q, <1>n DEF Kill, Goto, DropLock, Ended
<1>f. ASSUME NEW p \in Procs, Fail(p) PROVE FreshInv'
  <2>1. so' = so \/ so' = [so EXCEPT ![out[p]] = Absent]
    BY <1>f DEF Fail
  <2>2. \A n \in SoNames : so'[n] \in {so[n], Absent}
    BY <2>1, <1>t
  <2> QED
    BY <1>f, <2>2, <1>a, <1>t, <1>o, <1>p, <1>q, <1>n DEF Fail, Goto, Raise, DropLock
<1>13. CASE UNCHANGED vars
  BY <1>13, <1>t, <1>o, <1>p, <1>q DEF vars
<1> QED
  BY <1>1, <1>2, <1>3, <1>4, <1>w, <1>5, <1>6, <1>7, <1>8, <1>9, <1>10, <1>11,
     <1>12, <1>f, <1>13 DEF Next, Step

LEMMA QuietInit == Init /\ Quiet => QuietInv
  BY BridgeAssumption
     DEF Init, Quiet, QuietInv, Absent, Locked, Building, Configured, Procs

LEMMA QuietStays == TypeOK /\ [Next]_vars /\ Quiet' => Quiet
<1> SUFFICES ASSUME TypeOK, [Next]_vars, Quiet' PROVE Quiet
  OBVIOUS
<1>1. edits' = 0 /\ torn' = FALSE /\ CommandLines = {}
  BY DEF Quiet, TypeOK
<1>2. (edits' = edits \/ edits' = edits + 1) /\ (torn' = torn \/ torn' = TRUE)
  <2>1. CASE Edit
    BY <2>1 DEF Edit
  <2>2. ASSUME NEW p \in Procs, Step(p) \/ Fail(p)
        PROVE  edits' = edits /\ torn' = torn
    BY <2>2 DEF Step, Acquire, Check, BeginBuild, Wipe, Configure, Compile,
       FinishLink, Unlink, Relink, Release, Import, Fail, history
  <2>3. ASSUME NEW p \in Procs, Kill(p)
        PROVE  edits' = edits /\ (torn' = torn \/ torn' = TRUE)
    BY <2>3 DEF Kill
  <2> QED
    BY <2>1, <2>2, <2>3 DEF Next, vars
<1>3. edits = 0 /\ ~torn
  BY <1>1, <1>2 DEF TypeOK
<1>4. \A p, q \in Procs : SoName(p) = SoName(q)
  <2>1. chain' = chain
    BY ChainStays
  <2> QED
    BY <2>1 DEF Quiet, SoName
<1> QED
  BY <1>1, <1>3, <1>4 DEF Quiet

LEMMA QuietNext == TypeOK /\ FreshInv /\ QuietInv /\ Quiet /\ Quiet' /\ [Next]_vars
                     => QuietInv'
<1> SUFFICES ASSUME TypeOK, FreshInv, QuietInv, Quiet, Quiet', [Next]_vars
             PROVE QuietInv'
  OBVIOUS
<1>0. Procs = Workers /\ None \notin Procs /\ None \notin Toolchains
  BY BridgeAssumption DEF Quiet, Procs
<1>a. src.mtime <= clock
  BY DEF FreshInv
<1>b. Absent.status = "absent" /\ Absent.shared = FALSE
  BY DEF Absent
<1>c. chain' = chain
  BY ChainStays
<1>n. \A p \in Procs : SoName(p) \in SoNames
  BY NameType
<1>e. \A p, q \in Procs : SoName(p) = SoName(q)
  BY DEF Quiet
<1>o. \A p \in Procs : SoName(p)' = SoName(p)
  BY <1>c DEF SoName
<1>p. \A p \in Procs : Mine(p)' = so'[SoName(p)]
  BY <1>o DEF Mine
<1>q. \A p \in Procs : Mine(p) = so[SoName(p)]
  BY DEF Mine
<1>r. \A p \in Procs : SoNameOf[chain[p]] = SoName(p)
  BY DEF SoName
<1>t. /\ clock \in Nat /\ src.mtime \in Nat /\ DOMAIN so = SoNames
      /\ \A n \in SoNames :
           /\ so[n].mtime \in Nat
           /\ so[n].status \in {"absent", "partial", "ok", "corrupt"}
      /\ out \in [Procs -> SoNames] /\ pc \in [Procs -> Labels]
      /\ linked \subseteq SoNames /\ cached \in Toolchains \cup {None}
      /\ chain \in [Procs -> Toolchains]
  BY DEF TypeOK
<1> USE DEF QuietInv, Locked, Building, Configured
<1>1. CASE Edit
  <2>1. edits' = edits + 1 /\ edits \in Nat /\ edits' = 0
    BY <1>1 DEF Edit, Quiet, TypeOK
  <2> QED
    BY <2>1
<1>2. ASSUME NEW p \in Procs, Acquire(p) PROVE QuietInv'
  BY <1>0, <1>2, <1>t, <1>c, <1>o, <1>p, <1>q DEF Acquire, Goto, disk
<1>3. ASSUME NEW p \in Procs, Check(p) PROVE QuietInv'
  <2>1. CASE NeedsBuild(p)
    <3>1. \A q \in Procs : pc[q] \notin {"release", "import", "done"}
      BY <2>1, <1>t, <1>e, <1>q, <1>n DEF NeedsBuild, Reachable
    <3> QED
      BY <1>0, <1>3, <2>1, <3>1, <1>t, <1>c, <1>o, <1>p, <1>q DEF Check, Goto, disk, history
  <2>2. CASE ~NeedsBuild(p)
    <3>1. /\ Mine(p).status # "absent" /\ SoName(p) \in linked
          /\ pc[p] = "check"
      BY <2>2, <1>3 DEF NeedsBuild, Reachable, Check
    <3>2. \A q \in Procs : pc[q] \notin Building \cup {"build"}
      BY <1>0, <3>1
    <3>3. Mine(p).status = "ok"
      BY <3>1, <3>2, <1>t, <1>n, <1>q
    <3> QED
      BY <1>0, <1>3, <2>2, <3>1, <3>2, <3>3, <1>t, <1>c, <1>o, <1>p, <1>q
         DEF Check, Goto, disk, history
  <2> QED
    BY <2>1, <2>2
<1>4. ASSUME NEW p \in Procs, BeginBuild(p) PROVE QuietInv'
  BY <1>0, <1>4, <1>t, <1>c, <1>o, <1>p, <1>q
     DEF BeginBuild, Goto, Raise, DropLock, CacheConflicts, disk
<1>w. ASSUME NEW p \in Procs, Wipe(p) PROVE QuietInv'
  <2>1. pc[p] = "wipe" /\ lock = p
    BY <1>w DEF Wipe
  <2>2. Builders = {p}
    BY <1>0, <2>1 DEF Builders
  <2>3. \A n \in SoNames : so'[n] \in {so[n], Absent}
    BY <1>w, <1>t DEF Wipe
  <2>4. /\ UNCHANGED <<lock, src, linked, out, broken>>
        /\ cached' \in {cached, None}
        /\ pc' = pc \/ (pc' = [pc EXCEPT ![p] = "configure"] /\ cached' = None)
    BY <1>w, <2>2 DEF Wipe, Goto, history
  <2>5. \A q \in Procs : q # p => pc[q] \notin Locked
    BY <1>0, <2>1
  <2>6. \A q \in Procs : pc[q] \notin {"release", "import", "done"}
    BY <2>1
  <2> QED
    BY <1>0, <2>1, <2>3, <2>4, <2>5, <2>6, <1>b, <1>t, <1>c, <1>o, <1>p, <1>q, <1>n
<1>5. ASSUME NEW p \in Procs, Configure(p) PROVE QuietInv'
  BY <1>0, <1>5, <1>t, <1>c, <1>o, <1>p, <1>q DEF Configure, Goto, history
<1>6. ASSUME NEW p \in Procs, Compile(p) PROVE QuietInv'
  <2>1. pc[p] = "compile" /\ lock = p /\ cached = chain[p] /\ cached # None
    BY <1>6, <1>0, <1>t DEF Compile
  <2>2. \A q \in Procs : pc[q] # "write"
    BY <1>0, <2>1
  <2>3. SoNameOf[cached] = SoName(p)
    BY <2>1, <1>r
  <2>4. \A q \in Procs : q # p => pc[q] \notin Locked
    BY <1>0, <2>1
  <2>5. UNCHANGED <<src, linked, cached, broken>>
    BY <1>6 DEF Compile
  <2>6. CASE so' = so
    <3>1. /\ pc' = [pc EXCEPT ![p] = "unlink"] /\ UNCHANGED <<lock, out>>
          /\ Mine(p).status # "absent"
      BY <1>6, <2>1, <2>3, <2>6, <1>t, <1>n, <1>q DEF Compile, Goto, UpToDate, Raise
    <3>2. Mine(p).status = "ok"
      BY <3>1, <2>2, <1>t, <1>n, <1>q
    <3> QED
      BY <1>0, <2>1, <2>2, <2>4, <2>5, <2>6, <3>1, <3>2, <1>t, <1>c, <1>o, <1>p, <1>q
  <2>7. CASE so' # so
    <3> DEFINE sh == \E q \in Procs \ {p} : pc[q] = "write" /\ out[q] = SoName(p)
               x == [status |-> "partial", version |-> src.version,
                     mtime |-> clock', chain |-> cached, shared |-> sh]
    <3>1. /\ pc' = [pc EXCEPT ![p] = "write"] /\ lock' = lock
          /\ out' = [out EXCEPT ![p] = SoName(p)]
          /\ so' = [so EXCEPT ![SoName(p)] = x]
      BY <1>6, <2>1, <2>3, <2>7 DEF Compile, Goto
    <3>2. sh = FALSE
      BY <2>2
    <3> HIDE DEF sh
    <3>3. x.status = "partial" /\ x.shared = FALSE
      BY <3>2
    <3> HIDE DEF x
    <3>4. /\ so'[SoName(p)] = x
          /\ \A n \in SoNames : n # SoName(p) => so'[n] = so[n]
      BY <3>1, <1>n, <1>t
    <3> QED
      BY <1>0, <2>1, <2>2, <2>4, <2>5, <3>1, <3>3, <3>4, <1>n, <1>t, <1>c, <1>o, <1>p, <1>q
  <2> HIDE DEF QuietInv
  <2> QED
    BY <2>6, <2>7
<1>7. ASSUME NEW p \in Procs, FinishLink(p) PROVE QuietInv'
  <2>1. /\ pc[p] = "write" /\ lock = p /\ out[p] = SoName(p)
        /\ so[out[p]].status = "partial" /\ ~so[out[p]].shared
    BY <1>7, <1>n, <1>q DEF FinishLink
  <2>2. /\ so'[SoName(p)].status = "ok" /\ so'[SoName(p)].mtime = clock + 1
        /\ so'[SoName(p)].shared = FALSE
        /\ \A n \in SoNames : n # SoName(p) => so'[n] = so[n]
        /\ pc' = [pc EXCEPT ![p] = "unlink"]
        /\ UNCHANGED <<lock, src, linked, cached, out, broken>>
    BY <1>7, <2>1, <1>n, <1>t DEF FinishLink, Goto, history
  <2>3. \A n \in SoNames : n # SoName(p) => so[n].status # "partial"
    BY <2>1, <1>0, <1>e
  <2> QED
    BY <1>0, <1>a, <2>1, <2>2, <2>3, <1>n, <1>t, <1>c, <1>o, <1>p, <1>q
<1>8. ASSUME NEW p \in Procs, Unlink(p) PROVE QuietInv'
  BY <1>0, <1>8, <1>e, <1>t, <1>c, <1>o, <1>p, <1>q DEF Unlink, Goto, Raise, DropLock, history
<1>9. ASSUME NEW p \in Procs, Relink(p) PROVE QuietInv'
  BY <1>0, <1>9, <1>e, <1>n, <1>t, <1>c, <1>o, <1>p, <1>q DEF Relink, Goto, Raise, DropLock, history
<1>10. ASSUME NEW p \in Procs, Release(p) PROVE QuietInv'
  BY <1>0, <1>10, <1>t, <1>c, <1>o, <1>p, <1>q DEF Release, Goto, disk, history
<1>11. ASSUME NEW p \in Procs, Import(p) PROVE QuietInv'
  <2>1. pc[p] = "import" /\ Importable(p)
    BY <1>11 DEF Import, Importable, Reachable
  <2> QED
    BY <1>0, <1>11, <2>1, <1>t, <1>c, <1>o, <1>p, <1>q DEF Import, Goto, disk, history
<1>12. ASSUME NEW p \in Procs, Kill(p) PROVE QuietInv'
  <2>1. /\ ~torn' /\ UNCHANGED <<src, linked, cached, out, broken>>
        /\ pc' = [pc EXCEPT ![p] = "killed"] /\ pc[p] \notin Ended
        /\ lock' = IF lock = p THEN None ELSE lock
    BY <1>12 DEF Kill, Quiet, Goto, DropLock
  <2>2. CASE pc[p] = "write"
    <3>1. so' = [so EXCEPT ![out[p]] = Absent]
      BY <1>12, <2>1, <2>2 DEF Kill
    <3>2. out[p] = SoName(p)
      BY <2>2
    <3> QED
      BY <1>0, <2>1, <2>2, <3>1, <3>2, <1>b, <1>e, <1>n, <1>t, <1>c, <1>o, <1>p, <1>q DEF Ended
  <2>3. CASE pc[p] # "write"
    <3>1. so' = so
      BY <1>12, <2>3 DEF Kill
    <3> QED
      BY <1>0, <2>1, <2>3, <3>1, <1>t, <1>c, <1>o, <1>p, <1>q DEF Ended
  <2> QED
    BY <2>2, <2>3
<1>f. ASSUME NEW p \in Procs, Fail(p) PROVE QuietInv'
  <2>1. /\ UNCHANGED <<src, linked, cached, out>>
        /\ pc' = [pc EXCEPT ![p] = "failed"] /\ broken' = broken \cup {p}
        /\ pc[p] \in {"build", "configure", "compile", "write"}
        /\ lock' = IF lock = p THEN None ELSE lock
    BY <1>f DEF Fail, Raise, Goto, DropLock
  <2>2. CASE pc[p] = "write"
    <3>1. so' = [so EXCEPT ![out[p]] = Absent]
      BY <1>f, <2>2 DEF Fail
    <3>2. out[p] = SoName(p)
      BY <2>2
    <3> QED
      BY <1>0, <2>1, <2>2, <3>1, <3>2, <1>b, <1>e, <1>n, <1>t, <1>c, <1>o, <1>p, <1>q
  <2>3. CASE pc[p] # "write"
    <3>1. so' = so
      BY <1>f, <2>3 DEF Fail
    <3> QED
      BY <1>0, <2>1, <2>3, <3>1, <1>t, <1>c, <1>o, <1>p, <1>q
  <2> QED
    BY <2>2, <2>3
<1>13. CASE UNCHANGED vars
  BY <1>13, <1>o, <1>p, <1>q DEF vars
<1> QED
  BY <1>1, <1>2, <1>3, <1>4, <1>w, <1>5, <1>6, <1>7, <1>8, <1>9, <1>10, <1>11,
     <1>12, <1>f, <1>13 DEF Next, Step

LEMMA Inductive == Spec => []IInv
<1>1. Init => IInv
  BY TypeInit, FreshInit, QuietInit DEF IInv
<1>2. IInv /\ [Next]_vars => IInv'
  BY TypeNext, FreshNext, QuietStays, QuietNext DEF IInv
<1> QED
  BY <1>1, <1>2, PTL DEF Spec

(* Type correctness of the build protocol, for any set of processes.       *)
THEOREM TypeCorrect == Spec => []TypeOK
  BY Inductive, PTL DEF IInv

(* needs_build under the lock is enough: no worker imports an extension    *)
(* older than the sources it saw when it took the lock, although the lock  *)
(* is released before the import, unless a compilation was edited under or *)
(* the directory reconfigured for another interpreter under a process.     *)
THEOREM Freshness == Spec => []FreshImport
<1>1. IInv => FreshImport
  BY DEF IInv, FreshInv, FreshImport, Procs
<1> QED
  BY <1>1, Inductive, PTL

(* In a tree nobody edits or bypasses, the flock serializes every build    *)
(* and no extension is corrupt, for any number of workers whose            *)
(* interpreters agree on the extension's name, of LLVM installs, of        *)
(* failures and of kills that do not leave a half-written file.            *)
THEOREM Serialization == Spec => []QuietSerialized
<1>1. IInv => QuietSerialized
  <2> SUFFICES ASSUME IInv, Quiet
               PROVE  SerializedBuilds /\ \A n \in SoNames : so[n].status # "corrupt"
    BY DEF QuietSerialized
  <2> QED
    BY DEF IInv, QuietInv, SerializedBuilds, Builders, Locked
<1> QED
  BY <1>1, Inductive, PTL

(* In such a tree ensure_fresh fails no worker that may build and whose    *)
(* own detection and cmake succeed, whatever becomes of the others.        *)
THEOREM Success == Spec => []QuietWorkersSucceed
<1>1. IInv => QuietWorkersSucceed
  BY DEF IInv, QuietInv, QuietWorkersSucceed, Procs
<1> QED
  BY <1>1, Inductive, PTL

(* What OneToolchain rests on: without overlapping builds the one builder  *)
(* has compared the cache with its own toolchain and nobody has changed it *)
(* since, so it links the extension of its own name with that toolchain.   *)
ChainInv ==
  ~overlap =>
    /\ \A p, q \in Builders : p = q
    /\ \A p \in Procs :
         /\ pc[p] = "configure" => cached \in {None, chain[p]}
         /\ pc[p] \in Configured => cached = chain[p]
         /\ pc[p] = "write" =>
              /\ out[p] = SoName(p)
              /\ Mine(p).status # "absent" => Mine(p).chain = chain[p]
         /\ pc[p] \in {"unlink", "relink"} => Mine(p).chain = chain[p]

LEMMA ChainInit == Init => ChainInv
  BY DEF Init, ChainInv, Builders, Building, Configured

LEMMA ChainNext == TypeOK /\ ChainInv /\ [Next]_vars => ChainInv'
<1> SUFFICES ASSUME TypeOK, ChainInv, [Next]_vars PROVE ChainInv'
  OBVIOUS
<1>0. None \notin Toolchains
  BY BridgeAssumption
<1>b. Absent.status = "absent"
  BY DEF Absent
<1>c. chain' = chain
  BY ChainStays
<1>n. \A p \in Procs : SoName(p) \in SoNames
  BY NameType
<1>o. \A p \in Procs : SoName(p)' = SoName(p)
  BY <1>c DEF SoName
<1>p. \A p \in Procs : Mine(p)' = so'[SoName(p)]
  BY <1>o DEF Mine
<1>q. \A p \in Procs : Mine(p) = so[SoName(p)]
  BY DEF Mine
<1>r. \A p \in Procs : SoNameOf[chain[p]] = SoName(p)
  BY DEF SoName
<1>t. /\ DOMAIN so = SoNames /\ out \in [Procs -> SoNames] /\ pc \in [Procs -> Labels]
      /\ cached \in Toolchains \cup {None} /\ chain \in [Procs -> Toolchains]
  BY DEF TypeOK
<1> USE DEF ChainInv, Builders, Building, Configured
<1>1. CASE Edit
  BY <1>1, <1>c, <1>o, <1>p, <1>q DEF Edit
<1>2. ASSUME NEW p \in Procs, Acquire(p) PROVE ChainInv'
  BY <1>2, <1>t, <1>c, <1>o, <1>p, <1>q DEF Acquire, Goto, disk
<1>3. ASSUME NEW p \in Procs, Check(p) PROVE ChainInv'
  BY <1>3, <1>t, <1>c, <1>o, <1>p, <1>q DEF Check, Goto, disk, history
<1>4. ASSUME NEW p \in Procs, BeginBuild(p) PROVE ChainInv'
  <2>1. CASE p \in Forbidden
    BY <1>4, <2>1, <1>t, <1>c, <1>o, <1>p, <1>q DEF BeginBuild, Goto, Raise, disk
  <2>2. CASE p \notin Forbidden
    <3>1. /\ pc[p] = "build" /\ pc' \in {[pc EXCEPT ![p] = "wipe"], [pc EXCEPT ![p] = "configure"]}
          /\ ~overlap' => ~overlap /\ \A q \in Procs : pc[q] \notin Building
          /\ UNCHANGED <<cached, so, out>>
      BY <1>4, <2>2 DEF BeginBuild, Goto, disk
    <3>2. pc'[p] = "configure" => cached \in {None, chain[p]}
      BY <1>4, <2>2, <1>t DEF BeginBuild, Goto, CacheConflicts
    <3> QED
      BY <3>1, <3>2, <1>t, <1>c, <1>o, <1>p, <1>q
  <2> QED
    BY <2>1, <2>2
<1>w. ASSUME NEW p \in Procs, Wipe(p) PROVE ChainInv'
  <2>1. /\ pc[p] = "wipe" /\ UNCHANGED <<out, overlap>>
        /\ \/ pc' = pc
           \/ pc' = [pc EXCEPT ![p] = "configure"] /\ cached' = None
           \/ pc' = [pc EXCEPT ![p] = "failed"]
    BY <1>w DEF Wipe, Goto, Raise, history
  <2>2. ~overlap => \A q \in Procs : q # p => pc[q] \notin Building
    BY <2>1
  <2> QED
    BY <2>1, <2>2, <1>t, <1>c, <1>o, <1>p, <1>q
<1>5. ASSUME NEW p \in Procs, Configure(p) PROVE ChainInv'
  BY <1>0, <1>5, <1>t, <1>c, <1>o, <1>p, <1>q DEF Configure, Goto, history
<1>6. ASSUME NEW p \in Procs, Compile(p) PROVE ChainInv'
  <2>1. /\ pc[p] = "compile" /\ UNCHANGED <<cached, overlap>>
        /\ ~overlap => cached = chain[p]
    BY <1>6 DEF Compile
  <2>2. ~overlap => \A q \in Procs : q # p => pc[q] \notin Building
    BY <2>1
  <2>3. ~overlap => SoNameOf[cached] = SoName(p)
    BY <2>1, <1>r
  <2>4. CASE pc' = [pc EXCEPT ![p] = "failed"] /\ UNCHANGED <<so, out>>
    BY <2>1, <2>2, <2>4, <1>t, <1>c, <1>o, <1>p, <1>q
  <2>5. CASE /\ pc' = [pc EXCEPT ![p] = "unlink"] /\ UNCHANGED <<so, out>>
             /\ so[SoNameOf[cached]].chain = cached
    BY <2>1, <2>2, <2>3, <2>5, <1>t, <1>c, <1>o, <1>p, <1>q
  <2>6. CASE /\ pc' = [pc EXCEPT ![p] = "write"]
             /\ out' = [out EXCEPT ![p] = SoNameOf[cached]]
             /\ SoNameOf[cached] \in SoNames => so'[SoNameOf[cached]].chain = cached
    BY <2>1, <2>2, <2>3, <2>6, <1>n, <1>t, <1>c, <1>o, <1>p, <1>q
  <2>7. \/ pc' = [pc EXCEPT ![p] = "failed"] /\ UNCHANGED <<so, out>>
        \/ /\ pc' = [pc EXCEPT ![p] = "unlink"] /\ UNCHANGED <<so, out>>
           /\ so[SoNameOf[cached]].chain = cached
        \/ /\ pc' = [pc EXCEPT ![p] = "write"]
           /\ out' = [out EXCEPT ![p] = SoNameOf[cached]]
           /\ SoNameOf[cached] \in SoNames => so'[SoNameOf[cached]].chain = cached
    BY <1>6, <1>t DEF Compile, Goto, Raise, UpToDate
  <2> QED
    BY <2>4, <2>5, <2>6, <2>7
<1>7. ASSUME NEW p \in Procs, FinishLink(p) PROVE ChainInv'
  <2>1. /\ pc[p] = "write" /\ UNCHANGED <<cached, out, overlap>>
        /\ ~overlap => \A q \in Procs : q # p => pc[q] \notin Building
    BY <1>7 DEF FinishLink, history
  <2>2. CASE so[out[p]].status = "absent"
    BY <1>7, <2>1, <2>2, <1>t, <1>c, <1>o, <1>p, <1>q DEF FinishLink, Goto, Raise
  <2>3. CASE so[out[p]].status # "absent"
    <3>1. pc' = [pc EXCEPT ![p] = "unlink"] /\ so'[out[p]].chain = so[out[p]].chain
      BY <1>7, <2>3, <1>t DEF FinishLink, Goto
    <3>2. ~overlap => out[p] = SoName(p) /\ so[out[p]].chain = chain[p]
      BY <2>1, <2>3, <1>q
    <3> QED
      BY <2>1, <3>1, <3>2, <1>t, <1>c, <1>o, <1>p, <1>q
  <2> QED
    BY <2>2, <2>3
<1>8. ASSUME NEW p \in Procs, Unlink(p) PROVE ChainInv'
  BY <1>8, <1>t, <1>c, <1>o, <1>p, <1>q DEF Unlink, Goto, Raise, history
<1>9. ASSUME NEW p \in Procs, Relink(p) PROVE ChainInv'
  BY <1>9, <1>t, <1>c, <1>o, <1>p, <1>q DEF Relink, Goto, Raise, history
<1>10. ASSUME NEW p \in Procs, Release(p) PROVE ChainInv'
  BY <1>10, <1>t, <1>c, <1>o, <1>p, <1>q DEF Release, Goto, disk, history
<1>11. ASSUME NEW p \in Procs, Import(p) PROVE ChainInv'
  BY <1>11, <1>t, <1>c, <1>o, <1>p, <1>q DEF Import, Goto, disk, history
<1>k. ASSUME NEW p \in Procs, Kill(p) \/ Fail(p) PROVE ChainInv'
  <2>1. /\ pc' \in {[pc EXCEPT ![p] = "killed"], [pc EXCEPT ![p] = "failed"]}
        /\ UNCHANGED <<cached, out, overlap>>
        /\ pc[p] # "write" => so' = so
    BY <1>k DEF Kill, Fail, Goto, Raise
  <2>2. CASE pc[p] = "write"
    <3>1. ~overlap => \A q \in Procs : q # p => pc[q] \notin Building
      BY <2>2
    <3> QED
      BY <2>1, <2>2, <3>1, <1>t, <1>c, <1>o, <1>p, <1>q
  <2>3. CASE pc[p] # "write"
    BY <2>1, <2>3, <1>t, <1>c, <1>o, <1>p, <1>q
  <2> QED
    BY <2>2, <2>3
<1>13. CASE UNCHANGED vars
  BY <1>13, <1>o, <1>p, <1>q DEF vars
<1> QED
  BY <1>1, <1>2, <1>3, <1>4, <1>w, <1>5, <1>6, <1>7, <1>8, <1>9, <1>10, <1>11,
     <1>k, <1>13 DEF Next, Step

(* _cache_conflicts before every build is enough: unless builds overlap,   *)
(* no process publishes an extension that another toolchain produced,      *)
(* although a build directory is shared and reconfigured in place.         *)
THEOREM Toolchain == Spec => []OneToolchain
<1>1. Init => ChainInv
  BY ChainInit
<1>2. TypeOK /\ ChainInv /\ [Next]_vars => ChainInv'
  BY ChainNext
<1>3. ChainInv => OneToolchain
  BY DEF ChainInv, OneToolchain
<1> QED
  BY <1>1, <1>2, <1>3, TypeCorrect, PTL DEF Spec
=============================================================================
