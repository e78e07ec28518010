---------------------------- MODULE BridgeBuild ----------------------------
(***************************************************************************)
(* Building and importing the compiled HLFIR bridge (build_bridge.py).     *)
(*                                                                         *)
(* Several processes share one package directory and one cmake build       *)
(* directory.  A worker resolves `hb` with ensure_fresh: it rebuilds under *)
(* an flock when a source is newer than the extension, releases the lock,  *)
(* and only then imports the extension, building once more, unlocked, when *)
(* the import fails.  The command line runs build without the lock.        *)
(* Sources may be edited and processes killed at any moment.               *)
(*                                                                         *)
(* An extension file is abstracted to the source version it was compiled   *)
(* from, its modification time and the toolchain it was linked with.  Its  *)
(* name carries the interpreter's EXT_SUFFIX, so interpreters of different *)
(* versions have a file and a symlink each, in one build directory.  make  *)
(* and cmake are external and modelled by what build relies on: an         *)
(* incremental build relinks when a source is newer than the extension or  *)
(* the commands have changed, and entries already in CMakeCache.txt        *)
(* survive a reconfigure.  Object files are not modelled, so a build may   *)
(* relink although the extension looks up to date.                         *)
(***************************************************************************)
EXTENDS Naturals, FiniteSets

CONSTANTS
  Workers,      \* processes that resolve `hb` through ensure_fresh
  CommandLines, \* processes that run python -m dace_fortran.build_bridge
  Toolchains,   \* an LLVM install with an interpreter, as a process detects
  SoNames,      \* names of extension files, one per EXT_SUFFIX
  SoNameOf,     \* the name the interpreter of each toolchain looks for
  Detections,   \* the toolchains the processes may detect, as functions
  Forbidden,    \* the processes started with DACE_FORTRAN_NO_REBUILD set
  MaxEdits,     \* bound on source edits
  MaxKills,     \* bound on killed processes
  MaxFailures,  \* bound on detections, configurations and compilations that fail
  None          \* no toolchain, no lock holder, nothing imported

Procs == Workers \cup CommandLines

ASSUME BridgeAssumption ==
  /\ Workers \cap CommandLines = {}
  /\ None \notin Procs \cup Toolchains \cup Nat
  /\ Forbidden \subseteq Procs
  /\ Toolchains # {}
  /\ SoNameOf \in [Toolchains -> SoNames]
  /\ Detections \subseteq [Procs -> Toolchains]
  /\ MaxEdits \in Nat /\ MaxKills \in Nat /\ MaxFailures \in Nat

VARIABLES
  clock,   \* logical time of the file system: every write advances it
  src,     \* [version, mtime] of the newest source file
  so,      \* the extension of each name in the build directory
  linked,  \* the names with a symlink next to build_bridge.py
  cached,  \* the toolchain recorded in CMakeCache.txt, or None
  lock,    \* holder of .build_bridge.lock, or None
  pc,      \* control state of each process
  chain,   \* the toolchain each process detects (_detect_dirs)
  wipe,    \* the `clean` argument each process passes to build
  read,    \* source version the last compilation of each process read
  out,     \* name of the extension the last compilation of each process wrote
  loaded,  \* source version of the extension each process imported
  edits,   \* number of edits so far
  kills,   \* number of kills so far
  started, \* history: source version when each worker took the lock
  overlap, \* history: two processes have been inside build at once
  midEdit, \* history: a source was edited while it was being compiled
  torn,    \* history: a kill left a half-written extension behind
  crossed, \* history: a process ran make on a directory that was configured
           \*   for an interpreter of another name since its own cmake
  broken   \* history: processes without a toolchain, or whose cmake failed

disk == <<clock, src, so, linked, cached>>
history == <<started, overlap, midEdit, torn, crossed, broken>>
vars == <<clock, src, so, linked, cached, lock, pc, chain, wipe, read, out,
          loaded, edits, kills, started, overlap, midEdit, torn, crossed, broken>>

(* Control states in which a process is past build's refusal check.        *)
Building == {"wipe", "configure", "compile", "write", "unlink", "relink"}

Ended == {"done", "failed", "killed"}

Labels == Building \cup Ended \cup
          {"acquire", "check", "build", "release", "import", "reimport"}

Builders == {p \in Procs : pc[p] \in Building}

AbsentWithoutChain == [status |-> "absent", version |-> 0, mtime |-> 0,
                       shared |-> FALSE]

(* The extension file.  "partial" is half-written; "corrupt" imports and   *)
(* crashes on its first call.  `shared`: another linker was writing it.    *)
Absent == [status |-> "absent", version |-> 0, mtime |-> 0, chain |-> None,
           shared |-> FALSE]

(* _so_name: the file and the link an interpreter looks for.               *)
SoName(p) == SoNameOf[chain[p]]
Mine(p) == so[SoName(p)]

(* Path.exists on the symlink follows it into the build directory.         *)
Reachable(p) == SoName(p) \in linked /\ Mine(p).status # "absent"

NeedsBuildOnlyWhenMissing(p) == ~Reachable(p)

(* needs_build: the extension is missing or older than some source.        *)
NeedsBuild(p) == ~Reachable(p) \/ src.mtime > Mine(p).mtime

(* importlib.import_module succeeds on a completely written extension.     *)
Importable(p) == Reachable(p) /\ Mine(p).status \in {"ok", "corrupt"}

CacheConflictsNever(p) == p \notin Procs

(* _cache_conflicts: the cache was configured with another toolchain.      *)
CacheConflicts(p) == cached # None /\ cached # chain[p]

Goto(p, l) == pc' = [pc EXCEPT ![p] = l]

(* Leaving ensure_fresh's with-block, or dying, closes the lock file.      *)
DropLock(p) == lock' = IF lock = p THEN None ELSE lock

(* An exception propagates out of build and out of ensure_fresh.           *)
Raise(p) == Goto(p, "failed") /\ DropLock(p)

Init ==
  /\ clock = 1
  /\ src = [version |-> 1, mtime |-> 1]
  /\ so = [n \in SoNames |-> Absent]
  /\ linked = {}
  /\ cached = None
  /\ lock = None
  /\ pc = [p \in Procs |-> IF p \in Workers THEN "acquire" ELSE "build"]
  /\ chain \in Detections
  /\ wipe \in {w \in [Procs -> BOOLEAN] : \A p \in Workers : ~w[p]}
  /\ read = [p \in Procs |-> 0]
  /\ out = [p \in Procs |-> SoName(p)]
  /\ loaded = [p \in Procs |-> None]
  /\ edits = 0
  /\ kills = 0
  /\ started = [p \in Procs |-> 0]
  /\ overlap = FALSE
  /\ midEdit = FALSE
  /\ torn = FALSE
  /\ crossed = FALSE
  /\ broken = {}

-----------------------------------------------------------------------------
(* Somebody saves a source file.                                           *)
Edit ==
  /\ edits < MaxEdits
  /\ clock' = clock + 1
  /\ src' = [version |-> src.version + 1, mtime |-> clock']
  /\ edits' = edits + 1
  /\ midEdit' = (midEdit \/ \E p \in Procs : pc[p] = "write")
  /\ UNCHANGED <<so, linked, cached, lock, pc, chain, wipe, read, out, loaded,
                 kills, started, overlap, torn, crossed, broken>>

AcquireWithoutFlock(p) ==
  /\ pc[p] = "acquire"
  /\ lock' = p
  /\ started' = [started EXCEPT ![p] = src.version]
  /\ Goto(p, "check")
  /\ UNCHANGED <<disk, chain, wipe, read, out, loaded, edits, kills, overlap,
                 midEdit, torn, crossed, broken>>

(* ensure_fresh: open the lock file and flock it.                          *)
Acquire(p) ==
  /\ pc[p] = "acquire"
  /\ lock = None
  /\ lock' = p
  /\ started' = [started EXCEPT ![p] = src.version]
  /\ Goto(p, "check")
  /\ UNCHANGED <<disk, chain, wipe, read, out, loaded, edits, kills, overlap,
                 midEdit, torn, crossed, broken>>

CheckThenUnlock(p) ==
  /\ pc[p] = "check"
  /\ Goto(p, IF NeedsBuild(p) THEN "build" ELSE "import")
  /\ lock' = None
  /\ UNCHANGED <<disk, chain, wipe, read, out, loaded, edits, kills, history>>

(* ensure_fresh: needs_build decides between building and releasing.       *)
Check(p) ==
  /\ pc[p] = "check"
  /\ Goto(p, IF NeedsBuild(p) THEN "build" ELSE "release")
  /\ UNCHANGED <<disk, lock, chain, wipe, read, out, loaded, edits, kills, history>>

(* build: a forbidden process raises before it touches anything; otherwise *)
(* a build directory configured for another toolchain, or a --clean one,   *)
(* is removed first.                                                       *)
BeginBuild(p) ==
  /\ pc[p] = "build"
  /\ IF p \in Forbidden
     THEN Raise(p) /\ UNCHANGED overlap
     ELSE /\ Goto(p, IF wipe[p] \/ CacheConflicts(p) THEN "wipe" ELSE "configure")
          /\ overlap' = (overlap \/ Builders # {})
          /\ UNCHANGED lock
  /\ UNCHANGED <<disk, chain, wipe, read, out, loaded, edits, kills, started,
                 midEdit, torn, crossed, broken>>

(* build: rmtree removes one entry after the other, in any order, and then *)
(* the directory; it raises when another build changes the directory under *)
(* it.                                                                     *)
Wipe(p) ==
  /\ pc[p] = "wipe"
  /\ \/ cached # None /\ cached' = None /\ UNCHANGED <<so, pc, lock>>
     \/ /\ \E n \in SoNames : so[n].status # "absent" /\ so' = [so EXCEPT ![n] = Absent]
        /\ UNCHANGED <<cached, pc, lock>>
     \/ /\ cached = None /\ \A n \in SoNames : so[n].status = "absent"
        /\ Goto(p, "configure")
        /\ UNCHANGED <<so, cached, lock>>
     \/ Builders # {p} /\ Raise(p) /\ UNCHANGED <<so, cached>>
  /\ UNCHANGED <<clock, src, linked, chain, wipe, read, out, loaded, edits,
                 kills, history>>

(* build: cmake configure; an entry already cached is not overwritten.     *)
Configure(p) ==
  /\ pc[p] = "configure"
  /\ cached' = IF cached = None THEN chain[p] ELSE cached
  /\ Goto(p, "compile")
  /\ UNCHANGED <<clock, src, so, linked, lock, chain, wipe, read, out, loaded,
                 edits, kills, history>>

UpToDate(x) == x.status # "absent" /\ x.mtime >= src.mtime /\ x.chain = cached

(* build: cmake --build.  It fails in a directory another build removed,   *)
(* may do nothing when the extension is up to date, and otherwise reads    *)
(* the sources and starts writing the extension.                           *)
Compile(p) ==
  /\ pc[p] = "compile"
  /\ \/ /\ cached = None
        /\ Raise(p)
        /\ UNCHANGED <<clock, so, read, out, crossed>>
     \/ /\ cached # None /\ UpToDate(so[SoNameOf[cached]])
        /\ Goto(p, "unlink")
        /\ crossed' = (crossed \/ SoNameOf[cached] # SoName(p))
        /\ UNCHANGED <<clock, so, read, out, lock>>
     \/ /\ cached # None
        /\ Goto(p, "write")
        /\ clock' = clock + 1
        /\ read' = [read EXCEPT ![p] = src.version]
        /\ out' = [out EXCEPT ![p] = SoNameOf[cached]]
        /\ crossed' = (crossed \/ SoNameOf[cached] # SoName(p))
        /\ so' = [so EXCEPT ![SoNameOf[cached]] =
                    [status |-> "partial", version |-> src.version,
                     mtime |-> clock', chain |-> cached,
                     shared |-> \E q \in Procs \ {p} :
                                  pc[q] = "write" /\ out[q] = SoNameOf[cached]]]
        /\ UNCHANGED lock
  /\ UNCHANGED <<src, linked, cached, chain, wipe, loaded, edits, kills,
                 started, overlap, midEdit, torn, broken>>

(* build: the linker finishes the file, unless it was removed meanwhile.   *)
FinishLink(p) ==
  /\ pc[p] = "write"
  /\ LET x == so[out[p]] IN
     \/ x.status = "absent" /\ Raise(p) /\ UNCHANGED <<clock, so>>
     \/ /\ x.status # "absent"
        /\ clock' = clock + 1
        /\ so' = [so EXCEPT ![out[p]] =
                    [status |-> IF x.shared THEN "corrupt" ELSE "ok",
                     version |-> read[p], mtime |-> clock', chain |-> x.chain,
                     shared |-> x.shared]]
        /\ Goto(p, "unlink")
        /\ UNCHANGED lock
  /\ UNCHANGED <<src, linked, cached, chain, wipe, read, out, loaded, edits,
                 kills, history>>

(* build: unlink the old symlink once the extension is found; a build that *)
(* left no extension of the process's own name raises.                     *)
Unlink(p) ==
  /\ pc[p] = "unlink"
  /\ \/ Mine(p).status = "absent" /\ Raise(p) /\ UNCHANGED linked
     \/ /\ Mine(p).status # "absent"
        /\ linked' = linked \ {SoName(p)}
        /\ Goto(p, "relink")
        /\ UNCHANGED lock
  /\ UNCHANGED <<clock, src, so, cached, chain, wipe, read, out, loaded, edits,
                 kills, history>>

(* build: symlink_to raises FileExistsError when another build recreated   *)
(* the link first; else build returns to its caller.                       *)
Relink(p) ==
  /\ pc[p] = "relink"
  /\ \/ SoName(p) \in linked /\ Raise(p) /\ UNCHANGED linked
     \/ /\ SoName(p) \notin linked
        /\ linked' = linked \cup {SoName(p)}
        /\ Goto(p, CASE p \in CommandLines -> "done"
                     [] p \notin CommandLines /\ lock = p -> "release"
                     [] OTHER -> "reimport")
        /\ UNCHANGED lock
  /\ UNCHANGED <<clock, src, so, cached, chain, wipe, read, out, loaded, edits,
                 kills, history>>

ReleaseForgotten(p) ==
  /\ pc[p] = "release"
  /\ Goto(p, "import")
  /\ UNCHANGED <<disk, lock, chain, wipe, read, out, loaded, edits, kills, history>>

(* ensure_fresh leaves the with-block before it imports.                   *)
Release(p) ==
  /\ pc[p] = "release"
  /\ lock' = None
  /\ Goto(p, "import")
  /\ UNCHANGED <<disk, chain, wipe, read, out, loaded, edits, kills, history>>

(* ensure_bridge: import, falling back to an unlocked build the first      *)
(* time; a failure after that build propagates.                            *)
Import(p) ==
  /\ pc[p] \in {"import", "reimport"}
  /\ \/ /\ Importable(p)
        /\ loaded' = [loaded EXCEPT ![p] = Mine(p).version]
        /\ Goto(p, "done")
     \/ /\ ~Importable(p)
        /\ Goto(p, IF pc[p] = "import" THEN "build" ELSE "failed")
        /\ UNCHANGED loaded
  /\ UNCHANGED <<disk, lock, chain, wipe, read, out, edits, kills, history>>

(* A process is killed with its cmake children and the kernel drops its    *)
(* flock.  make deletes the target it was writing on SIGINT and SIGTERM,   *)
(* and cannot on SIGKILL.                                                  *)
Kill(p) ==
  /\ kills < MaxKills
  /\ pc[p] \notin Ended
  /\ kills' = kills + 1
  /\ Goto(p, "killed")
  /\ DropLock(p)
  /\ \/ so' = (IF pc[p] = "write" THEN [so EXCEPT ![out[p]] = Absent] ELSE so) /\ UNCHANGED torn
     \/ pc[p] = "write" /\ torn' = TRUE /\ UNCHANGED so
  /\ UNCHANGED <<clock, src, linked, cached, chain, wipe, read, out, loaded,
                 edits, started, overlap, midEdit, crossed, broken>>

(* build: _detect_dirs finds no LLVM that can build the bridge, or a       *)
(* check_call of cmake fails; a linker that fails removes its output.      *)
Fail(p) ==
  /\ Cardinality(broken) < MaxFailures
  /\ pc[p] \in {"build", "configure", "compile", "write"}
  /\ pc[p] = "build" => p \notin Forbidden
  /\ Raise(p)
  /\ broken' = broken \cup {p}
  /\ so' = IF pc[p] = "write" THEN [so EXCEPT ![out[p]] = Absent] ELSE so
  /\ UNCHANGED <<clock, src, linked, cached, chain, wipe, read, out, loaded,
                 edits, kills, started, overlap, midEdit, torn, crossed>>

Step(p) ==
  \/ Acquire(p) \/ Check(p) \/ BeginBuild(p) \/ Wipe(p) \/ Configure(p)
  \/ Compile(p) \/ FinishLink(p) \/ Unlink(p) \/ Relink(p) \/ Release(p)
  \/ Import(p)

Next ==
  \/ Edit
  \/ \E p \in Procs : Step(p) \/ Kill(p) \/ Fail(p)
  \/ (\A p \in Procs : pc[p] \in Ended) /\ UNCHANGED vars

(* Every process keeps running: the operating system schedules it and      *)
(* cmake terminates.  Edits, kills and failures are not fair.              *)
Fairness == \A p \in Procs : WF_vars(Step(p))

Spec == Init /\ [][Next]_vars /\ Fairness

-----------------------------------------------------------------------------
(* Every variable stays in its type.                                       *)
TypeOK ==
  /\ clock \in Nat
  /\ src \in [version : Nat, mtime : Nat]
  /\ so \in [SoNames -> [status : {"absent", "partial", "ok", "corrupt"},
                         version : Nat, mtime : Nat,
                         chain : Toolchains \cup {None}, shared : BOOLEAN]]
  /\ linked \subseteq SoNames
  /\ cached \in Toolchains \cup {None}
  /\ lock \in Procs \cup {None}
  /\ pc \in [Procs -> Labels]
  /\ chain \in [Procs -> Toolchains]
  /\ wipe \in [Procs -> BOOLEAN]
  /\ read \in [Procs -> Nat]
  /\ out \in [Procs -> SoNames]
  /\ loaded \in [Procs -> Nat \cup {None}]
  /\ edits \in Nat /\ kills \in Nat
  /\ started \in [Procs -> Nat]
  /\ overlap \in BOOLEAN /\ midEdit \in BOOLEAN /\ torn \in BOOLEAN
  /\ crossed \in BOOLEAN /\ broken \subseteq Procs

(* The tree is at rest: no edit, no half-written file, nobody bypassing    *)
(* ensure_fresh, and interpreters that agree on the extension's name.  Two *)
(* that do not wipe each other's extension in turn, although neither tree  *)
(* nor sources change, and the one that has released the lock falls back   *)
(* to a build without it.                                                  *)
Quiet ==
  /\ edits = 0 /\ ~torn /\ CommandLines = {}
  /\ \A p, q \in Procs : SoName(p) = SoName(q)

(* ensure_fresh's promise: concurrent processes never run cmake into the   *)
(* same build directory.                                                   *)
SerializedBuilds == \A p, q \in Builders : p = q

(* While the tree is at rest the lock really serializes every build,       *)
(* through the unlocked fallback of ensure_bridge too, although LLVM       *)
(* installs differ and workers fail or are killed in the middle of a wipe  *)
(* or a build; no extension is corrupt.                                    *)
QuietSerialized ==
  Quiet => SerializedBuilds /\ \A n \in SoNames : so[n].status # "corrupt"

(* While the tree is at rest the only worker that ensure_fresh fails is    *)
(* one that needed to build and was forbidden to, or whose own detection   *)
(* or cmake failed: no other worker's failure or death is passed on.       *)
QuietWorkersSucceed ==
  Quiet => \A p \in Workers : pc[p] = "failed" => p \in Forbidden \cup broken

(* A worker never imports an extension older than the sources it saw when  *)
(* it took the lock, whatever the other processes do between its release   *)
(* of the lock and its import, unless an edit hit a running compilation or *)
(* an interpreter of another name reconfigured the directory between a     *)
(* process's cmake and its make.                                           *)
FreshImport ==
  ~midEdit /\ ~crossed =>
    \A p \in Workers : loaded[p] # None => loaded[p] >= started[p]

(* build never links a mixture of two LLVM installs: without overlapping   *)
(* builds, the extension a process is about to publish was produced by the *)
(* toolchain that process detected.                                        *)
OneToolchain ==
  ~overlap => \A p \in Procs :
                pc[p] \in {"unlink", "relink"} => Mine(p).chain = chain[p]

(* Nobody waits forever for the lock or for a build: every process ends.   *)
EveryoneEnds == <>(\A p \in Procs : pc[p] \in Ended)
=============================================================================
