# TLA+ models of dace-fortran

dace-fortran lowers Fortran kernels to DaCe SDFGs: flang emits HLFIR, a C++/MLIR
bridge normalises it and extracts a list of variables and a statement tree, the
Python builder turns the tree into SDFG states, and a generator emits a
Fortran-callable wrapper. Ahead of flang a source inliner merges the modules of a
program, and around the wrapper a substitute takes a routine's place in the
original program. This directory models the parts in which the *order* of
steps, or what several passes leave to each other, decides correctness:
processes that build and import the compiled bridge concurrently, the source
passes (names, bodies, dynamic dispatch), the buffers an ALLOCATABLE array
stands for, descriptors and views, statements that the SDFG is free to reorder,
loop bodies and headers, data taken for local, and the generated wrapper with
its kept buffers and device copies.

Run a model with `tlc -config <file>.cfg <module>`, a proof with
`tlapm <module>.tla`. Paths below are relative to `src/dace_fortran/`.

## 1. Inventory

| component | state it keeps | operations | interacts with | what is hard | what makes it correct |
|---|---|---|---|---|---|
| bridge build (`build_bridge.py`) | sources, `build/` with `CMakeCache.txt` and the extension, the symlink beside the package, the lock file | `ensure_fresh`, `build`, `ensure_bridge`, `python -m` | every process that first touches `SDFGBuilder`; cmake | processes race through one directory; the import happens after the lock is dropped; interpreters look for different files; kills, edits, failures | builds do not overlap, nobody imports a stale, mixed or corrupt extension, everybody ends |
| emission context (`builder/context.py`) | current state, pending scalar assignments | `ensure`, `flush`, `flush_and_ensure` | every `emit_*` | assignments are emitted later than they are met | sequential Fortran semantics |
| access nodes and tasklets (`builder/access.py`, `builder/emit_tasklet.py`) | per-state cache of live sinks, view links | `acc`, `emit_tasklet`, `emit_scalar_assign`, view write-back | statement order | a cached node may be stale; aliases (views, sections) | every dependence is a path |
| statement order (`builder/statement_order.py`) | edges of a state | `order_writers`, `order_state` | after the whole build | ordering edges must not close cycles, must anchor on the tasklets | same; no cyclic state |
| loops (`builder/emit_cfg.py`) | loop region, open interstate edge, indirect symbols already loaded | `emit_loop`, hazard tests | the bridge's `fir.do_loop` extraction | hoisting rotates values by an iteration; trip count fixed at entry | every statement of every iteration reads Fortran's values; Fortran's trip count |
| conditionals, WHILE (`builder/emit_cfg.py`) | staged conditions | `emit_cond`, `emit_while` | context | a staged condition may be stale on the back edge | condition is current |
| library nodes (`builder/emit_library.py`) | none of its own; transients for staged arguments | one emitter per intrinsic, MPI, BLAS, LAPACK, FFT or I/O call | access cache, states | some use the cached access nodes, some fresh ones, some a state of their own | the call sees and leaves what sequential Fortran does |
| descriptors (`builder/__init__.py`, `descriptors.py`, `view_extents.py`) | tables of arrays, scalars, symbols, views, offsets, aliases | classify, describe, emit, substitute names, clean up, sign, call | all emitters, bindings | a dozen passes over the same names; views of views; lower bounds | every access addresses the cell Fortran's reference designates |
| variable extraction (`bridge/extract_vars.cpp`, `bridge/ast/dispatch.cpp`) | ALLOCATE sites, groups, current buffer per name | group, bind, walk | shape scalars | control-flow joins, loops | a read sees the buffer Fortran's name denotes |
| shape scalars (`passes/VersionShapeScalars.cpp`) | versions of a reassigned scalar | version stores, rewire loads | allocation | loads under control flow | a load sees the reaching store |
| struct flattening, pointers, copy-in/out, records (`passes/`) | MLIR module | rewrites | bindings (flatten plan) | aliasing | addresses and values preserved |
| globals (`passes/SpecializeGlobals.cpp`, `PreserveMutableGlobals.cpp`) | initialised globals | clear, fold | caller of the library | a folded global the caller changes | a mutable global is never folded |
| bindings (`bindings/`) | handle of the SDFG, staging buffers, frozen signature | init, copy-in, call, copy-out, finalize, drift check | the Fortran caller | re-entry, partial presence, signature drift | the caller sees exactly the kernel's writes |
| ACC transfers (`acc_residency.py`, `bindings/acc_transfers.py`) | residency of each argument | update host / device | bindings | stale side of a pair of copies | the side that is read is current |
| external calls (`external.py`, `policy.py`) | registry | register, look up | inliner and bridge | one declaration, two consumers | both agree |
| source preprocessing (`preprocess*.py`) | text | rewrites, in-place replacement | flang | grammar | text in, text out: unit tests |
| source inliner (`fparser_inliner.py`, `inliner/ast_desugaring/`) | the parse tree; alias maps recomputed by every pass | merge, prune, rename, resolve generics, restore imports; GOTOs, splicing, folding; monomorphisation | flang | each pass works on what the ones before left of names, USEs and bodies; some repeat until nothing changes | every name denotes what it denoted, the entry point computes what it computed, nothing dispatches |
| pipeline (`pipelines.py`, `loop_*.py`) | SDFG | loop privatisation, scalar fission, DaCe transformations | DaCe | a read must find what the same iteration wrote, over loops that may not run | what the caller sees does not depend on what private copies hold to begin with |
| offload / substitute (`substitute/`) | scratch buffers, kept buffers, recorded symbols | infer scratch, judge outside references, rewrite | bindings, the rest of the program | aliases, other callers, generic names, C, preprocessor conditions | nothing outside the routine observes a scratch or kept variable |
| Fortran I/O nodes (`libraries/fortran_io/`) | eight namelist slots | open, read, write, close | generated code | slots running out | a slot holds one open group |

`PROJECT.json` lists the same components with their status, and under
`hazards` the places in the code where an order, a stale value, a crash or a
boundary bites.

## 2. Plan

In the order in which they were written; every step builds on the ones above
it only where it says so.

| step | modules | state |
|---|---|---|
| 1 | `BridgeBuild`, `BridgeBuildProofs` | done |
| 2 | `StateGraph` (one state's graph) and `SdfgEmit` (whole straight-line programs); `LibraryNodes` between the two; `StateGraphProofs`, `LibraryNodesProofs`, `SdfgEmitProofs` | done; maps, branches and WHILE conditions left |
| 3 | `LoopBody` over `StateGraph`, `LoopBodyProofs` | done; nested indirections, views, mixed bodies left |
| 4 | `DoLoop`, `DoLoopProofs` | done |
| 5 | `AllocBuffers`, `AllocBuffersProofs` | done; `scf.while` regions, components, ALLOCATED left |
| 6 | `CallByReference` (abstract) and `Wrapper` (detailed), a refinement; `WrapperProofs` | done; a split and a kept member in one binding left |
| 7 | `UseScopes`: name binding through the inliner | done |
| 8 | `FortranBodies` (language) and `FoldBodies` (passes) | done; arrays left |
| 9 | `SdfgRegions` (structured SDFGs) and `LocalData` (scratch, private copies, fission) | done |
| 10 | `OutsideRefs` | done |
| 11 | `ArrayExpr`, `FortranArrays` (language) and `Descriptors` (builder) | done; extents from reassigned locals (`VersionShapeScalars`) left |
| 12 | `DynamicDispatch` (language) and `Monomorphize` (passes) | done |

The safety properties of `BridgeBuild`, `LoopBody`, `DoLoop`, `AllocBuffers` and
`Wrapper` are all proved, and so are `NeverStuck` of `SdfgEmit` and, for programs
without views and library calls, its `SequentialSemantics` (section 6). The rest stays
with TLC: `UseScopes`, `FortranBodies`, `SdfgRegions`, `OutsideRefs`, `ArrayExpr`,
`DynamicDispatch` and the modules over them interpret programs or expressions
with RECURSIVE operators.

## 3. Modules

### BridgeBuild (`build_bridge.py`)

One process per worker (`ensure_fresh` through the module's `__getattr__`) or
command line (`python -m dace_fortran.build_bridge [--clean]`). `pc` walks the
code: `acquire` (flock), `check` (`needs_build`), `build` (the refusal under
`DACE_FORTRAN_NO_REBUILD`, the wipe of a conflicting or `--clean` directory),
`configure`, `compile`, `write` (the linker is writing), `unlink` / `relink`
(the symlink), `release`, `import`, and `reimport` after the fallback build of
`ensure_bridge`. The disk is `src`, `so`, `linked` and `cached` (the toolchain
in `CMakeCache.txt`). Each process detects a toolchain of its own (`chain`), an
LLVM install with an interpreter. The name of the extension and of its symlink
carries the interpreter's `EXT_SUFFIX` (`SoNameOf`), so `so` and `linked` hold one
of each per name, in one build directory: toolchains that differ in the LLVM
install, or in the path of the interpreter only, share a name, interpreters of
different versions do not. make links the extension of the interpreter in the cache;
a process whose own is missing then raises. `Wipe` is `rmtree`, one entry a step, and
raises when another build changes the directory under it.
`Edit`, `Kill` and `Fail` happen at any moment: a saved source, a process that dies
with its children, a `_detect_dirs` or a cmake call that raises. A kill during the
link either lets make delete its target (SIGINT, SIGTERM) or leaves it half written
(SIGKILL, history variable `torn`). Two linkers writing at once produce a `corrupt`
extension. `started`, `overlap`, `midEdit`, `torn`, `crossed` and `broken` are history
variables.

### StateGraph (`builder/access.py`, `emit_tasklet.py`, `statement_order.py`)

Operators, no variables: the graph of one state as a record of nodes (their
index is the node id the ordering pass relies on), edges, and the access cache.
`Acc`, `EmitTasklet`, `EmitScalarAssign`, `OrderWriters` and `OrderState` follow
the functions of the same names. The exact insertion order of ordering edges is
kept (`InOrder`), because an edge that would close a cycle is skipped and the
outcome depends on which came first. `Ready` is what DaCe's generated code may
run next: any topological order.

### LibraryNodes (`builder/emit_library.py`)

Operators over `StateGraph` for the four ways in which a library node is wired
into a state: `AddCopyNode` and `AddFill` (whole-array copy and fill),
`AddCachedNode` (reductions and intrinsics, blocking MPI, I/O: through the access
nodes of `acc`), `AddUncachedNode` (BLAS, LAPACK, FFT, collectives: through access
nodes of their own that the cache does not know). `Overtakes` recognises a state
in which an intrinsic has stored into a node that was read before it.

### SdfgEmit (`builder/emit_cfg.py` `emit_assign`, `builder/emit_library.py`, `builder/context.py`)

`Emit` translates one statement: an assignment by one of three routes, interstate
edge (`EmitSymbol`), tasklet at once (`EmitArray`), queue (`EmitScalar`); any other
by the action of its emitter (`EmitCopy`, `EmitMemset`, `EmitLibcall`, `EmitIo`,
`EmitMpi`, `EmitCollective`, `EmitBlas`, `EmitLapack`, `EmitFft`), with the new
states, staged scalars and promoted symbols it brings (`StateForWholeWrite`,
`Promotion`). `FinishBuild` flushes and runs `enforce_statement_order`. Then
`RunNode` and `NextState` execute the states in every order the graphs allow.
Values are versions: the number of the statement that wrote last, so a misread is
visible without arithmetic. `Instance` records what sequential Fortran would
read. A file, or the messages of a rank, is one location that calls read and
write (`Outside`), so two calls with effects are ordered like two accesses of one
element.

### LoopBody (`builder/emit_cfg.py` `emit_loop`, flat batch path)

`Write` grows a body, `EmitLoop` lowers it (`Lower`: hazard tests, fast path or
source order, ordering pass), and the region is run `Iterations` times:
assignments on an edge in any order (`RunEdge`), tasklets in any topological
order. An indirect index a(cell(k)) is a symbol loaded on an edge; `idx` holds
the versions of `cell` and `k` at the load.

### DoLoop (`builder/emit_cfg.py` `emit_loop`, `bridge/ast/dispatch.cpp`)

A header is a record of constants: initial value, stride at entry, whether the
stride is a compile-time constant, which of the bound and the stride are bare
names, whether the loop sits in the BEFORE region of an `scf.while`, and the scalars
of which of the two its body assigns. `n` and `m` are what the expressions of bound
and stride are worth now, `end` and `by` what `Hoist` evaluated once; a bare name is
not hoisted, and condition and update read it again. `Enter`, `Test` and `Iterate` are
`initialize_expr`, `condition_expr`, and the body with `update_expr`. `TripCount` is the
Fortran rule.

### AllocBuffers (`bridge/extract_vars.cpp`, `bridge/ast/dispatch.cpp`)

One ALLOCATABLE array. `Allocate`, `Plain`, `If` ... `EndDo` write a routine
statement by statement and take `groupAllocSites`' step with each: `reach` is
its reaching set, `classes` the partition its union-find stands for, `open` the
recursion over regions; `reachAt` records the reaching set in front of every
statement, a history variable that only the proofs read. `Skipped` marks the DEALLOCATEs that `buildAST` leaves
out with the `fir.if` around them. `Bound(p)` is the alias map when the walk
reaches `p`: the walk is in source order and never restores an alias, so it is
the class of the last ALLOCATE above `p`. `RunAllocate` ... `RunEndDo` execute the
routine beside Fortran: `current` is the site Fortran's array came from, `held`
the site that last sized each buffer, `flag` the symbol `<name>_allocated`.
Conditions are opaque and a loop may be left after any iteration or before the
first; a statement that Fortran forbids ends the execution, as the design
(README.md of the repository, section "Allocation-buffer SSA") trusts programs to
conform.

### CallByReference and Wrapper (`bindings/`, `acc_residency.py`, `substitute/make_substitute.py`)

`CallByReference` is the abstract specification: the routine runs on the caller's
storage, statement after statement; between calls the caller writes and
re-associates. `Wrapper` is what is linked in the routine's place: one action
per block of the generated Fortran, in the order `build_wrapper_body`,
`build_wrapper_tail` and `splice_acc_staging` lay them out (`Guard`, `StageIn`,
`Globals`, `StaticGlobals`, `Images`, `Dummies`, `CopyIn`, `AliasMembers`,
`LateSymbols`, `Call`, `Run`, `CloseRegion`, `CopyOut`, `WriteBack`, `Unpack`,
`Unstage`, `Return`), or the original routine when the call is declined
(`Original`). A name is passed in one of ten classes (aliased dummy, optional,
global, static, member, copied, by value, packed, split or kept image); the
`lane` says on which side data lives and how it is moved. `Transfer` executes a
queued UPDATE. `ActsAsRoutine` is `CallByReference!Spec` with the caller's storage
mapped to `Logical`: the container while the SDFG writes it and until it is copied
back, the kept image between calls, else the caller's copy on the side that is
current. `Enter` is the abstract call, and `at`, the next statement, is the abstract
program counter: it stands at the first statement while the wrapper prepares its
containers and behind the last while it copies back, so that only `Run` and
`Original` are abstract statements and every other block stutters.
`Covered` says which bindings the module speaks of (section 7).

### UseScopes (`fparser_inliner.py`, `inliner/ast_desugaring/`)

A program is a record of units, objects, USE statements and references.
`AliasSpecs` and `SearchLocal` are `analysis.alias_specs` and `search_local_alias_spec`;
an action is one pass of `run_fparser_transformations` (`Parse`, `Noop`, `Access`,
`Coarse`, `Drop`, `Interfaces`, `Resolved`, `Unused`, `Dangling`, `Procedures`,
`Variables`, `Restore`). `Binds` is written from the rules of the language and reads
the emitted text the way a compiler does, without the alias map.

### FortranBodies and FoldBodies (`inliner/ast_desugaring/`, body passes)

`FortranBodies` gives statements and expressions a meaning (`Meaning`): GOTO, IF,
DO, WHILE, EXIT, RETURN, ASSOCIATE, calls with optional and keyword arguments,
functions. `FoldBodies` has one action per pass: `Associations`, `DeconstructGoto`
(one GOTO at a time), `InlineSubprograms`, `InlineFunctions`, then the folding loop
`Arguments`, `Locals`, `Nodes`, `Branches` until `Settle` finds nothing changed.

### SdfgRegions and LocalData (`substitute/incall_scratch.py`, `loop_privatization.py`, `loop_scalar_fission.py`)

`SdfgRegions` runs a structured SDFG (states with map scopes, edges, conditionals,
loops, break) from any memory. `LocalData` computes what a call certainly wrote
before each read (`InferScratch`) and makes the module arrays that pass it
transients, gives loops copies of arrays (`PrivatizeLoopLocalArrays`) and of scalars
(`FissionLoopLocalScalars`). Transients then start with junk, and private ones get
fresh junk in every iteration.

### OutsideRefs (`substitute/outside_refs.py`, `auto_scratch.py`)

`Infer` judges the module variables of a program from its scopes and statements
(who may run outside the routine, which names stand for which variable, groups of
pointer-associated variables, escaping addresses). The program then runs with a
call stack (`Start`, `Call`, `Pass`, `Assign`, `Associate`, `TakeAddress`,
`Return`): what a call writes into a scratch variable is lost, a kept variable
lives in the binding's buffer.

### ArrayExpr, FortranArrays and Descriptors (`builder/`)

`FortranArrays` keeps a dope vector per declaration (storage, offset, strides, lower
bounds, extents) and resolves sections, remapped pointers and aliases when they are
associated. `Descriptors` follows `SDFGBuilder.build()`: `Classify`, `Describe`,
`EnterProgram`, `EmitBody`, `Substitute` (offsets baked or collapsed, reserved names
renamed), `CleanUp` (unused symbols and arrays, view extents, zero-initialised
transients), `Sign`, `Call` through a generated binding or directly, then `Step`
runs the SDFG and the Fortran routine side by side. Names are sequences of their
parts between underscores because the builder finds related names by prefix.

### DynamicDispatch and Monomorphize (`inliner/ast_desugaring/monomorphize*.py`)

`DynamicDispatch` runs programs with abstract bases, type-bound procedures,
polymorphic locals, components and pointers, and says what a compiler accepts
(`Compiles`). `Monomorphize` has one action per pass: `Discover`, `RetypeAxis` (one
arm), `Locals`, `Components`, `Interposers`, `Follow` / `NoFlow` (pointer flow through
constructors, cloned per arm, a round at a time), `DummyDispatch`, `Merge`, `Sort`.

The modules whose names end in `MC` hold the instances.

## 4. Runs

| run | shows |
|---|---|
| `bridge_workers` | three workers, up to two LLVM installs under one interpreter and a second interpreter, one worker forbidden to build, one edit, one kill, one failure: `TypeOK`, `QuietSerialized`, `QuietWorkersSucceed`, `FreshImport`, `OneToolchain`, and `EveryoneEnds` |
| `emit_programs` | programs of up to three statements of `AssignCode`, `LibraryCode` or `CallCode`: `SequentialSemantics`, `NeverStuck` |
| `loop_bodies` | every body of `BodyCode`: `SequentialStableBody` |
| `do_trips` | every header, with a body that assigns the scalars of the bound, of the stride, of both or of neither: `ExactForKnown` and `KnownLoopsEnd` |
| `alloc_programs` | every routine of up to nine statements: `ReachingShareBuffer`, and `UsesFindBuffer` on executions in which the array does not enter an ELSE part or an iteration beside an ALLOCATE that the walk meets first or a second time |
| `wrapper_calls` | two names in every pair of classes but one, three routines, five device arrangements, two calls with one change in between: `ActsAsRoutine`, the refinement of `CallByReference` |
| `scope_programs` | three modules with renamed, shadowed, private and generic names, private ones beside others of the same name: `EmittedBinds` |
| `fold_programs` | bodies with jumps, spliced calls and locally constant variables, some handed to calls that write them: `SameMeaning` and the action property `FoldingShrinks`, the reason why the folding loop ends |
| `local_data` | calls and loops that write and read arrays in every combination of a menu: `SameOutputs` |
| `outside_refs` | programs that use a module variable outside the routine in every pair of 16 ways, or reach a helper in five: `ScratchUnobserved`, `KeptUntouched` |
| `descriptors` | 168 routines: `TypeOK`, `AccessesAgree`, `RefusesOnlyUnsupported`, `UnsupportedNeverRuns` |
| `monomorphize` | 1026 programs: `SameBehaviour`, `SameMemory`, `AllStatic` |

Bounds and why they are enough:

- *BridgeBuild*: a race in this protocol involves a process at each of two
  control points, and a third one that changes the disk between them; three
  workers give that. Their toolchains (`Detections`) are every choice up to exchanging
  the two workers that may build and renaming toolchains: one for all, two that share
  an extension name or not, all three. The unlocked command line adds a fourth process
  and is left to the proofs, which have any number of them. One edit makes an extension
  stale once; the properties only compare adjacent versions, so further edits
  repeat the case. One kill suffices to leave the lock free with a half-written
  file, one failure to leave the directory as it was when cmake gave up. The
  proofs remove all these bounds for the safety invariants.
- *SdfgEmit*: three statements are a write, a read and a second write, the
  longest pattern that the cache of live sinks and the ordering pass treat as
  one; up to two operands make a statement read its own target together with
  another name. Library statements come in two further families of programs, of
  the same length, so that each kind of node stands before, between and behind
  assignments to what it reads and writes. One element per array keeps every pair
  of accesses in conflict; `Intersects` still tells an element from a whole-container link of a view.
- *LoopBody*: two iterations show a value that is rotated by one; three
  statements give a definition, a use and a redefinition. Bodies with two symbols
  and an indirect index exercise every hazard test.
- *DoLoop*: bounds from -2 to 3 and strides of up to 3 in both directions give
  empty, single and overshooting ranges, and the body may give the scalars of bound and
  stride any value of theirs, zero included; `MaxTrips` = 8 exceeds the longest trip
  count (6), so no loop of known direction is cut off. It is the cut-off that
  lets TLC finish loops that never leave.

- *AllocBuffers*: nine statements hold the longest pattern the two walks can
  disagree on, an ALLOCATE and an IF whose two parts free and re-allocate with a
  use in the second, and two nested constructs around an ALLOCATE with one before and one
  behind. Two back edges let an iteration meet what the one before it left.
  `alloc_programs` has about five million states and takes a minute; the proofs
  of both properties have no bound.
- *Wrapper*: an error in the wrapper involves two names (one storage, or one
  statement between them) and a second call that finds what the first left; two
  names, two cells, two extents, two calls and one change of the caller's in
  between give every pair. `Values` are the numbers modulo 11, in
  which a value shows the statements that computed it. Queued transfers are checked with routines that
  use nothing the queue still has to bring (see section 7). The proof of
  `ActsAsRoutine` has no bound on names, cells, extents, values, statements, calls or
  changes.
- *UseScopes*: a shadowing chain is at most the scope, its host and two modules
  that import each other's names; the families of `UseScopesMC` vary each link of
  it, and one puts a private name beside others of the same name, its module used
  whole, in part or not at all. Two optimising and two renaming settings select the passes.
- *FoldBodies*: two GOTOs show a pair that nests or crosses; two calls of one
  procedure show an argument that is constant in one and not in the other; every
  three of eleven statements behind an assignment show what makes a variable
  constant and what ends it; kept calls, by position and by keyword, write a variable
  that is known or not. Runs of more than `MaxSteps` (12) steps are cut off in
  both meanings alike.
- *LocalData*: a definition in front, two writers and a reader for scratch; two
  loops, alone, in sequence and in branches, for private copies; scalars are defined in
  front of an inner loop, in it, or read there before they are written. The values of the
  free symbols include the empty range.
- *OutsideRefs*: every pair of 16 uses outside the routine, for a pointer made in
  one and used in the next, and up to `MaxEntries` calls from C, one that leaves an
  address behind and one that uses it.
- *Descriptors*: arrays of one and two dimensions with lower bounds -2 to 3, and views of
  views; the families of `DescriptorsMC` are the builder's own case distinctions.
- *Monomorphize*: two arms distinguish a tag from a constant, two bases let the
  clones of one axis run into the ladders of the other, and five modules give the
  merge something to make circular. A statement may name two containers, or a slot and
  its namesake, and a SELECT TYPE may ask for the type of a base's only arm.

Deadlock checking is on in the first five runs; their specifications have an
explicit final stutter for the states where they really end. It is off
(`CHECK_DEADLOCK FALSE`) in the other seven: a pipeline of passes ends after its
last pass, a program after its last statement, and the caller of `Wrapper` may
make no further call. In every run every action fires.

Each passing property has a mutant in `PROJECT.json`, a plausible bug in the
code, under which TLC finds it violated. Other mutations tried while building
the models: dropping the fresh sink of `emit_tasklet`, anchoring loads at the
access node itself, skipping the flush before a symbol assignment, and dropping
`_overwritten_after_read` or `_conflicts_with_edge` all break sequential
semantics. Dropping the hazard test of `emit_assign` (a new state on RAW, WAR or
WAW) breaks nothing in these programs: the ordering pass makes it redundant.

## 5. Fairness

- `BridgeBuild`: weak fairness of `Step(p)` for every process: the operating
  system keeps scheduling it and cmake terminates. `Edit`, `Kill` and `Fail` are
  not fair. Weak fairness is enough for the flock although other workers may take it
  first, because every worker takes it once.
- `DoLoop`: weak fairness of `Next`: the generated code keeps running.
- `Wrapper`: weak fairness of `Substitute` (a call that is running runs on) and of
  `Transfer` (a queued transfer is executed some time). The caller's actions are
  not fair: it may make no further call.
- The other specifications state no fairness: what they say of ends is safety
  (`NeverStuck`, `FoldingShrinks`, or what holds once the last pass is done).

## 6. Proofs

`BridgeBuildProofs` proves, for any finite or infinite set of workers, command
lines, toolchains and names of extensions and any number of edits, kills and
failures:

- `TypeCorrect`: `TypeOK` is invariant.
- `Freshness`: `FreshImport`. `FreshInv` strengthens it: time stamps never
  exceed `clock`; as long as no edit hit a compilation and no process ran make for an
  interpreter of another name (`crossed`), a process that is writing
  has read the current sources, an extension that is not older than the sources
  was compiled from them, and an extension in front of a process that has
  accepted it (built it, or found it fresh) is at least as new as the sources
  that process saw when it took the lock.
- `Serialization` and `Success`: `QuietSerialized` and `QuietWorkersSucceed`.
  `Quiet` is a tree at rest and interpreters that agree on the extension's name; LLVM
  installs may differ, and workers may fail or be killed in the middle of a wipe or a
  build. `QuietInv` strengthens both: every process between `check`
  and `release` holds the lock, a half-written extension has a live writer, a
  worker at `release`, `import` or `done` implies a complete, linked extension,
  and nobody builds while there is such a worker. Hence the unlocked fallback is
  unreachable (no process is at `reimport`): a worker that released the lock has
  left an importable extension behind, and only an edit, a torn file, the
  command line or an interpreter of another name can take it away. With
  two names both properties fail (section 7).

- `Toolchain`: `OneToolchain`. `ChainInv` strengthens it: an extension carries the
  toolchain the cache was configured with, there is one builder as long as builds
  have not overlapped, and the cache it works with is its own from `compile` on.

The inductive invariant of the first four is `TypeOK /\ FreshInv /\ (Quiet =>
QuietInv)`, that of the last `TypeOK /\ ChainInv`; each conjunct has one step per
action. The assumption used is `BridgeAssumption`.

`DoLoopProofs` proves `TripCounts`: `ExactForKnown` for all integer bounds,
strides and cut-offs. The inductive invariant adds to `TypeOK` that, for a loop
of known direction and steady header, `i = lower + trips * step`, the number of
trips never exceeds `TripCount`, and the bound the condition reads and the stride
the update reads are those at entry, hoisted or read again. The arithmetic (the
quotient is the only number of strides that fits) is isolated in lemmas about one multiplication each, since the SMT backend does not
reason about products of variables. The assumption used is `HeadersAssumption`.

`AllocBuffersProofs` proves `ReachingSitesShareBuffer`: `ReachingShareBuffer` for
routines of any length and nesting. The property is inductive once the types of
the walk's variables are added (`WalkInv`), because it already speaks of the sets
kept for the ELSE and END IF still to come. Two lemmas carry it: `unite` never
splits a set that lies in one class (`UniteCoarsens`), and it puts the two sets
that meet at a join into one class (`UniteJoins`); where one of them is empty,
`mergeBranches` does nothing and the join is the other set. No assumption on the
constants is used.

`AllocBuffersProofs` then proves `UsesGetTheirArray`: `UsesFindBuffer` for routines of any
length and nesting and executions of any length. A use is bound to the ALLOCATE
*walked* last, the array comes from the one that *ran* last, and neither
determines the other; what ties them is the reaching sets, so the inductive
invariant `IInv` has two halves.

- `StaticInv`, about the walk, holds at every step of it and is all that the
  execution needs of the finished routine. `FlowInv` says what each statement and
  each closed construct does to the set in front of it (`Threads`, `Joins`); the heart
  of `Joins` is `Spans`: the set at the end of a part is the set it started from if the
  part has no ALLOCATE, and contains the part's last site if it has one. `OpenInv`
  says the same of the constructs not closed yet, each seen from the one around it,
  which is what makes `Spans` inductive over nesting without recursion: when the
  innermost construct closes, the fact about the part in front of it and the one about
  its body combine to one about the enclosing part (`SpansPart`, `PastConstruct`).
  `SitesInv` adds that the classes are a partition of the ALLOCATEs and that every
  recorded set lies in one class; it extends `WalkInv`.
- `RunInv`, about the execution: the buffer of the array's class was last sized by
  the array's site (`HeldInv`), and, unless `looped` or `crossed`, the array's site is
  in the set in front of the next statement and shares a class with the site walked
  last (`Found`). One lemma per jump shows `Found` behind it. Around an IF the last site
  of the THEN part meets the array's in the set at the END IF (`FoundPastIf`); into an
  ELSE part it meets it there only if one part has no ALLOCATE, which is what `crossed`
  rules out (`FoundInElse`); around a loop, or back to its start, the set is the same
  only if the loop has no ALLOCATE, which is what `looped` rules out
  (`FoundAroundLoop`).

The two conditions in the property are thus exactly what the proof cannot do
without. TLC has checked `IInv` on routines of up to eight statements. No
assumption on the constants is used.

`WrapperProofs` proves `Refinement`: `Spec` implies `ActsAsRoutine`, for any sets of
names, cells, values and extents, any routines, any number of calls and of changes by
the caller (`MaxCalls` and `MaxChanges` play no role). The assumption is
`WrapperAssumption`: the two markers are no cells, statements compute values from
values, and every binding is `Covered`. The abstract specification has no fairness, so
the refinement is safety: the initial states map to initial states, and every step is
an abstract step or leaves `Logical`, `bound` and `at` alone. `Logical` depends on nearly
every variable, so this needs an invariant that says, block by block, where the
value of a cell is:

- `AtInv`, `GuardInv`, `HandleInv`: which statement a block stands at, and what the
  guards have established (`Invariance` proves all of `IInv`).
- `ConformInv` and `HomeInv`: the caller obeys the aliasing rules, and its own copy of
  a cell, on the side where it keeps it, is never undefined. `QueueInv`,
  `StagedInv`: what is queued, and that synchronous updates have arrived.
- `PlacedInv`, `SymbolInv`, `FilledInv`: once its block is done (`Ready`), a name's
  container is the caller's storage or a buffer of the right extent, its symbol is that
  extent, and the buffer of a name the routine uses holds the caller's value.
- `RunInv`: while the SDFG runs, the container of every present name it uses holds the
  value of the cell; this is where two names of one cell have to agree, which they do
  because a written cell under two names is passed in place under both, or
  `build_storage_guard` has declined the call (`SharedInPlace`).
- `KeptInv`, `LogicalInv`: there is no kept image before the first accepted call, and no
  cell's value is undefined.

The argument then follows a call. The blocks in front of `Call` change no value
(`QuietStep`), and at `Call` every container the SDFG uses holds the value of its cell
(`BeforeCall`). A statement of the SDFG reads and writes what the routine's would, one
cell and all its containers (`StoreEffect`, `RunWrites`). Each closing block leaves the
values where they are or moves them to a place that holds the same (`ValuesStay`): out
of the device region, from the buffers, and across the two sides (`CopiedBackWrites`,
`UnstageWrites`). A declined call runs the original on the caller's side
(`OriginalWrites`).

`SdfgEmitProofs` proves two theorems about programs of any length over any names.
`NeverWaits` is `NeverStuck` for all statements that the emitters of section 3 take.
`DirectPrograms` is `SequentialSemantics` for programs whose statements are `Direct`:
assignments to scalars, arrays and symbols, whole-array copies and fills, I/O and
messages, that name no view, and of which only I/O and messages touch a file or the
messages of a rank. The argument is in three modules. First `NeverWaits`:

- `StateGraphProofs`, about any state graph. Induction is made of facts about sets: a
  set of numbers has a least one (`LeastNumber`), a set that holds 0 and the next of
  each of its numbers holds all (`AllNumbers`), so iterations and folds exist and never
  leave a set that their steps keep (`IterationExists`, `FoldExists`, `FoldStays`).
  `Descendants` stops after as many rounds as there are nodes; `DescendantsLeast` shows
  that this is enough: it is the least set that holds the successors and is closed
  under them. From these: an edge that `AddOrder` accepts closes no cycle (`NewEdge`),
  a graph without a cycle always has a node that may run next (`SomeReady`), the
  anchors of an access node are nodes (`AnchorsAreNodes`), and the ordering pass keeps
  the nodes, the edges and the acyclicity of any graph (`OrderStateKeeps`).
- `LibraryNodesProofs`, about what one statement does to the graph of a state. `Graphs(U)`
  are the well-formed graphs over names in `U`: edges join nodes, and the cache binds a
  name to an access node of it. Every emitter maps such a graph to one that
  `Continues` it: the old nodes and edges stay, and no cycle is closed, because the
  code node is led only into nodes that are new or that no edge leaves. The exception
  is `AddCachedNode` for an intrinsic, which stores into the live node even if that has
  been read: there a cycle may be closed, and then the graph `Overtakes`
  (`IntrinsicCarries`), which no later statement undoes (`OvertakenStays`).
- `SdfgEmitProofs`, about the program. `StuckInv` says that every state built so far is a
  well-formed graph or overtaken, and that the queue holds statements that may be
  flushed into one; while the states run it says that those graphs are still acyclic
  and that what has run is part of them. The set of names the graphs are over
  grows with the statements (each may mint a transient of its own), so the
  invariant says that there is one (`LargerUniverse`).

`DirectPrograms` needs more of the same graphs, namely what the edges mean.

- `StateGraphProofs`: in a `Versioned` graph every edge joins an access node and a code
  node, and the access nodes of a container are its successive versions: who writes a
  version comes before who reads it, and who reads or writes it comes before who
  writes the next. `OrderStateParts` follows `OrderState` pair by pair and shows that no
  edge it asks for is refused: every ordering edge leads to a later statement
  (`Rising`), so none closes a cycle, and afterwards two writers of one node are
  ordered (`WritersOrdered`), and the accesses of one version and the writers of a
  later one too (`Parted`).
- `LibraryNodesProofs`: a `Tidy` graph is versioned, its cache names the newest version of
  every container, and its edges are the accesses of its statements. An emitter
  whose statement names no view adds one code node behind all others and keeps the
  graph tidy (`Grows`; `EmitTaskletGrows`, `AddCopyNodeGrows`, `AddFillGrows`,
  `AddCachedNodeGrows`). `ConflictsOrdered` is the result: of two statements of a tidy
  state that touch one location, one of them storing into it, the ordering pass makes the
  earlier one lead to the later one.
- `SdfgEmitProofs`: during the build (`Drafting`) the states are tidy, the numbers of
  the statements rise from node to node and from state to state (`Plan`), those in the
  queue are behind them, and all together are the program so far (`History`): each
  statement knows which versions it has to read. The heart of it is `EmitOutcome`: a
  statement is listed behind all others, waits in the queue, or is `x = x` and
  dropped. During the run (`MemoryInv`) the memory holds what sequential Fortran leaves
  after the statements executed so far. A node that waits for no other is `Due`: what has
  been executed contains all that comes before it and touches what it touches, and
  nothing that comes behind (`ReadyIsDue`, `EntryIsDue`), so it reads the right
  versions (`DueReadsRight`).

The assumptions are `NamesAssumption` (a name has one descriptor, and a view and a section
stand for arrays) and `StatementsAssumption`: statements name what is declared and read
finitely many locations; a minted name is no declared one; `x = x` reads what
it writes; and an item of a READ, or the buffer of a receive, is not also read by the
same call. The last one is `emit_io`'s doing, whose items are all read or all
written, and Fortran's, which forbids the buffer of a receive to be an alias of
another argument.

`LoopBodyProofs` proves `StableBodies`: `SequentialStableBody` for bodies of any length
and any number of iterations, on top of the graphs of `LibraryNodesProofs`. It has
two halves.

- The lowering. What orders the statements of a body is which of them share a state
  or an edge. `Follows(w, v)` says that `w` may come before `v` in the code: of two
  statements that clash, and of two computes, the earlier one does. `Layout` says of a
  region under construction that its segments and the parts of each segment come in
  such an order, that the assignments of one edge do not clash (`EdgeFits`), that
  every index is loaded where its array and its subscript are what its users want
  (`LoadFits`), and that no statement uses an index before it is loaded. Every
  operation of `emit_loop` keeps it: `Close`, `Load`, `AssignOnEdge`, `EmitInLast` (`CloseLays`,
  `LoadLays`, `AssignLays`, `EmitLays`). On the source-order path statements arrive in order
  and only the loads need the property's condition (`EmitInOrderLays`). On the fast path
  loads and symbol assignments overtake the computes, which is right because two of
  the hazard tests have failed (`Hoistable`): nothing hoisted reads what the hoist skips,
  and nothing that has been read is assigned behind (`HoistedLays`, `FastPathLays`).
  The third test (`RepeatedSymbolWrite`) is not needed for it: a symbol assigned twice
  gets two edges, and a read in between fails the second test. `enforce_statement_order`
  then sequences the computes within a state (`PieceSequenced`); the result is
  `LowerIsFaithful`.
- The run. The invariant `LoopInv` says where the run is (`Position`), that the memory
  holds what Fortran has left after the statements executed in this iteration
  (`Remembers`), and that the indices loaded so far are those their users want
  (`Indexed`). A statement that may run next is `Due`: what clashes with it and comes
  before it has been executed, and nothing that comes behind (`EdgeIsDue`, `NodeIsDue`);
  so it reads the right versions and leaves its own (`DueReads`, `DueWrites`). At the end
  of an iteration all have been executed (`SegmentHasRun`), which is the state in which
  the next one starts (`HeldForNext`, `HeldAtStart`).

The assumptions are `NamesAssumption` and `LoopAssumption`: statements name declared
containers, read finitely many locations, and a symbol is assigned no expression
with an index load.

Only model-checked, and why:

- `EveryoneEnds` and `KnownLoopsEnd`: liveness under fairness.
- `SequentialSemantics` for programs that are not direct: an intrinsic may overtake a
  read, and then the property excludes the state (section 7); a view has access nodes
  of its own beside those of its array, and a library call outside the cache has a
  second node of the current version, so neither graph is `Versioned`.
- The properties of `UseScopes`, `FoldBodies`, `LocalData`, `OutsideRefs`, `Descriptors` and
  `Monomorphize`: they compare the meaning of two programs, and those meanings are
  RECURSIVE operators.

## 7. What the properties exclude

Each property holds of the code as it is. Where the code was seen to do
something else than Fortran, its comments or its documentation say, the case is
excluded by a named condition of the property or is left out of the instances.
This section names the lines; `hazards` in `PROJECT.json` repeats those of the first two
lists.

In the properties:

- An intrinsic or a reduction stores into the live access node without a hazard
  test (builder/emit_library.py:451). `s = y; y = sum(a)` reads the new `y`, and
  `a(1) = x; x = sum(a)` makes the state cyclic (`Overtaken`).
- The source-order path of `emit_loop` loads each indirect expression once per
  body (builder/emit_cfg.py:872), so `x = a(cell(k)); k = k + 1; y = a(cell(k))`
  uses the old index twice (`SequentialStableBody`).
- A bound or a stride that is a bare name is not hoisted and is read again in every
  iteration (builder/emit_cfg.py:681 and 716-724): `DO i = 1, n, m` with a body that
  assigns `m` runs another number of times, or for ever (`SteadyHeader`). A negative
  runtime stride is tested with the forward condition (builder/emit_cfg.py:720), and a DO loop with a runtime stride inside
  the BEFORE region of an `scf.while` gets stride 1 (bridge/ast/dispatch.cpp:406)
  (`KnownDirection`).
- The buffer a name is bound to in a THEN part stays bound while the ELSE part is
  walked (bridge/ast/dispatch.cpp:2379), and `groupAllocSites` joins nothing around
  a loop (bridge/extract_vars.cpp:407): a site before the loop and one inside it
  stay apart although both reach the code behind the loop, or the next iteration
  (`crossed` and `looped` in `UsesFindBuffer`).
- `ensure_bridge` falls back to an unlocked `build()` (build_bridge.py:352). With
  an edit between one worker's release and its import two workers run cmake into
  one directory. So they do, on a tree at rest, under two interpreters whose extensions
  have different names (175-191): the second finds its own missing, wipes the
  directory of the first (279, 294), whose symlink now dangles, and the import of the
  first fails into an unlocked build (`Quiet`). `crossed` in `FreshImport` is
  the same conflict between cmake and make of one build, and `overlap` in `OneToolchain`
  any two builds at once.
- Dropping PRIVATE and following a whole USE lets a name made public override a
  declaration of the scope that uses its module
  (inliner/ast_desugaring/cleanup.py:149, analysis.py:284-296; the comment there speaks
  of "unintended shadowing"): with `x` private in A, and B, which uses A, declaring an
  `x` of its own, B's references go to A's (`PrivacyMatters`).
- A variable with a known value stays known behind a call it is handed to by name
  (inliner/ast_desugaring/analysis.py:1727-1735), although "all arguments are writable"
  (1719): `x = 1; CALL h(x); y = y + x` becomes `y = y + 1`. With a keyword the literal
  takes the variable's place in the call (1484-1486) (`KnownWritten`).
- A scalar that only an inner loop writes counts as defined behind it
  (loop_scalar_fission.py:134, against the comment at 119-121), and the second round of
  the fixpoint forgets that the loop's first iteration reads it before (131-139, against
  the docstring at 20-31) (`NoInnerLoopDefines`).
- A statement laddered as a whole that names two containers, or a slot and another
  component of a slot's name, is retargeted by the tag of the first, or not at all
  (inliner/ast_desugaring/monomorphize_rewrite.py:466-481, against 454-458)
  (`Mingled`). A SELECT TYPE of an object that becomes TYPE(arm) by retyping (792-812)
  or in a clone (645-687) is left standing, although flang rejects it (983-986)
  (`StrandedSelect`).

In the instances:

- `acc` keeps a view's access node cached when its source is assigned
  (builder/access.py:247): `a(1) = p(1) + 1; s = p(1)` with `p => a` wires the
  second read to the first view node. A whole-array copy into a view
  (builder/emit_library.py:172) and an external call (builder/emit_library.py:2223)
  leave a stale cache entry in the same way.
- With ASYNC transfers the binding queues UPDATE HOST and reads the host copy
  without a WAIT (bindings/acc_transfers.py:550). `Covered` in `Wrapper` leaves such a
  routine out of the run and of the theorem; it also leaves out a binding with both a
  split and a kept member, whose copies the module does not describe.
- A spliced body that hands an omitted optional on by position to a dummy that is
  OPTIONAL itself loses the whole call
  (inliner/ast_desugaring/specialize_at_source.py:249, `ForwardsOmitted`).
- The renaming passes lose the import of a variable under another name
  (inliner/ast_desugaring/cleanup.py:231, `Renamable`).
- An arm that overrides a binding its base implements too is called through the
  clone of the base's procedure
  (inliner/ast_desugaring/monomorphize_rewrite.py:705), and a clone is keyed by
  procedure and one arm although two CLASS(base) dummies may get different arms
  (line 1287).

Narrower cases, also left out of the instances:

| line | case |
|---|---|
| bindings/loop_copy.py:500 | a split member declines the call after the images were packed, so the next call takes over an image that no call used |
| inliner/ast_desugaring/desugaring.py:985 | a free procedure that is EXTERNAL in one scope and called undeclared in another goes with the first scope |
| inliner/ast_desugaring/desugaring.py:880 | of two backward GOTOs to one label the second stops climbing at the loop made for the first |
| inliner/ast_desugaring/desugaring.py:925 | the condition for a pending jump is joined with .AND. to one that the jump would have skipped |
| inliner/ast_desugaring/analysis.py:1640 | the constant a loop assigns last is known behind it although the loop may run zero times |
| inliner/ast_desugaring/specialize_at_source.py:321 | a logical local given one literal and later a computed value is taken for the literal |
| inliner/ast_desugaring/specialize_at_source.py:526 | the body of a spliced function is put in front of the outermost statement, out of the IF or DO around the reference |
| loop_privatization.py:186 | a symbol assigned once stands for its expression also in a condition evaluated before the assignment |
| loop_privatization.py:83 | the condition of a conditional outside every loop is not counted as a read of the array |
| substitute/incall_scratch.py:467 | a range survives although the body of a loop reassigns a symbol of that loop's bound |
| substitute/outside_refs.py:721 | a procedure that keeps a pointer to its argument is called through a generic name or a binding |
| builder/auto_dim_symbols.py:53 | a direct call of a routine whose assumed-shape array has a reserved name takes 1 for the extent |
| bridge/extract_vars.cpp:3096 | a whole dimension of an allocatable with a lower bound other than 1 is spliced as if it started at 1 |
| builder/descriptors.py:966 | a pointer to a whole array with a lower bound other than 1 gets offset 1 |
| builder/view_extents.py:45 | a view extent first used on an edge is defined before the block that computes its bounds |
| builder/access.py:123 | the subscripts of a section are evaluated again at every access through the dummy |

## 8. Not modelled

MLIR pattern rewrites (`passes/`) without state of their own, text rewriting
(`preprocess.py`), the numerical expansions of library nodes, and DaCe itself,
which is external: its generated code is modelled as any topological order of a
state. Of the components that are modelled:

- `SdfgEmit`: maps, branches and WHILE conditions, external calls, nonblocking MPI
  (a statement behind MPI_WAIT joins its state without an order behind the wait),
  copies into views, complex component aliases. `LoopBody`: nested indirections,
  views and bodies with more than assignments.
- `DoLoop`: integer width; the type DaCe gives `bound + 1` is not decided in this
  repository.
- `AllocBuffers`: components, SOURCE= and MOLD=, `scf.while` regions. The
  allocation status is a variable of the model (`flag`) that no run compares with
  Fortran's.
- `Wrapper`: signature hashing, C prototypes, several elements per name, a split
  and a kept member in one binding.
- `UseScopes` and `FoldBodies`: parsing, flags and files, arrays in bodies.
- `Monomorphize`: the 63-character limit on clone names and its hash, dispatch of
  function references, the errors of an explicit specification, DEALLOCATE.
- `Descriptors`: a second call of one SDFG, SAVE variables, subscripts of a section
  that change while it is associated.
- `OutsideRefs`: a procedure that keeps a pointer to its argument and is called
  through a generic name or a binding.

`PROJECT.json` lists under `components` what is left of each part.
