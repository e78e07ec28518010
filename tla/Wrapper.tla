------------------------------ MODULE Wrapper ------------------------------
(***************************************************************************)
(* A substitute for one routine: the stand-in dace_sub_<entry> the linker  *)
(* puts in the routine's place (emit_substitute_entry) and the binding     *)
(* <entry>_dace it calls (emit_bindings).  One action per block of the     *)
(* generated Fortran, in the order build_wrapper_body, build_wrapper_tail  *)
(* and splice_acc_staging lay the blocks out: the guards, the staging of   *)
(* device data, the containers of the SDFG (aliases of the caller's        *)
(* storage, or buffers of the wrapper), their extent symbols, the call,    *)
(* the copies back.  The SDFG runs the routine's statements on its         *)
(* containers; a call the binding declines is left to the original.        *)
(*                                                                         *)
(* A name has one element, and a cell a value and an extent (what its      *)
(* ALLOCATE gave it).  The member of an element of an array of records is  *)
(* a name of its own.                                                      *)
(***************************************************************************)
EXTENDS Integers, Sequences, FiniteSets

CONSTANTS
    Args, Cells, Absent, Apply(_, _),
    Bindings,       \* the bindings this instance covers: how each name is passed, the routine, the lane
    Starts,         \* the associations the first call may find
    Values,         \* what a cell can hold
    Extents,        \* the extents a cell can have
    FirstExtent,    \* the one it starts with
    MaxCalls,       \* bound on the calls
    MaxChanges      \* bound on what the caller does between the calls

VARIABLES
    how, code, lane,        \* the binding: how it passes each name, the routine, the device arrangement
    bound, extent, scalar,  \* the caller: names -> cells, cells -> extents, a configuration value
    host, dev,              \* the two copies of every cell
    pc, at,                 \* the block of the substitute, the next statement of the routine (0: not called)
    view,                   \* name -> the SDFG's container: a cell, or Own
    own, ownExt,            \* the buffers of the wrapper; extent 0: not allocated
    sym,                    \* name -> the extent symbol handed to the SDFG; 0: not assigned
    region,                 \* the device copies of the DATA region: container -> value
    pending,                \* transfers queued with ASYNC that have not run
    count, handle,          \* init_count, dace_handle
    took,                   \* dace_took: the binding has taken a call
    calls, changes

callerVars == <<bound, extent, scalar, host, dev>>
containers == <<view, own, ownExt, sym>>
fixed == <<how, code, lane>>
bounds == <<calls, changes>>
vars == <<fixed, callerVars, pc, at, containers, region, pending, count, handle, took, bounds>>

Own == 0        \* not a cell
Wild == -1      \* what an access outside its container yields, and a copy nobody keeps up to date
Zero == 0       \* what a buffer for absent data is filled with
Baked == 0      \* the configuration value the SDFG was specialised to

-----------------------------------------------------------------------------
(* How an argument is passed.  "dummy": an array dummy; "optional": an     *)
(* OPTIONAL one; "global": a deferred module array with TARGET; "static":  *)
(* a module array without it, or of fixed shape; "member": a pointer or    *)
(* allocatable member the flatten plan aliases; "copied": one it deep      *)
(* copies; "value": a value member it deep copies; "packed": the member of *)
(* an element of an array of records; "split": one handed over element by  *)
(* element; "kept": one whose image the wrapper keeps between calls.       *)
Classes == {"dummy", "optional", "global", "static", "member", "copied", "value", "packed", "split", "kept"}

\* Where the caller's data live: on the host, with offloading of the SDFG's containers, on the device with
\* updates that are queued or not, or on the device, where the SDFG takes them.
Lanes == {"host", "offload", "icon_acc", "icon_omp", "device"}

\* The bindings this module speaks of.  A binding that hands over one array of records element by element
\* keeps no image of another, and a routine uses nothing whose transfers are queued (README, section 7).
Covered(b) ==
    /\ ~\E a, c \in Args : b.how[a] = "split" /\ b.how[c] = "kept"
    /\ b.lane = "icon_acc" =>
          \A i \in DOMAIN b.code : {b.how[b.code[i].dst], b.how[b.code[i].src]} \subseteq {"global", "static", "kept"}

ASSUME WrapperAssumption ==
    /\ Own \notin Cells /\ Absent \notin Cells \cup {Own}
    /\ Starts \subseteq [Args -> Cells \cup {Absent}]
    /\ Extents \subseteq Nat \ {0} /\ FirstExtent \in Extents
    /\ Zero \in Values /\ Wild \notin Values
    /\ \A c \in Cells : Apply(0, c) \in Values
    /\ \A b \in Bindings :
          /\ b \in [how : [Args -> Classes], code : Seq([dst : Args, src : Args]), lane : Lanes]
          /\ \A i \in 0 .. Len(b.code), v \in Values : Apply(i, v) \in Values
          /\ Covered(b)

-----------------------------------------------------------------------------
Written(a) == \E i \in DOMAIN code : code[i].dst = a
Present(a) == bound[a] # Absent
MayBeAbsent(a) == how[a] \in {"optional", "global", "member", "copied", "packed", "split", "kept"}

\* The SDFG takes the caller's storage itself: aliases, and in the device lane a module array's address.
InPlace(a) ==
    \/ how[a] \in {"dummy", "optional", "global", "member", "split"}
    \/ how[a] = "static" /\ lane = "device"

\* Where the caller keeps the data: plan_acc_transfers crosses the dummies only, and
\* plan_device_resident_caller leaves on the host what the wrapper deep copies there.
OnDevice(a) ==
    \/ lane \in {"icon_acc", "icon_omp"} /\ how[a] \notin {"global", "static", "kept"}
    \/ lane = "device" /\ how[a] \notin {"copied", "value"}
Resident == {c \in Cells : \E a \in Args : bound[a] = c /\ OnDevice(a)}

\* Containers the SDFG reaches through the DATA region around its call.
InRegion(a) == lane = "offload" \/ (lane = "device" /\ how[a] \in {"copied", "value"})

\* storage_guard.py: a member handed over apart from its record, or an array taken in place.
Member(a) == how[a] \in {"member", "copied", "packed", "split", "kept"}
\* The clash matrix of dace_spans_overlap.
Clash(a, b) == (Member(a) \/ Member(b)) /\ (Written(a) \/ Written(b))
SharesStorage == \E a, b \in Args : a # b /\ Present(a) /\ bound[a] = bound[b] /\ Clash(a, b)

-----------------------------------------------------------------------------
(* Containers.                                                             *)

SizeOf(a) ==
    CASE view[a] = Own -> ownExt[a]
      [] view[a] \in Cells -> extent[view[a]]
      [] OTHER -> 0

\* The memory the wrapper itself works with: the device's in the device lane, except for what it deep copies.
OnHost(a) == lane # "device" \/ InRegion(a)
Side(a) == IF OnHost(a) THEN host ELSE dev
Behind(a) ==
    CASE view[a] = Own -> own[a]
      [] view[a] \in Cells -> Side(a)[view[a]]
      [] OTHER -> Wild

\* What the kernel finds in a container.
Reachable(a) == sym[a] = SizeOf(a) /\ handle # 0
Holds(a) == IF ~Reachable(a) THEN Wild ELSE IF InRegion(a) THEN region[a] ELSE Behind(a)

\* A kept image is the routine's own copy of its members.
Image(a) == how[a] = "kept" /\ Present(a) /\ ownExt[a] # 0 /\ ownExt[a] = extent[bound[a]]

-----------------------------------------------------------------------------
(* What Fortran and the code's documentation require of a caller.          *)

Conforming(b) ==
    /\ \A a \in Args : b[a] = Absent => MayBeAbsent(a)
    /\ \A a, c \in Args : b[a] # Absent /\ b[a] = b[c] /\ a # c =>
          /\ OnDevice(a) = OnDevice(c)
          \* argument aliasing (15.5.2.13): storage two in-place arrays share is not written, unless the
          \* SDFG takes both where they are
          /\ \/ Clash(a, c)
             \/ ~(Written(a) \/ Written(c))
             \/ InPlace(a) /\ InPlace(c) /\ lane # "offload"
          \* nothing but the routine uses the members of a kept image
          /\ how[a] # "kept"

Init ==
    /\ \E b \in Bindings : how = b.how /\ code = b.code /\ lane = b.lane
    /\ bound \in Starts /\ Conforming(bound)
    /\ extent = [c \in Cells |-> FirstExtent]
    /\ scalar = Baked
    /\ host = [c \in Cells |-> IF c \in Resident THEN Wild ELSE Apply(0, c)]
    /\ dev = [c \in Cells |-> IF c \in Resident THEN Apply(0, c) ELSE Wild]
    /\ pc = "idle" /\ at = 0
    /\ view = [a \in Args |-> Absent] /\ own = [a \in Args |-> Wild]
    /\ ownExt = [a \in Args |-> 0] /\ sym = [a \in Args |-> 0]
    /\ region = [a \in Args |-> Wild] /\ pending = {}
    /\ count = 0 /\ handle = 0 /\ took = FALSE
    /\ calls = 0 /\ changes = 0

-----------------------------------------------------------------------------
(* The caller, between two calls.                                          *)

Home(c) == IF c \in Resident THEN dev[c] ELSE host[c]
CallerWrites(c, v) ==
    /\ host' = IF c \in Resident THEN host ELSE [host EXCEPT ![c] = v]
    /\ dev' = IF c \in Resident THEN [dev EXCEPT ![c] = v] ELSE dev

Idle(next) ==
    /\ pc = "idle" /\ pc' = next
    /\ UNCHANGED <<fixed, containers, region, pending, handle, took>>

\* A pointer assignment: only to storage the caller keeps on the same side.
Reassociate ==
    /\ Idle("idle") /\ changes < MaxChanges /\ changes' = changes + 1
    /\ \E a \in Args, c \in Cells \cup {Absent} :
          /\ how[a] # "kept"
          /\ bound' = [bound EXCEPT ![a] = c]
          /\ Conforming(bound') /\ Resident' = Resident
    /\ UNCHANGED <<extent, scalar, host, dev, at, count, calls>>

\* A reallocation brings another extent and new contents.
Reallocate ==
    /\ Idle("idle") /\ changes < MaxChanges /\ changes' = changes + 1
    /\ \E c \in Cells, e \in Extents :
          /\ e # extent[c] /\ \E a \in Args : bound[a] = c
          /\ extent' = [extent EXCEPT ![c] = e]
          /\ CallerWrites(c, Apply(0, Home(c)))
    /\ UNCHANGED <<bound, scalar, at, count, calls>>

Reconfigure ==
    /\ Idle("idle") /\ changes < MaxChanges /\ changes' = changes + 1
    /\ scalar' = 1 - scalar
    /\ UNCHANGED <<bound, extent, host, dev, at, count, calls>>

\* <entry>_dace_finalize.
Finalize ==
    /\ pc = "idle" /\ count > 0
    /\ count' = count - 1
    /\ handle' = IF count' = 0 THEN 0 ELSE handle
    /\ UNCHANGED <<fixed, callerVars, pc, at, containers, region, pending, took, bounds>>

-----------------------------------------------------------------------------
(* The stand-in and the guards.                                            *)

Block(from, to) == pc = from /\ pc' = to

\* Declined: the original runs, unless the binding keeps images that it has already used.
Decline == pc' = IF took /\ \E a \in Args : how[a] = "kept" THEN "stopped" ELSE "original"

Enter ==
    /\ Idle("guard") /\ calls < MaxCalls /\ calls' = calls + 1
    /\ at' = 1
    /\ UNCHANGED <<callerVars, count, changes>>

\* The entry's checks of baked values and build_specialization_guard.
Specialised == scalar = Baked

\* The guards, in the binding's order; build_storage_guard is the last.
Guard ==
    /\ pc = "guard"
    /\ IF ~Specialised \/ SharesStorage
       THEN Decline
       ELSE pc' = "stage"
    /\ UNCHANGED <<fixed, callerVars, at, containers, region, pending, count, handle, took, bounds>>

\* WAIT(1), then UPDATE HOST ASYNC(1): queued, and synchronous only in OpenMP.
StageIn ==
    /\ Block("stage", "globals")
    /\ pending' = IF lane = "icon_acc" THEN {c \in Cells : \E a \in Args : bound[a] = c /\ OnDevice(a)} ELSE {}
    /\ host' = IF lane = "icon_omp" THEN [c \in Cells |-> Home(c)] ELSE host
    /\ UNCHANGED <<fixed, bound, extent, scalar, dev, at, containers, region, count, handle, took, bounds>>

Transfer ==
    /\ \E c \in pending :
          /\ host' = [host EXCEPT ![c] = dev[c]]
          /\ pending' = pending \ {c}
    /\ UNCHANGED <<fixed, bound, extent, scalar, dev, pc, at, containers, region, count, handle, took, bounds>>

-----------------------------------------------------------------------------
(* The containers.                                                         *)

\* Alias the caller's storage; a name the caller left absent gets a one-element buffer.
Aliased(S) ==
    /\ view' = [a \in Args |-> IF a \in S THEN IF Present(a) THEN bound[a] ELSE Own ELSE view[a]]
    /\ ownExt' = [a \in Args |-> IF a \in S /\ ~Present(a) THEN 1 ELSE ownExt[a]]
    /\ own' = [a \in Args |-> IF a \in S /\ ~Present(a) THEN Zero ELSE own[a]]

\* A buffer has the members' bounds, one element where the caller has nothing, and their contents, zero there.
NewExtent(a) == IF Present(a) THEN extent[bound[a]] ELSE 1
NewContents(a) == IF Present(a) THEN Side(a)[bound[a]] ELSE Zero

\* The containers of S are buffers of the wrapper; those of New are allocated and filled.
Buffered(S, New) ==
    /\ view' = [a \in Args |-> IF a \in S THEN Own ELSE view[a]]
    /\ ownExt' = [a \in Args |-> IF a \in New THEN NewExtent(a) ELSE ownExt[a]]
    /\ own' = [a \in Args |-> IF a \in New THEN NewContents(a) ELSE own[a]]
Copied(S) == Buffered(S, S)

Of(classes) == {a \in Args : how[a] \in classes}

\* Symbols read from the caller's own arrays come before the buffers, those of a buffer after it.
EarlySymbols == {"dummy", "optional", "global", "static"}
Symbols(S) ==
    sym' = [a \in Args |-> IF a \in S THEN NewExtent(a) ELSE sym[a]]

\* Symbols of the caller's arrays, and the module variables: aliased, or copied in.
Globals ==
    /\ Block("globals", "static")
    /\ Symbols(Of(EarlySymbols))
    /\ Aliased(Of({"global"}) \cup {a \in Of({"static"}) : InPlace(a)})
    /\ UNCHANGED <<fixed, callerVars, at, region, pending, count, handle, took, bounds>>

StaticGlobals ==
    /\ Block("static", "images")
    /\ Copied({a \in Of({"static"}) : ~InPlace(a)})
    /\ UNCHANGED <<fixed, callerVars, at, sym, region, pending, count, handle, took, bounds>>

\* _render_aos_copy_in: a kept image is packed only when there is none of the members' shape.
ImageFitsAnyShape(a) == ownExt[a] # 0
ImageFits(a) == ownExt[a] # 0 /\ ownExt[a] = NewExtent(a)
Images ==
    /\ Block("images", "dummies")
    /\ Buffered(Of({"packed", "kept"}), Of({"packed"}) \cup {a \in Of({"kept"}) : ~ImageFits(a)})
    /\ UNCHANGED <<fixed, callerVars, at, sym, region, pending, count, handle, took, bounds>>

Dummies ==
    /\ Block("dummies", "copyin")
    /\ Aliased(Of({"dummy", "optional"}))
    /\ UNCHANGED <<fixed, callerVars, at, sym, region, pending, count, handle, took, bounds>>

\* An array of records handed over element by element declines an absent element.
SplitRefused == \E a \in Of({"split"}) : ~Present(a)

\* The flatten entries: aliased, deep copied, or element by element.
CopyIn ==
    /\ pc = "copyin"
    /\ IF SplitRefused
       THEN Decline /\ UNCHANGED <<view, own, ownExt>>
       ELSE pc' = "alias" /\ Copied(Of({"copied", "value"}))
    /\ UNCHANGED <<fixed, callerVars, at, sym, region, pending, count, handle, took, bounds>>

AliasMembers ==
    /\ Block("alias", "symbols")
    /\ Aliased(Of({"member", "split"}))
    /\ UNCHANGED <<fixed, callerVars, at, sym, region, pending, count, handle, took, bounds>>

\* Symbols read off the buffers.
LateSymbols ==
    /\ Block("symbols", "call")
    /\ sym' = [a \in Args |-> IF how[a] \in EarlySymbols THEN sym[a] ELSE SizeOf(a)]
    /\ UNCHANGED <<fixed, callerVars, at, view, own, ownExt, region, pending, count, handle, took, bounds>>

-----------------------------------------------------------------------------
(* The call.                                                               *)

\* The first call opens the handle; the DATA region copies in what its clauses say.
Call ==
    /\ Block("call", "run")
    /\ handle' = IF count = 0 THEN 1 ELSE handle
    /\ count' = count + 1
    /\ region' = [a \in Args |-> IF InRegion(a) THEN Behind(a) ELSE Wild]
    /\ UNCHANGED <<fixed, callerVars, at, containers, pending, took, bounds>>

\* One statement of the SDFG, if the call's path has it.
Store(a, v) ==
    IF InRegion(a)
    THEN region' = [region EXCEPT ![a] = v] /\ UNCHANGED <<own, host, dev>>
    ELSE /\ UNCHANGED region
         /\ own' = IF view[a] = Own THEN [own EXCEPT ![a] = v] ELSE own
         /\ host' = IF view[a] # Own /\ lane # "device" THEN [host EXCEPT ![view[a]] = v] ELSE host
         /\ dev' = IF view[a] # Own /\ lane = "device" THEN [dev EXCEPT ![view[a]] = v] ELSE dev

Run ==
    /\ pc = "run" /\ at <= Len(code)
    /\ at' = at + 1
    /\ \/ UNCHANGED <<own, host, dev, region>>
       \/ LET s == code[at]
              sane == Specialised /\ Holds(s.src) # Wild /\ sym[s.dst] = SizeOf(s.dst)
          IN  /\ Present(s.dst) /\ Present(s.src)
              /\ Store(s.dst, IF sane THEN Apply(at, Holds(s.src)) ELSE Wild)
    /\ UNCHANGED <<fixed, bound, extent, scalar, pc, view, ownExt, sym, pending, count, handle, took, bounds>>

\* The DATA region ends: COPY and COPYOUT clauses come back, COPYIN (not written) does not.
CloseRegion ==
    /\ pc = "run" /\ at = Len(code) + 1 /\ pc' = "copyout"
    /\ LET back == {a \in Args : InRegion(a) /\ Written(a)}
       IN  /\ own' = [a \in Args |-> IF a \in back /\ view[a] = Own THEN region[a] ELSE own[a]]
           /\ host' = [c \in Cells |-> IF \E a \in back : view[a] = c
                                        THEN region[CHOOSE a \in back : view[a] = c] ELSE host[c]]
    /\ UNCHANGED <<fixed, bound, extent, scalar, dev, at, view, ownExt, sym, region, pending, count, handle, took, bounds>>

\* Copy buffers back to the caller's storage and release them.
CopiedBack(S) ==
    /\ host' = [c \in Cells |-> IF \E a \in S : Present(a) /\ Written(a) /\ bound[a] = c /\ OnHost(a)
                                 THEN own[CHOOSE a \in S : Written(a) /\ bound[a] = c] ELSE host[c]]
    /\ dev' = [c \in Cells |-> IF \E a \in S : Present(a) /\ Written(a) /\ bound[a] = c /\ ~OnHost(a)
                                THEN own[CHOOSE a \in S : Written(a) /\ bound[a] = c] ELSE dev[c]]
    /\ ownExt' = [a \in Args |-> IF a \in S THEN 0 ELSE ownExt[a]]
    /\ UNCHANGED <<fixed, bound, extent, scalar, at, view, own, sym, region, pending, count, handle, took, bounds>>

CopyOut == Block("copyout", "writeback") /\ CopiedBack(Of({"copied", "value"}))
WriteBack == Block("writeback", "unpack") /\ CopiedBack({a \in Of({"static"}) : view[a] = Own})
Unpack == Block("unpack", "unstage") /\ CopiedBack(Of({"packed"}))

\* UPDATE DEVICE of what the SDFG wrote, then WAIT: every queued transfer has run.
Unstage ==
    /\ Block("unstage", "return") /\ pending = {}
    /\ dev' = [c \in Cells |-> IF /\ lane \in {"icon_acc", "icon_omp"}
                                   /\ \E a \in Args : bound[a] = c /\ OnDevice(a) /\ Written(a)
                                THEN host[c] ELSE dev[c]]
    /\ UNCHANGED <<fixed, bound, extent, scalar, host, at, containers, region, pending, count, handle, took, bounds>>

Return ==
    /\ Block("return", "idle")
    /\ at' = 0 /\ took' = TRUE
    /\ view' = [a \in Args |-> Absent] /\ sym' = [a \in Args |-> 0]
    /\ ownExt' = [a \in Args |-> IF how[a] = "kept" THEN ownExt[a] ELSE 0]
    /\ region' = [a \in Args |-> Wild]
    /\ UNCHANGED <<fixed, callerVars, own, pending, count, handle, bounds>>

-----------------------------------------------------------------------------
(* The original, when the binding declined.                                *)

Original ==
    /\ pc = "original" /\ at <= Len(code)
    /\ at' = at + 1
    /\ \/ UNCHANGED <<host, dev>>
       \/ LET s == code[at]
          IN  /\ Present(s.dst) /\ Present(s.src)
              /\ CallerWrites(bound[s.dst], Apply(at, Home(bound[s.src])))
    /\ UNCHANGED <<fixed, bound, extent, scalar, pc, containers, region, pending, count, handle, took, bounds>>

ReturnOriginal ==
    /\ pc = "original" /\ at = Len(code) + 1
    /\ pc' = "idle" /\ at' = 0
    /\ view' = [a \in Args |-> Absent] /\ sym' = [a \in Args |-> 0]
    /\ ownExt' = [a \in Args |-> IF how[a] = "kept" THEN ownExt[a] ELSE 0]
    /\ UNCHANGED <<fixed, callerVars, own, region, pending, count, handle, took, bounds>>

Caller == Reassociate \/ Reallocate \/ Reconfigure \/ Finalize \/ Enter
Substitute ==
    \/ Guard \/ StageIn \/ Globals \/ StaticGlobals \/ Images \/ Dummies \/ CopyIn \/ AliasMembers \/ LateSymbols
    \/ Call \/ Run \/ CloseRegion \/ CopyOut \/ WriteBack \/ Unpack \/ Unstage \/ Return
    \/ Original \/ ReturnOriginal
Next == Caller \/ Substitute \/ Transfer

\* A call runs on, and a queued transfer is executed; the caller may make no further call.
Spec == Init /\ [][Next]_vars /\ WF_vars(Substitute) /\ WF_vars(Transfer)

-----------------------------------------------------------------------------
(* Refinement.  Where the current value of a cell is: in the container of  *)
(* a name the SDFG writes while it runs and until it is copied back, in a  *)
(* kept image between calls, else where the caller keeps it.               *)

CopiedYet(a) ==
    \/ pc \in {"writeback", "unpack", "unstage"} /\ how[a] \in {"copied", "value"}
    \/ pc \in {"unpack", "unstage"} /\ how[a] = "static"
    \/ pc = "unstage" /\ how[a] = "packed"
Current(a) ==
    IF pc = "run" /\ InRegion(a) THEN region[a]
    ELSE IF view[a] = Own /\ ~CopiedYet(a) THEN own[a]
    ELSE Side(a)[bound[a]]
Writers(c) ==
    {a \in Args : /\ bound[a] = c /\ Written(a)
                  /\ pc \in {"run", "copyout", "writeback", "unpack", "unstage"}}
Logical ==
    [c \in Cells |->
        IF Writers(c) # {} THEN Current(CHOOSE a \in Writers(c) : TRUE)
        ELSE IF \E a \in Args : bound[a] = c /\ Image(a) THEN own[CHOOSE a \in Args : bound[a] = c /\ Image(a)]
        ELSE Home(c)]

Routine == INSTANCE CallByReference WITH store <- Logical

\* A substitute computes on the caller's storage what the routine would, whatever the aliases, copies,
\* images, device copies and declined calls on the way (emit_substitute_entry, emit_bindings).
ActsAsRoutine == Routine!Spec
=============================================================================
