--------------------------- MODULE WrapperProofs ---------------------------
(***************************************************************************)
(* A substitute implements the routine it stands for (ActsAsRoutine), for  *)
(* any names, cells, values, bindings and number of calls.                 *)
(*                                                                         *)
(* IInv says, block by block, where the value of a cell is: on the side    *)
(* where the caller keeps it until the SDFG runs, in the container of      *)
(* every name that stands for it while the SDFG runs, and from then on in  *)
(* the container of the name that was written, until that is copied back.  *)
(***************************************************************************)
EXTENDS Wrapper, TLAPS

Memory == Values \cup {Wild}

\* The blocks, in groups that end with the copies back.
Closing == {"copyout", "writeback", "unpack", "unstage"}
Running == {"run"} \cup Closing
FromCall == {"call"} \cup Running
FromSymbols == {"symbols"} \cup FromCall
FromAlias == {"alias"} \cup FromSymbols
FromCopyIn == {"copyin"} \cup FromAlias
FromDummies == {"dummies"} \cup FromCopyIn
FromImages == {"images"} \cup FromDummies
FromStatic == {"static"} \cup FromImages
FromGlobals == {"globals"} \cup FromStatic
Accepted == {"stage"} \cup FromGlobals
Blocks == {"idle", "guard", "return", "original", "stopped"} \cup Accepted

TypeOK ==
    /\ how \in [Args -> Classes] /\ code \in Seq([dst : Args, src : Args]) /\ lane \in Lanes
    /\ bound \in [Args -> Cells \cup {Absent}] /\ extent \in [Cells -> Nat \ {0}] /\ scalar \in {0, 1}
    /\ host \in [Cells -> Memory] /\ dev \in [Cells -> Memory]
    /\ pc \in Blocks /\ at \in Nat
    /\ view \in [Args -> Cells \cup {Own, Absent}] /\ own \in [Args -> Memory]
    /\ ownExt \in [Args -> Nat] /\ sym \in [Args -> Nat]
    /\ region \in [Args -> Memory] /\ pending \subseteq Cells
    /\ count \in Nat /\ handle \in {0, 1} /\ took \in BOOLEAN

BindingInv == [how |-> how, code |-> code, lane |-> lane] \in Bindings

\* The statement the routine is at.
AtInv ==
    /\ pc = "idle" => at = 0
    /\ pc \in ({"guard", "stopped"} \cup Accepted) \ Running => at = 1
    /\ pc \in {"run", "original"} => at \in 1 .. Len(code) + 1
    /\ pc \in {"return"} \cup Closing => at = Len(code) + 1

\* The caller: it conforms, its own copies are never wild, and only what it keeps on the device is queued.
ConformInv == Conforming(bound)
HomeInv == \A c \in Cells : Home(c) \in Values
QueueInv == pending \subseteq Resident /\ (pending # {} => lane = "icon_acc")

\* The guards have been passed, and the SDFG is initialised while it runs.
GuardInv == pc \in Accepted => Specialised /\ ~SharesStorage
HandleInv == (count = 0 <=> handle = 0) /\ (pc = "run" => handle # 0)

\* Synchronous updates have brought the host copies up to date.
StagedInv == lane = "icon_omp" /\ pc \in FromGlobals \ Running => \A c \in Cells : host[c] = Home(c)

\* The blocks that give name a its container are done.
Ready(a) ==
    \/ pc \in FromSymbols
    \/ pc \in FromAlias /\ how[a] \notin {"member", "split"}
    \/ pc \in FromCopyIn /\ how[a] \in {"dummy", "optional", "global", "static", "packed", "kept"}
    \/ pc \in FromDummies /\ how[a] \in {"global", "static", "packed", "kept"}
    \/ pc \in FromImages /\ how[a] \in {"global", "static"}
    \/ pc \in FromStatic /\ (how[a] = "global" \/ (how[a] = "static" /\ InPlace(a)))

\* The container is the caller's storage or a buffer, a buffer has the members' extent, and its symbol is right.
PlacedInv ==
    \A a \in Args : Ready(a) =>
        /\ view[a] = IF InPlace(a) /\ Present(a) THEN bound[a] ELSE Own
        /\ view[a] = Own /\ ~CopiedYet(a) => ownExt[a] = NewExtent(a)
SymbolInv ==
    /\ pc \in FromStatic => \A a \in Args : how[a] \in EarlySymbols => sym[a] = NewExtent(a)
    /\ pc \in {"call", "run"} => \A a \in Args : sym[a] = SizeOf(a)

\* Before the SDFG runs, a buffer of a name it uses holds what the caller has.
Used(a) == \E i \in DOMAIN code : code[i].dst = a \/ code[i].src = a
FilledInv ==
    \A a \in Args :
        Ready(a) /\ pc \notin Running /\ Present(a) /\ Used(a) /\ view[a] = Own /\ how[a] # "kept" => own[a] = Home(bound[a])

\* While it runs, the container of a name it uses holds the value of the cell.
Container(a) == IF InRegion(a) THEN region[a] ELSE Behind(a)
RunInv == pc = "run" => \A a \in Args : Present(a) /\ Used(a) => Container(a) = Logical[bound[a]]

\* There is no kept image before the binding has taken a call, and the original runs only then.
KeptInv ==
    \A a \in Args : how[a] = "kept" =>
        /\ ~took /\ pc \in {"idle", "guard", "stage", "globals", "static", "images", "original"} => ownExt[a] = 0
        /\ pc = "original" => ~took
        /\ Present(a) /\ ownExt[a] # 0 => own[a] \in Values

\* The value of a cell is never wild.
LogicalInv == \A c \in Cells : Logical[c] \in Values

\* What the blocks establish one after the other, and what that makes of the values.
Base ==
    /\ TypeOK /\ BindingInv /\ AtInv
    /\ ConformInv /\ QueueInv
    /\ GuardInv /\ HandleInv /\ StagedInv
    /\ PlacedInv /\ SymbolInv /\ FilledInv
IInv == Base /\ HomeInv /\ KeptInv /\ LogicalInv /\ RunInv

-----------------------------------------------------------------------------
(* Types.                                                                  *)

USE DEF Closing, Running, FromCall, FromSymbols, FromAlias, FromCopyIn, FromDummies, FromImages, FromStatic, FromGlobals,
        Accepted

\* What the helpers on containers return.
LEMMA OperatorTypes ==
    TypeOK => \A a \in Args :
                 /\ Side(a) \in [Cells -> Memory]
                 /\ NewExtent(a) \in Nat \ {0} /\ NewContents(a) \in Memory
                 /\ SizeOf(a) \in Nat
                 /\ Behind(a) \in Memory /\ Holds(a) \in Memory
<1> SUFFICES ASSUME TypeOK, NEW a \in Args
             PROVE  /\ Side(a) \in [Cells -> Memory]
                    /\ NewExtent(a) \in Nat \ {0} /\ NewContents(a) \in Memory
                    /\ SizeOf(a) \in Nat
                    /\ Behind(a) \in Memory /\ Holds(a) \in Memory
    OBVIOUS
<1>1. Side(a) \in [Cells -> Memory]
    BY DEF TypeOK, Side
<1>2. NewExtent(a) \in Nat \ {0} /\ NewContents(a) \in Memory
    BY <1>1, WrapperAssumption DEF TypeOK, NewExtent, NewContents, Present, Memory
<1>3. SizeOf(a) \in Nat
    BY DEF TypeOK, SizeOf
<1>4. Behind(a) \in Memory
    BY <1>1 DEF TypeOK, Behind, Memory
<1>5. Holds(a) \in Memory
    BY <1>4 DEF TypeOK, Holds, Memory
<1> QED
    BY <1>1, <1>2, <1>3, <1>4, <1>5

\* The caller's copy of a cell is memory.
LEMMA HomeType == TypeOK => \A c \in Cells : Home(c) \in Memory
    BY DEF TypeOK, Home

\* No step changes the binding.
LEMMA FixedStays == [Next]_vars => UNCHANGED fixed
    BY DEF Next, vars, Caller, Substitute, Reassociate, Reallocate, Reconfigure, Finalize, Enter, Idle, Guard, StageIn,
           Globals, StaticGlobals, Images, Dummies, CopyIn, AliasMembers, LateSymbols, Call, Run, CloseRegion, CopiedBack,
           CopyOut, WriteBack, Unpack, Unstage, Return, Original, ReturnOriginal, Transfer

\* The types hold at the start.
LEMMA InitTypes == Init => TypeOK /\ BindingInv
<1> SUFFICES ASSUME Init PROVE TypeOK /\ BindingInv
    OBVIOUS
<1>1. PICK b \in Bindings : how = b.how /\ code = b.code /\ lane = b.lane
    BY DEF Init
<1>2. b \in [how : [Args -> Classes], code : Seq([dst : Args, src : Args]), lane : Lanes]
    BY WrapperAssumption
<1>3. BindingInv
    BY <1>1, <1>2 DEF BindingInv
<1>4. host \in [Cells -> Memory] /\ dev \in [Cells -> Memory]
    BY WrapperAssumption DEF Init, Memory
<1> QED
    BY <1>1, <1>2, <1>3, <1>4, WrapperAssumption DEF Init, TypeOK, Blocks, Memory, Baked, Own

\* A statement of the routine computes a value from a value.
LEMMA ApplyType ==
    BindingInv => \A i \in 0 .. Len(code), v \in Values : Apply(i, v) \in Values
<1> SUFFICES ASSUME BindingInv, NEW i \in 0 .. Len(code), NEW v \in Values
             PROVE  Apply(i, v) \in Values
    OBVIOUS
<1> DEFINE b == [how |-> how, code |-> code, lane |-> lane]
<1>1. b \in Bindings /\ b.code = code
    BY DEF BindingInv
<1> HIDE DEF b
<1>2. \A j \in 0 .. Len(b.code), u \in Values : Apply(j, u) \in Values
    BY <1>1, WrapperAssumption
<1> QED
    BY <1>1, <1>2

\* The statement a call is at is one of the routine's, with names of the binding.
LEMMA StatementTypes ==
    TypeOK => \A i \in Nat : i # 0 /\ i <= Len(code) =>
                 /\ i \in DOMAIN code /\ i \in 0 .. Len(code)
                 /\ code[i].dst \in Args /\ code[i].src \in Args
<1> SUFFICES ASSUME TypeOK, NEW i \in Nat, i # 0, i <= Len(code)
             PROVE  /\ i \in DOMAIN code /\ i \in 0 .. Len(code)
                    /\ code[i].dst \in Args /\ code[i].src \in Args
    OBVIOUS
<1> DEFINE R == [dst : Args, src : Args]
<1>1. code \in Seq(R)
    BY DEF TypeOK
<1> HIDE DEF R
<1>2. Len(code) \in Nat /\ DOMAIN code = 1 .. Len(code) /\ code \in [1 .. Len(code) -> R]
    BY <1>1
<1>3. i \in 1 .. Len(code) /\ code[i] \in R
    BY <1>2
<1> QED
    BY <1>2, <1>3 DEF R

\* A write of the caller reaches the copy it keeps, and no other cell.
LEMMA CallerStep ==
    TypeOK /\ BindingInv /\ HomeInv =>
       \A c \in Cells, i \in 0 .. Len(code) :
           \A d \in Cells : CallerWrites(c, Apply(i, Home(d))) =>
              /\ host' \in [Cells -> Memory] /\ dev' \in [Cells -> Memory]
              /\ \A e \in Cells : (IF e \in Resident THEN dev' ELSE host')[e]
                                   = IF e = c THEN Apply(i, Home(d)) ELSE Home(e)
<1> SUFFICES ASSUME TypeOK, BindingInv, HomeInv, NEW c \in Cells, NEW i \in 0 .. Len(code), NEW d \in Cells,
                    CallerWrites(c, Apply(i, Home(d)))
             PROVE  /\ host' \in [Cells -> Memory] /\ dev' \in [Cells -> Memory]
                    /\ \A e \in Cells : (IF e \in Resident THEN dev' ELSE host')[e]
                                          = IF e = c THEN Apply(i, Home(d)) ELSE Home(e)
    OBVIOUS
<1>1. Apply(i, Home(d)) \in Values
    BY ApplyType DEF HomeInv
<1> DEFINE w == Apply(i, Home(d))
<1>2. w \in Values /\ w \in Memory
    BY <1>1 DEF Memory
<1>3. host' = IF c \in Resident THEN host ELSE [host EXCEPT ![c] = w]
    BY DEF CallerWrites
<1>4. dev' = IF c \in Resident THEN [dev EXCEPT ![c] = w] ELSE dev
    BY DEF CallerWrites
<1> HIDE DEF w
<1>5. host' \in [Cells -> Memory] /\ dev' \in [Cells -> Memory]
    BY <1>2, <1>3, <1>4 DEF TypeOK
<1>6. \A e \in Cells : (IF e \in Resident THEN dev' ELSE host')[e] = IF e = c THEN w ELSE Home(e)
    BY <1>3, <1>4 DEF TypeOK, Home
<1> QED
    BY <1>5, <1>6 DEF w

\* What copying buffers back does to a cell: it gets the buffer of a written name of S that stands for it.
LEMMA CopiedBackEffect ==
    ASSUME NEW S \in SUBSET Args, TypeOK, CopiedBack(S)
    PROVE  \A c \in Cells :
              /\ IF \E a \in S : Written(a) /\ bound[a] = c /\ OnHost(a)
                 THEN \E a \in S : Written(a) /\ bound[a] = c /\ host'[c] = own[a]
                 ELSE host'[c] = host[c]
              /\ IF \E a \in S : Written(a) /\ bound[a] = c /\ ~OnHost(a)
                 THEN \E a \in S : Written(a) /\ bound[a] = c /\ dev'[c] = own[a]
                 ELSE dev'[c] = dev[c]
<1> TAKE c \in Cells
<1> DEFINE Q(a) == Written(a) /\ bound[a] = c
           w == CHOOSE a \in S : Q(a)
<1>1. ASSUME NEW a \in S, Q(a) PROVE w \in S /\ Q(w)
    BY <1>1
<1>2. \A a \in S : Q(a) => Present(a)
    BY WrapperAssumption DEF Present
<1>3. host'[c] = IF \E a \in S : Present(a) /\ Q(a) /\ OnHost(a) THEN own[w] ELSE host[c]
    BY DEF CopiedBack
<1>4. dev'[c] = IF \E a \in S : Present(a) /\ Q(a) /\ ~OnHost(a) THEN own[w] ELSE dev[c]
    BY DEF CopiedBack
<1> HIDE DEF w
<1> QED
    BY <1>1, <1>2, <1>3, <1>4

\* A copy back leaves memory in the cells.
LEMMA CopiedBackTypes ==
    ASSUME NEW S \in SUBSET Args, TypeOK, CopiedBack(S)
    PROVE  host' \in [Cells -> Memory] /\ dev' \in [Cells -> Memory] /\ ownExt' \in [Args -> Nat]
<1>1. /\ host' = [c \in Cells |-> host'[c]] /\ dev' = [c \in Cells |-> dev'[c]]
      /\ ownExt' \in [Args -> Nat]
    BY DEF CopiedBack, TypeOK
<1>2. \A a \in S : own[a] \in Memory
    BY DEF TypeOK
<1>3. \A c \in Cells : host[c] \in Memory /\ dev[c] \in Memory
    BY DEF TypeOK
<1>4. \A c \in Cells : host'[c] \in Memory /\ dev'[c] \in Memory
    BY <1>2, <1>3, CopiedBackEffect
<1> QED
    BY <1>1, <1>4

Back(a) == InRegion(a) /\ Written(a)

\* At the end of the DATA region a container that comes back holds what its device copy holds.
LEMMA CloseRegionEffect ==
    ASSUME TypeOK, CloseRegion
    PROVE  /\ \A a \in Args : own'[a] = IF Back(a) /\ view[a] = Own THEN region[a] ELSE own[a]
           /\ \A c \in Cells : IF \E a \in Args : Back(a) /\ view[a] = c
                               THEN \E a \in Args : Back(a) /\ view[a] = c /\ host'[c] = region[a]
                               ELSE host'[c] = host[c]
           /\ own' \in [Args -> Memory] /\ host' \in [Cells -> Memory]
<1> DEFINE back == {a \in Args : InRegion(a) /\ Written(a)}
           w(c) == CHOOSE a \in back : view[a] = c
<1>1. /\ own' = [a \in Args |-> IF a \in back /\ view[a] = Own THEN region[a] ELSE own[a]]
      /\ host' = [c \in Cells |-> IF \E a \in back : view[a] = c THEN region[w(c)] ELSE host[c]]
    BY DEF CloseRegion
<1>2. ASSUME NEW c \in Cells, NEW a \in back, view[a] = c PROVE w(c) \in back /\ view[w(c)] = c
    BY <1>2
<1>3. \A a \in Args : own'[a] = IF Back(a) /\ view[a] = Own THEN region[a] ELSE own[a]
    BY <1>1 DEF Back
<1>4. ASSUME NEW c \in Cells
      PROVE  IF \E a \in Args : Back(a) /\ view[a] = c
             THEN \E a \in Args : Back(a) /\ view[a] = c /\ host'[c] = region[a]
             ELSE host'[c] = host[c]
    <2>1. host'[c] = IF \E a \in back : view[a] = c THEN region[w(c)] ELSE host[c]
        BY <1>1
    <2> HIDE DEF w
    <2> QED
        BY <2>1, <1>2 DEF Back
<1>5. own' \in [Args -> Memory]
    BY <1>1 DEF TypeOK
<1>6. host' = [c \in Cells |-> host'[c]]
    BY <1>1
<1>7. /\ \A a \in Args : region[a] \in Memory
      /\ \A c \in Cells : host[c] \in Memory
    BY DEF TypeOK
<1>8. \A c \in Cells : host'[c] \in Memory
    BY <1>4, <1>7
<1> QED
    BY <1>3, <1>4, <1>5, <1>6, <1>8

\* A statement of the SDFG stores into the container of its destination and nowhere else.
LEMMA StoreTypes ==
    ASSUME TypeOK, NEW a \in Args, NEW v \in Memory, Store(a, v)
    PROVE  /\ own' \in [Args -> Memory] /\ region' \in [Args -> Memory]
           /\ host' \in [Cells -> Memory] /\ dev' \in [Cells -> Memory]
    BY DEF TypeOK, Store

\* A sane statement of the SDFG stores a value.
LEMMA StoredType ==
    ASSUME TypeOK, BindingInv, NEW a \in Args, Holds(a) # Wild, at # 0, at <= Len(code)
    PROVE  Apply(at, Holds(a)) \in Values
<1>1. Holds(a) \in Values
    BY OperatorTypes DEF Memory
<1>2. at \in 0 .. Len(code)
    BY StatementTypes DEF TypeOK
<1> QED
    BY <1>1, <1>2, ApplyType

\* Every step preserves the types.
LEMMA TypeStep == TypeOK /\ BindingInv /\ HomeInv /\ AtInv /\ [Next]_vars => TypeOK'
<1> SUFFICES ASSUME TypeOK, BindingInv, HomeInv, AtInv, [Next]_vars
             PROVE  TypeOK'
    OBVIOUS
<1> USE DEF fixed, callerVars, containers, bounds
<1>Reassociate. CASE Reassociate
    BY <1>Reassociate DEF Reassociate, Idle, TypeOK, Blocks
<1>Reallocate. CASE Reallocate
    <2>1. PICK c \in Cells, e \in Extents : extent' = [extent EXCEPT ![c] = e] /\ CallerWrites(c, Apply(0, Home(c)))
        BY <1>Reallocate DEF Reallocate
    <2>2. host' \in [Cells -> Memory] /\ dev' \in [Cells -> Memory]
        <3>1. 0 \in 0 .. Len(code)
            BY DEF TypeOK
        <3> QED
            BY <2>1, <3>1, CallerStep
    <2>3. extent' \in [Cells -> Nat \ {0}]
        BY <2>1, WrapperAssumption DEF TypeOK
    <2> QED
        BY <1>Reallocate, <2>2, <2>3 DEF Reallocate, Idle, TypeOK, Blocks
<1>Reconfigure. CASE Reconfigure
    BY <1>Reconfigure DEF Reconfigure, Idle, TypeOK, Blocks
<1>Finalize. CASE Finalize
    BY <1>Finalize DEF Finalize, Idle, TypeOK, Blocks
<1>Enter. CASE Enter
    BY <1>Enter DEF Enter, Idle, TypeOK, Blocks
<1>Guard. CASE Guard
    BY <1>Guard DEF Guard, Decline, TypeOK, Blocks
<1>StageIn. CASE StageIn
    BY <1>StageIn, HomeType DEF StageIn, Block, TypeOK, Blocks
<1>Globals. CASE Globals
    BY <1>Globals, OperatorTypes, WrapperAssumption DEF Globals, Block, Symbols, Aliased, Present, TypeOK, Blocks, Memory
<1>StaticGlobals. CASE StaticGlobals
    BY <1>StaticGlobals, OperatorTypes, WrapperAssumption DEF StaticGlobals, Block, Copied, Buffered, Present, TypeOK,
       Blocks, Memory
<1>Images. CASE Images
    BY <1>Images, OperatorTypes, WrapperAssumption DEF Images, Block, Buffered, Present, TypeOK, Blocks, Memory
<1>Dummies. CASE Dummies
    BY <1>Dummies, OperatorTypes, WrapperAssumption DEF Dummies, Block, Aliased, Present, TypeOK, Blocks, Memory
<1>CopyIn. CASE CopyIn
    <2>1. CASE SplitRefused
        BY <1>CopyIn, <2>1 DEF CopyIn, Decline, TypeOK, Blocks
    <2>2. CASE ~SplitRefused
        <3>1. pc' = "alias" /\ Buffered(Of({"copied", "value"}), Of({"copied", "value"}))
            BY <1>CopyIn, <2>2 DEF CopyIn, Copied
        <3>2. view' \in [Args -> Cells \cup {Own, Absent}] /\ ownExt' \in [Args -> Nat] /\ own' \in [Args -> Memory]
            BY <3>1, OperatorTypes DEF Buffered, TypeOK
        <3> QED
            BY <1>CopyIn, <3>1, <3>2 DEF CopyIn, TypeOK, Blocks
    <2> QED
        BY <2>1, <2>2
<1>AliasMembers. CASE AliasMembers
    BY <1>AliasMembers, OperatorTypes, WrapperAssumption DEF AliasMembers, Block, Aliased, Present, TypeOK, Blocks, Memory
<1>LateSymbols. CASE LateSymbols
    BY <1>LateSymbols, OperatorTypes, WrapperAssumption DEF LateSymbols, Block, Present, TypeOK, Blocks, Memory
<1>Call. CASE Call
    BY <1>Call, OperatorTypes DEF Call, Block, TypeOK, Blocks, Memory
<1>Run. CASE Run
    <2>1. at \in Nat /\ at' = at + 1 /\ at <= Len(code)
        BY <1>Run DEF Run, TypeOK
    <2>2. /\ own' \in [Args -> Memory] /\ region' \in [Args -> Memory]
          /\ host' \in [Cells -> Memory] /\ dev' \in [Cells -> Memory]
        <3>1. CASE UNCHANGED <<own, host, dev, region>>
            BY <3>1 DEF TypeOK
        <3>2. CASE ~UNCHANGED <<own, host, dev, region>>
            <4> DEFINE s == code[at]
                       sane == Specialised /\ Holds(s.src) # Wild /\ sym[s.dst] = SizeOf(s.dst)
                       v == IF sane THEN Apply(at, Holds(s.src)) ELSE Wild
            <4>1. Store(s.dst, v)
                BY <1>Run, <3>2 DEF Run
            <4>2. at # 0 /\ s.dst \in Args /\ s.src \in Args
                BY <2>1, <1>Run, StatementTypes DEF AtInv, Run
            <4>3. v \in Memory
                BY <2>1, <4>2, StoredType DEF Memory
            <4> HIDE DEF s, v
            <4> QED
                BY <4>1, <4>2, <4>3, StoreTypes
        <3> QED
            BY <3>1, <3>2
    <2> QED
        BY <1>Run, <2>1, <2>2 DEF Run, TypeOK, Blocks
<1>CloseRegion. CASE CloseRegion
    BY <1>CloseRegion, CloseRegionEffect DEF CloseRegion, TypeOK, Blocks
<1>CopyOut. CASE CopyOut
    <2> DEFINE S == Of({"copied", "value"})
    <2>1. S \in SUBSET Args /\ CopiedBack(S)
        BY <1>CopyOut DEF CopyOut, Of
    <2> HIDE DEF S
    <2> QED
        BY <1>CopyOut, <2>1, CopiedBackTypes DEF CopyOut, Block, CopiedBack, TypeOK, Blocks
<1>WriteBack. CASE WriteBack
    <2> DEFINE S == {a \in Of({"static"}) : view[a] = Own}
    <2>1. S \in SUBSET Args /\ CopiedBack(S)
        BY <1>WriteBack DEF WriteBack, Of
    <2> HIDE DEF S
    <2> QED
        BY <1>WriteBack, <2>1, CopiedBackTypes DEF WriteBack, Block, CopiedBack, TypeOK, Blocks
<1>Unpack. CASE Unpack
    <2> DEFINE S == Of({"packed"})
    <2>1. S \in SUBSET Args /\ CopiedBack(S)
        BY <1>Unpack DEF Unpack, Of
    <2> HIDE DEF S
    <2> QED
        BY <1>Unpack, <2>1, CopiedBackTypes DEF Unpack, Block, CopiedBack, TypeOK, Blocks
<1>Unstage. CASE Unstage
    BY <1>Unstage DEF Unstage, Block, TypeOK, Blocks
<1>Return. CASE Return
    BY <1>Return DEF Return, Block, TypeOK, Blocks, Memory
<1>Original. CASE Original
    <2>1. at \in Nat /\ at' = at + 1 /\ at <= Len(code)
        BY <1>Original DEF Original, TypeOK
    <2>2. host' \in [Cells -> Memory] /\ dev' \in [Cells -> Memory]
        <3>1. CASE UNCHANGED <<host, dev>>
            BY <3>1 DEF TypeOK
        <3>2. CASE ~UNCHANGED <<host, dev>>
            <4> DEFINE s == code[at]
            <4>1. /\ Present(s.dst) /\ Present(s.src)
                  /\ CallerWrites(bound[s.dst], Apply(at, Home(bound[s.src])))
                BY <1>Original, <3>2 DEF Original
            <4>2. at \in 0 .. Len(code) /\ s.dst \in Args /\ s.src \in Args
                BY <2>1, <1>Original, StatementTypes DEF AtInv, Original
            <4>3. bound[s.dst] \in Cells /\ bound[s.src] \in Cells
                BY <4>1, <4>2 DEF Present, TypeOK
            <4> HIDE DEF s
            <4> QED
                BY <4>1, <4>2, <4>3, CallerStep
        <3> QED
            BY <3>1, <3>2
    <2> QED
        BY <1>Original, <2>1, <2>2 DEF Original, TypeOK, Blocks
<1>ReturnOriginal. CASE ReturnOriginal
    BY <1>ReturnOriginal DEF ReturnOriginal, Block, TypeOK, Blocks, Memory
<1>Transfer. CASE Transfer
    BY <1>Transfer DEF Transfer, Block, TypeOK, Blocks
<1>stutter. CASE UNCHANGED vars
    BY <1>stutter DEF vars, TypeOK
<1> QED
    BY <1>Reassociate, <1>Reallocate, <1>Reconfigure, <1>Finalize, <1>Enter, <1>Guard, <1>StageIn, <1>Globals,
       <1>StaticGlobals, <1>Images, <1>Dummies, <1>CopyIn, <1>AliasMembers, <1>LateSymbols, <1>Call, <1>Run,
       <1>CloseRegion, <1>CopyOut, <1>WriteBack, <1>Unpack, <1>Unstage, <1>Return, <1>Original, <1>ReturnOriginal,
       <1>Transfer, <1>stutter DEF Next, Caller, Substitute

-----------------------------------------------------------------------------
(* Facts about a state.                                                    *)

\* A container is a buffer of the wrapper or a cell.
LEMMA BehindView ==
    \A a \in Args :
        /\ view[a] = Own => Behind(a) = own[a] /\ SizeOf(a) = ownExt[a]
        /\ view[a] \in Cells => Behind(a) = Side(a)[view[a]] /\ SizeOf(a) = extent[view[a]]
    BY WrapperAssumption DEF Behind, SizeOf

\* The same after a step.
LEMMA BehindViewNext ==
    (\A a \in Args :
        /\ view[a] = Own => Behind(a) = own[a] /\ SizeOf(a) = ownExt[a]
        /\ view[a] \in Cells => Behind(a) = Side(a)[view[a]] /\ SizeOf(a) = extent[view[a]])'
    BY BehindView, PTL

\* A name's class tells on which side the caller keeps its cell (Conforming, plan_acc_transfers).
LEMMA ResidentByClass ==
    ConformInv /\ TypeOK => \A a \in Args : Present(a) => (bound[a] \in Resident <=> OnDevice(a))
    BY DEF ConformInv, Conforming, TypeOK, Present, Resident

\* Names that share written storage are passed in place once build_storage_guard has let the call through.
LEMMA SharedInPlace ==
    ConformInv /\ ~SharesStorage =>
        \A a, c \in Args : a # c /\ Present(a) /\ bound[a] = bound[c] /\ (Written(a) \/ Written(c)) =>
            InPlace(a) /\ InPlace(c) /\ lane # "offload"
    BY DEF ConformInv, Conforming, SharesStorage, Present

\* A kept image belongs to the only name of its cell.
LEMMA KeptAlone ==
    ConformInv => \A a, c \in Args : how[a] = "kept" /\ Present(a) /\ bound[c] = bound[a] => c = a
    BY DEF ConformInv, Conforming, Present

\* Without offloading, what is passed in place is not in a DATA region.
LEMMA InPlaceOutsideRegion ==
    TypeOK => \A a \in Args : InPlace(a) /\ lane # "offload" => ~InRegion(a)
    BY DEF InPlace, InRegion

\* What a routine with queued transfers uses stays on the host.
LEMMA QueuedUnused ==
    TypeOK /\ BindingInv /\ lane = "icon_acc" => \A a \in Args : Used(a) => ~OnDevice(a)
<1> SUFFICES ASSUME TypeOK, BindingInv, lane = "icon_acc", NEW a \in Args, Used(a)
             PROVE  ~OnDevice(a)
    OBVIOUS
<1> DEFINE b == [how |-> how, code |-> code, lane |-> lane]
<1>1. b \in Bindings /\ b.code = code /\ b.how = how /\ b.lane = lane
    BY DEF BindingInv
<1> HIDE DEF b
<1>2. Covered(b)
    BY <1>1, WrapperAssumption
<1>3. PICK i \in DOMAIN code : code[i].dst = a \/ code[i].src = a
    BY DEF Used
<1>4. how[a] \in {"global", "static", "kept"}
    BY <1>1, <1>2, <1>3 DEF Covered
<1> QED
    BY <1>4 DEF OnDevice

\* Covered: no binding has both an array handed over by elements and a kept image.
LEMMA NoSplitWithKept ==
    BindingInv => ~\E a, c \in Args : how[a] = "split" /\ how[c] = "kept"
<1> SUFFICES ASSUME BindingInv PROVE ~\E a, c \in Args : how[a] = "split" /\ how[c] = "kept"
    OBVIOUS
<1> DEFINE b == [how |-> how, code |-> code, lane |-> lane]
<1>1. b \in Bindings /\ b.how = how
    BY DEF BindingInv
<1> HIDE DEF b
<1>2. Covered(b)
    BY <1>1, WrapperAssumption
<1> QED
    BY <1>1, <1>2 DEF Covered

\* The memory the wrapper works with has the caller's value of every name the routine uses.
LEMMA SideIsHome ==
    TypeOK /\ BindingInv /\ ConformInv /\ (lane = "icon_omp" => \A c \in Cells : host[c] = Home(c)) =>
        \A a \in Args : Present(a) /\ (Used(a) \/ how[a] = "kept") => Side(a)[bound[a]] = Home(bound[a])
<1> SUFFICES ASSUME TypeOK, BindingInv, ConformInv, lane = "icon_omp" => \A c \in Cells : host[c] = Home(c),
                    NEW a \in Args, Present(a), Used(a) \/ how[a] = "kept"
             PROVE  Side(a)[bound[a]] = Home(bound[a])
    OBVIOUS
<1>1. bound[a] \in Cells /\ (bound[a] \in Resident <=> OnDevice(a))
    BY ResidentByClass DEF TypeOK, Present
<1>2. CASE lane \in {"host", "offload"}
    BY <1>1, <1>2 DEF OnDevice, Side, OnHost, Home
<1>3. CASE lane = "icon_omp"
    BY <1>1, <1>3 DEF Side, OnHost
<1>4. CASE lane = "icon_acc"
    BY <1>1, <1>4, QueuedUnused DEF OnDevice, Side, OnHost, Home
<1>5. CASE lane = "device"
    BY <1>1, <1>5 DEF OnDevice, InRegion, Side, OnHost, Home
<1> QED
    BY <1>2, <1>3, <1>4, <1>5 DEF TypeOK, Lanes

\* The value of a cell no name of which is being written.
LEMMA LogicalQuiet ==
    ConformInv /\ TypeOK => \A c \in Cells : Writers(c) = {} =>
        /\ \A a \in Args : bound[a] = c /\ Image(a) => Logical[c] = own[a]
        /\ (\A a \in Args : bound[a] = c => ~Image(a)) => Logical[c] = Home(c)
<1> SUFFICES ASSUME ConformInv, TypeOK, NEW c \in Cells, Writers(c) = {}
             PROVE  /\ \A a \in Args : bound[a] = c /\ Image(a) => Logical[c] = own[a]
                    /\ (\A a \in Args : bound[a] = c => ~Image(a)) => Logical[c] = Home(c)
    OBVIOUS
<1> DEFINE w == CHOOSE a \in Args : bound[a] = c /\ Image(a)
<1>1. Logical[c] = IF \E a \in Args : bound[a] = c /\ Image(a) THEN own[w] ELSE Home(c)
    BY DEF Logical
<1>2. ASSUME NEW a \in Args, bound[a] = c, Image(a) PROVE w = a
    <2>1. w \in Args /\ bound[w] = c /\ Image(w)
        BY <1>2
    <2> HIDE DEF w
    <2> QED
        BY <1>2, <2>1, KeptAlone DEF Image
<1> HIDE DEF w
<1> QED
    BY <1>1, <1>2

\* Names that share a written cell agree on where its value is.
LEMMA LogicalWritten ==
    ConformInv /\ TypeOK /\ GuardInv /\ PlacedInv /\ pc \in Running =>
        \A a \in Args : Present(a) /\ Written(a) => Logical[bound[a]] = Current(a)
<1> SUFFICES ASSUME ConformInv, TypeOK, GuardInv, PlacedInv, pc \in Running, NEW a \in Args, Present(a), Written(a)
             PROVE  Logical[bound[a]] = Current(a)
    OBVIOUS
<1> DEFINE c == bound[a]
           w == CHOOSE x \in Writers(c) : TRUE
<1>1. c \in Cells /\ a \in Writers(c)
    BY DEF TypeOK, Present, Writers
<1>2. w \in Writers(c) /\ Logical[c] = Current(w)
    BY <1>1 DEF Logical
<1>3. w \in Args /\ bound[w] = c /\ Written(w)
    BY <1>2 DEF Writers
<1> HIDE DEF w
<1>4. CASE w = a
    BY <1>2, <1>4
<1>5. CASE w # a
    <2>1. InPlace(a) /\ InPlace(w) /\ lane # "offload"
        BY <1>1, <1>3, <1>5, SharedInPlace DEF GuardInv
    <2>2. ~InRegion(a) /\ ~InRegion(w)
        BY <1>3, <2>1, InPlaceOutsideRegion
    <2>3. Ready(a) /\ Ready(w) /\ Present(w)
        BY <1>3 DEF Ready, Present
    <2>4. view[a] = c /\ view[w] = c /\ c # Own
        BY <1>1, <1>3, <2>1, <2>3, WrapperAssumption DEF PlacedInv
    <2>5. Current(a) = Side(a)[c] /\ Current(w) = Side(w)[c]
        BY <1>3, <2>2, <2>4 DEF Current
    <2>6. Side(a) = Side(w)
        BY <2>2 DEF Side, OnHost
    <2> QED
        BY <1>2, <2>5, <2>6
<1> QED
    BY <1>4, <1>5

-----------------------------------------------------------------------------
(* What steps leave alone.                                                 *)

\* How a name is passed depends on the binding alone.
LEMMA ClassesStay ==
    UNCHANGED fixed =>
        \A a \in Args : /\ Written(a)' <=> Written(a)
                        /\ Used(a)' <=> Used(a)
                        /\ InPlace(a)' <=> InPlace(a)
                        /\ OnDevice(a)' <=> OnDevice(a)
                        /\ InRegion(a)' <=> InRegion(a)
                        /\ OnHost(a)' <=> OnHost(a)
                        /\ Member(a)' <=> Member(a)
                        /\ MayBeAbsent(a)' <=> MayBeAbsent(a)
    BY DEF fixed, Written, Used, InPlace, OnDevice, InRegion, OnHost, Member, MayBeAbsent

\* What names share depends on the binding and the associations alone.
LEMMA SharingStays ==
    UNCHANGED <<fixed, bound>> =>
        /\ \A a \in Args : Present(a)' <=> Present(a)
        /\ Resident' = Resident
        /\ SharesStorage' <=> SharesStorage
        /\ ConformInv' <=> ConformInv
<1> SUFFICES ASSUME UNCHANGED <<fixed, bound>>
             PROVE  /\ \A a \in Args : Present(a)' <=> Present(a)
                    /\ Resident' = Resident
                    /\ SharesStorage' <=> SharesStorage
                    /\ ConformInv' <=> ConformInv
    OBVIOUS
<1>1. \A a \in Args : Present(a)' <=> Present(a)
    BY DEF Present
<1>2. Resident' = Resident
    BY ClassesStay DEF Resident
<1>3. \A a, c \in Args : Clash(a, c)' <=> Clash(a, c)
    BY ClassesStay DEF Clash
<1>4. SharesStorage' <=> SharesStorage
    BY <1>1, <1>3 DEF SharesStorage
<1>5. ConformInv' <=> ConformInv
    BY DEF ConformInv, Conforming, fixed, Clash, Member, Written, InPlace, OnDevice, MayBeAbsent
<1> QED
    BY <1>1, <1>2, <1>4, <1>5

\* Only the caller changes associations, extents and the configuration, and only between calls.
LEMMA AssociationsStay ==
    [Next]_vars => /\ pc # "idle" => UNCHANGED <<bound, extent, scalar>>
                   /\ Reassociate \/ UNCHANGED bound
    BY DEF Next, vars, callerVars, bounds, Caller, Substitute, Reassociate, Reallocate, Reconfigure, Finalize, Enter,
       Idle, Guard, StageIn, Globals, StaticGlobals, Images, Dummies, CopyIn, AliasMembers, LateSymbols, Call, Run,
       CloseRegion, CopiedBack, CopyOut, WriteBack, Unpack, Unstage, Return, Original, ReturnOriginal, Transfer

\* The caller keeps a cell on the same side for ever.
LEMMA ResidentStays == [Next]_vars => Resident' = Resident
<1> SUFFICES ASSUME [Next]_vars PROVE Resident' = Resident
    OBVIOUS
<1>1. CASE Reassociate
    BY <1>1 DEF Reassociate
<1>2. CASE UNCHANGED bound
    BY <1>2, FixedStays, SharingStays
<1> QED
    BY <1>1, <1>2, AssociationsStay

\* The caller goes on conforming.
LEMMA ConformStep == ConformInv /\ [Next]_vars => ConformInv'
<1> SUFFICES ASSUME ConformInv, [Next]_vars PROVE ConformInv'
    OBVIOUS
<1>1. CASE Reassociate
    <2>1. Conforming(bound')
        BY <1>1 DEF Reassociate
    <2>2. UNCHANGED fixed
        BY FixedStays
    <2> QED
        BY <2>1, <2>2 DEF ConformInv, Conforming, fixed, Clash, Member, Written, InPlace, OnDevice, MayBeAbsent
<1>2. CASE UNCHANGED bound
    BY <1>2, FixedStays, SharingStays
<1> QED
    BY <1>1, <1>2, AssociationsStay

\* The binding goes on being one of the instance's.
LEMMA BindingStep == BindingInv /\ [Next]_vars => BindingInv'
    BY FixedStays DEF BindingInv, fixed

\* Which block follows which.
LEMMA ControlFlow ==
    Next =>
        \/ pc = "idle" /\ pc' \in {"idle", "guard"}
        \/ pc = "guard" /\ (pc' \in {"stopped", "original"} \/ (pc' = "stage" /\ Specialised /\ ~SharesStorage))
        \/ <<pc, pc'>> \in {<<"stage", "globals">>, <<"globals", "static">>, <<"static", "images">>, <<"images", "dummies">>,
                            <<"dummies", "copyin">>, <<"copyin", "alias">>, <<"copyin", "original">>, <<"copyin", "stopped">>,
                            <<"alias", "symbols">>, <<"symbols", "call">>, <<"call", "run">>, <<"run", "run">>,
                            <<"run", "copyout">>, <<"copyout", "writeback">>, <<"writeback", "unpack">>,
                            <<"unpack", "unstage">>, <<"unstage", "return">>, <<"return", "idle">>,
                            <<"original", "original">>, <<"original", "idle">>}
        \/ pc' = pc
    BY DEF Next, Caller, Substitute, Reassociate, Reallocate, Reconfigure, Finalize, Enter, Idle, Guard, StageIn, Block,
       Decline, Globals, StaticGlobals, Images, Dummies, CopyIn, AliasMembers, LateSymbols, Call, Run, CloseRegion,
       CopyOut, WriteBack, Unpack, Unstage, Return, Original, ReturnOriginal, Transfer

\* Past the guards, what they tested stays true until the call is over.
LEMMA GuardStep == GuardInv /\ [Next]_vars => GuardInv'
<1> SUFFICES ASSUME GuardInv, [Next]_vars PROVE GuardInv'
    OBVIOUS
<1>1. CASE pc = "idle" \/ pc = "return" \/ pc = "original" \/ pc = "stopped"
    BY <1>1, ControlFlow DEF GuardInv, vars
<1>2. CASE pc # "idle" /\ pc \in Accepted \cup {"guard"}
    <2>1. UNCHANGED <<fixed, bound, scalar>>
        BY <1>2, FixedStays, AssociationsStay
    <2> QED
        BY <1>2, <2>1, ControlFlow, SharingStays DEF GuardInv, Specialised, vars
<1>3. CASE pc \notin Accepted \cup {"guard", "idle", "return", "original", "stopped"}
    BY <1>3, ControlFlow DEF GuardInv, vars
<1> QED
    BY <1>1, <1>2, <1>3

-----------------------------------------------------------------------------
(* Control: the statement the call is at, the handle, the queue.           *)

\* What a step does to the position of the routine, the handle and the queue.
LEMMA AtFlow ==
    Next =>
        \/ pc' = pc /\ at' = at
        \/ pc = "idle" /\ pc' = "guard" /\ at' = 1
        \/ pc \in ({"guard"} \cup Accepted) \ Running /\ pc' \in ({"stopped", "original"} \cup Accepted) \ Closing /\ at' = at
        \/ pc' = pc /\ pc \in {"run", "original"} /\ at <= Len(code) /\ at' = at + 1
        \/ pc = "run" /\ pc' = "copyout" /\ at = Len(code) + 1 /\ at' = at
        \/ pc \in Closing /\ pc' \in {"return"} \cup Closing /\ at' = at
        \/ pc \in {"return", "original"} /\ pc' = "idle" /\ at' = 0
    BY DEF Next, Caller, Substitute, Reassociate, Reallocate, Reconfigure, Finalize, Enter, Idle, Guard, StageIn, Block,
       Decline, Globals, StaticGlobals, Images, Dummies, CopyIn, AliasMembers, LateSymbols, Call, Run, CloseRegion,
       CopiedBack, CopyOut, WriteBack, Unpack, Unstage, Return, Original, ReturnOriginal, Transfer

\* The position of the routine follows the blocks.
LEMMA AtStep == TypeOK /\ AtInv /\ [Next]_vars => AtInv'
<1> SUFFICES ASSUME TypeOK, AtInv, [Next]_vars PROVE AtInv'
    OBVIOUS
<1>1. code' = code /\ Len(code) \in Nat /\ at \in Nat
    BY FixedStays DEF fixed, TypeOK
<1>2. CASE UNCHANGED vars
    BY <1>1, <1>2 DEF AtInv, vars
<1>3. CASE Next
    BY <1>1, <1>3, AtFlow DEF AtInv
<1> QED
    BY <1>2, <1>3

\* Only Call enters the SDFG, and only Call and Finalize touch the handle.
LEMMA OnlyCallRuns ==
    [Next]_vars => /\ Finalize \/ Call \/ UNCHANGED <<count, handle>>
                   /\ pc # "run" /\ pc' = "run" => Call
    BY DEF Next, vars, Caller, Substitute, Reassociate, Reallocate, Reconfigure, Finalize, Enter, Idle, Guard, StageIn,
       Block, Decline, Globals, StaticGlobals, Images, Dummies, CopyIn, AliasMembers, LateSymbols, Call, Run, CloseRegion,
       CopiedBack, CopyOut, WriteBack, Unpack, Unstage, Return, Original, ReturnOriginal, Transfer

\* The handle is open while a call is counted.
LEMMA HandleStep == TypeOK /\ HandleInv /\ [Next]_vars => HandleInv'
<1> SUFFICES ASSUME TypeOK, HandleInv, [Next]_vars PROVE HandleInv'
    OBVIOUS
<1>1. CASE Finalize
    BY <1>1 DEF Finalize, HandleInv, TypeOK
<1>2. CASE Call
    BY <1>2 DEF Call, Block, HandleInv, TypeOK
<1>3. CASE UNCHANGED <<count, handle>> /\ ~Call
    <2>1. pc' = "run" => pc = "run"
        BY <1>3, ControlFlow, OnlyCallRuns DEF vars
    <2> QED
        BY <1>3, <2>1 DEF HandleInv
<1> QED
    BY <1>1, <1>2, <1>3, OnlyCallRuns

\* Only what the caller keeps on the device is ever queued.
LEMMA QueueStep == TypeOK /\ QueueInv /\ [Next]_vars => QueueInv'
<1> SUFFICES ASSUME TypeOK, QueueInv, [Next]_vars PROVE QueueInv'
    OBVIOUS
<1>1. Resident' = Resident /\ lane' = lane
    BY ResidentStays, FixedStays DEF fixed
<1>2. CASE StageIn
    BY <1>1, <1>2 DEF StageIn, QueueInv, Resident
<1>3. CASE Transfer
    BY <1>1, <1>3 DEF Transfer, QueueInv
<1>4. CASE pending' = pending
    BY <1>1, <1>4 DEF QueueInv
<1>5. StageIn \/ Transfer \/ pending' = pending
    BY DEF Next, vars, Caller, Substitute, Reassociate, Reallocate, Reconfigure, Finalize, Enter, Idle, Guard, Globals,
       StaticGlobals, Images, Dummies, CopyIn, AliasMembers, LateSymbols, Call, Run, CloseRegion, CopiedBack, CopyOut,
       WriteBack, Unpack, Unstage, Return, Original, ReturnOriginal
<1> QED
    BY <1>2, <1>3, <1>4, <1>5

-----------------------------------------------------------------------------
(* The containers.                                                         *)

\* Updates from the device and queued transfers leave the caller's own copies alone.
LEMMA HomeStays ==
    ASSUME TypeOK, QueueInv, [Next]_vars, StageIn \/ Transfer \/ UNCHANGED <<host, dev>>
    PROVE  \A c \in Cells : Home(c)' = Home(c)
<1>1. Resident' = Resident
    BY ResidentStays
<1>2. CASE UNCHANGED <<host, dev>>
    BY <1>1, <1>2 DEF Home
<1>3. CASE StageIn
    BY <1>1, <1>3 DEF StageIn, Home
<1>4. CASE Transfer
    BY <1>1, <1>4 DEF Transfer, Home, QueueInv, TypeOK
<1> QED
    BY <1>2, <1>3, <1>4

\* Before the SDFG runs, nothing but these transfers moves data of the caller.
LEMMA PreparingMoves ==
    [Next]_vars /\ pc \in ({"guard", "return", "stopped"} \cup Accepted) \ Running => StageIn \/ Transfer \/ UNCHANGED <<host, dev>>
    BY DEF Next, vars, callerVars, Caller, Substitute, Reassociate, Reallocate, Reconfigure, Finalize, Enter, Idle, Guard,
       Globals, StaticGlobals, Block, Images, Dummies, CopyIn, AliasMembers, LateSymbols, Call, Run, CloseRegion, CopyOut,
       WriteBack, Unpack, Unstage, Return, Original, ReturnOriginal

\* The staging block is left by StageIn alone.
LEMMA OnlyStageInLeaves == [Next]_vars /\ pc = "stage" /\ pc' # "stage" => StageIn
    BY DEF Next, vars, Caller, Substitute, Reassociate, Reallocate, Reconfigure, Finalize, Enter, Idle, Guard, Globals,
       StaticGlobals, Block, Images, Dummies, CopyIn, AliasMembers, LateSymbols, Call, Run, CloseRegion, CopyOut,
       WriteBack, Unpack, Unstage, Return, Original, ReturnOriginal, Transfer

\* After the synchronous updates the host copies stay up to date until the SDFG runs.
LEMMA StagedStep == TypeOK /\ QueueInv /\ StagedInv /\ [Next]_vars => StagedInv'
<1> SUFFICES ASSUME TypeOK, QueueInv, StagedInv, [Next]_vars, lane' = "icon_omp", pc' \in FromGlobals \ Running
             PROVE  \A c \in Cells : host'[c] = Home(c)'
    BY DEF StagedInv
<1>1. lane = "icon_omp"
    BY FixedStays DEF fixed
<1>2. pc \in Accepted \ Running
    BY ControlFlow DEF vars
<1>3. StageIn \/ Transfer \/ UNCHANGED <<host, dev>>
    BY <1>2, PreparingMoves
<1>4. \A c \in Cells : Home(c)' = Home(c)
    BY <1>3, HomeStays
<1>5. CASE StageIn
    BY <1>1, <1>4, <1>5 DEF StageIn
<1>6. CASE Transfer
    BY <1>1, <1>6 DEF Transfer, QueueInv
<1>7. CASE UNCHANGED <<host, dev>> /\ ~StageIn
    <2>1. pc \in FromGlobals \ Running
        BY <1>2, <1>7, OnlyStageInLeaves, ControlFlow DEF vars
    <2> QED
        BY <1>1, <1>4, <1>7, <2>1 DEF StagedInv
<1> QED
    BY <1>3, <1>5, <1>6, <1>7

\* Each container is put in its place once, and stays there.
LEMMA PlacedStep == TypeOK /\ PlacedInv /\ [Next]_vars => PlacedInv'
<1> SUFFICES ASSUME TypeOK, PlacedInv, [Next]_vars, NEW a \in Args, Ready(a)'
             PROVE  (/\ view[a] = IF InPlace(a) /\ Present(a) THEN bound[a] ELSE Own
                     /\ view[a] = Own /\ ~CopiedYet(a) => ownExt[a] = NewExtent(a))'
    BY DEF PlacedInv
<1>1. pc' \in FromStatic /\ pc \in FromGlobals
    BY ControlFlow DEF Ready, vars
<1>2. UNCHANGED <<fixed, bound, extent>>
    BY <1>1, FixedStays, AssociationsStay
<1>3. (InPlace(a)' <=> InPlace(a)) /\ (Present(a)' <=> Present(a)) /\ how' = how
    BY <1>2, ClassesStay, SharingStays DEF fixed
<1>4. NewExtent(a)' = NewExtent(a) /\ (Present(a) => bound[a] # Own)
    BY <1>2, WrapperAssumption DEF NewExtent, Present, TypeOK
<1> DEFINE Goal == /\ view'[a] = IF InPlace(a) /\ Present(a) THEN bound[a] ELSE Own
                   /\ view'[a] = Own /\ ~CopiedYet(a)' => ownExt'[a] = NewExtent(a)
<1> SUFFICES Goal
    BY <1>2, <1>3, <1>4
<1>5. how[a] \in Classes
    BY DEF TypeOK
<1>Globals. CASE Globals
    BY <1>Globals, <1>1, <1>3, <1>4 DEF Globals, Block, Aliased, Of, Ready, NewExtent, InPlace
<1>StaticGlobals. CASE StaticGlobals
    BY <1>StaticGlobals, <1>1, <1>3, <1>4 DEF StaticGlobals, Block, Copied, Buffered, Of, Ready, PlacedInv, InPlace, CopiedYet
<1>Images. CASE Images
    BY <1>Images, <1>1, <1>3, <1>4 DEF Images, Block, Buffered, Of, ImageFits, Ready, PlacedInv, InPlace, CopiedYet
<1>Dummies. CASE Dummies
    BY <1>Dummies, <1>1, <1>3, <1>4 DEF Dummies, Block, Aliased, Of, Ready, PlacedInv, InPlace, CopiedYet, NewExtent
<1>CopyIn. CASE CopyIn
    <2>1. ~SplitRefused /\ pc = "copyin" /\ pc' = "alias"
        BY <1>CopyIn, <1>1 DEF CopyIn, Decline
    <2>2. Buffered(Of({"copied", "value"}), Of({"copied", "value"}))
        BY <1>CopyIn, <2>1 DEF CopyIn, Copied
    <2> QED
        BY <2>1, <2>2, <1>3, <1>4, <1>5 DEF Buffered, Of, Ready, PlacedInv, InPlace, CopiedYet, Classes
<1>AliasMembers. CASE AliasMembers
    BY <1>AliasMembers, <1>1, <1>3, <1>4, <1>5 DEF AliasMembers, Block, Aliased, Of, Ready, PlacedInv, InPlace, CopiedYet,
       Classes, NewExtent
<1>CopyOut. CASE CopyOut
    BY <1>CopyOut, <1>1, <1>3, <1>4 DEF CopyOut, Block, CopiedBack, Of, Ready, PlacedInv, CopiedYet
<1>WriteBack. CASE WriteBack
    BY <1>WriteBack, <1>1, <1>3, <1>4 DEF WriteBack, Block, CopiedBack, Of, Ready, PlacedInv, CopiedYet
<1>Unpack. CASE Unpack
    BY <1>Unpack, <1>1, <1>3, <1>4 DEF Unpack, Block, CopiedBack, Of, Ready, PlacedInv, CopiedYet
<1>others. CASE UNCHANGED <<view, ownExt>> /\ (pc' = pc \/ (pc \in FromSymbols \ Closing /\ pc' \in FromSymbols))
    <2>1. Ready(a) /\ (CopiedYet(a) => CopiedYet(a)')
        BY <1>others, <1>1, <1>3 DEF Ready, CopiedYet
    <2> QED
        BY <1>others, <2>1, <1>3, <1>4 DEF PlacedInv
<1> QED
    <2>1. \/ Globals \/ StaticGlobals \/ Images \/ Dummies \/ CopyIn \/ AliasMembers \/ CopyOut \/ WriteBack \/ Unpack
          \/ UNCHANGED <<view, ownExt>> /\ (pc' = pc \/ (pc \in FromSymbols \ Closing /\ pc' \in FromSymbols))
        BY <1>1 DEF Next, vars, containers, Caller, Substitute, Reassociate, Reallocate, Reconfigure, Finalize, Enter,
           Idle, Guard, Block, StageIn, LateSymbols, Call, Run, CloseRegion, Unstage, Return, Original, ReturnOriginal,
           Transfer
    <2> QED
        BY <2>1, <1>Globals, <1>StaticGlobals, <1>Images, <1>Dummies, <1>CopyIn, <1>AliasMembers, <1>CopyOut, <1>WriteBack,
           <1>Unpack, <1>others

\* The extent symbols are right when they have been assigned.
LEMMA SymbolStep == TypeOK /\ PlacedInv /\ SymbolInv /\ [Next]_vars => SymbolInv'
<1> SUFFICES ASSUME TypeOK, PlacedInv, SymbolInv, [Next]_vars, pc' \in FromStatic
             PROVE  SymbolInv'
    BY DEF SymbolInv
<1>1. pc \in FromGlobals
    BY ControlFlow DEF vars
<1>2. UNCHANGED <<fixed, bound, extent>> /\ how' = how
    BY <1>1, FixedStays, AssociationsStay DEF fixed
<1>3. \A a \in Args : NewExtent(a)' = NewExtent(a)
    BY <1>2 DEF NewExtent, Present
<1>Globals. CASE Globals
    BY <1>Globals, <1>2, <1>3 DEF Globals, Block, Symbols, Of, SymbolInv, EarlySymbols
<1>LateSymbols. CASE LateSymbols
    <2>1. \A a \in Args : SizeOf(a)' = SizeOf(a)
        BY <1>LateSymbols, <1>2 DEF LateSymbols, SizeOf
    <2>2. \A a \in Args : how[a] \in EarlySymbols => sym[a] = SizeOf(a)
        <3> SUFFICES ASSUME NEW a \in Args, how[a] \in EarlySymbols PROVE sym[a] = SizeOf(a)
            OBVIOUS
        <3>1. sym[a] = NewExtent(a) /\ Ready(a) /\ ~CopiedYet(a)
            BY <1>LateSymbols DEF LateSymbols, Block, SymbolInv, Ready, CopiedYet
        <3> QED
            BY <3>1, WrapperAssumption DEF PlacedInv, SizeOf, NewExtent, Present, TypeOK
    <2> QED
        BY <1>LateSymbols, <1>2, <1>3, <2>1, <2>2 DEF LateSymbols, Block, SymbolInv, EarlySymbols
<1>others. CASE sym' = sym /\ pc \in FromStatic /\ (pc' \in {"call", "run"} => pc \in {"call", "run"} /\ UNCHANGED <<view, ownExt>>)
    <2>1. pc' \in {"call", "run"} => \A a \in Args : SizeOf(a)' = SizeOf(a)
        BY <1>others, <1>2 DEF SizeOf
    <2> QED
        BY <1>others, <1>2, <1>3, <2>1 DEF SymbolInv, EarlySymbols
<1> QED
    <2>1. Globals \/ LateSymbols \/ (sym' = sym /\ pc # "globals")
        BY <1>1 DEF Next, vars, containers, Caller, Substitute, Reassociate, Reallocate, Reconfigure, Finalize, Enter,
           Idle, Guard, Block, Decline, StageIn, Call, Run, CloseRegion, Unstage, Return, Original, ReturnOriginal,
           Transfer, StaticGlobals, Images, Dummies, CopyIn, AliasMembers, CopyOut, WriteBack, Unpack, CopiedBack
    <2>2. pc' \in {"call", "run"} => LateSymbols \/ (pc \in {"call", "run"} /\ UNCHANGED <<view, ownExt>>)
        BY <1>1 DEF Next, vars, containers, Caller, Substitute, Reassociate, Reallocate, Reconfigure, Finalize, Enter,
           Idle, Guard, Block, Decline, StageIn, Globals, Call, Run, CloseRegion, Unstage, Return, Original,
           ReturnOriginal, Transfer, StaticGlobals, Images, Dummies, CopyIn, AliasMembers, CopyOut, WriteBack, Unpack,
           CopiedBack
    <2> QED
        BY <1>1, <2>1, <2>2, <1>Globals, <1>LateSymbols, <1>others

\* The blocks that fill buffers, name by name: a new buffer gets the members' contents.
LEMMA BuffersFilled ==
    ASSUME TypeOK, [Next]_vars, pc \in FromGlobals \ Running, pc' \in FromStatic \ Running, NEW a \in Args
    PROVE  \/ own'[a] = own[a] /\ ownExt'[a] = ownExt[a] /\ (Ready(a)' => Ready(a) \/ (InPlace(a) \/ how[a] = "kept"))
           \/ how[a] # "kept" /\ own'[a] = NewContents(a)
           \/ InPlace(a) /\ ~Present(a)
           \/ how[a] = "kept" /\ own'[a] = NewContents(a) /\ ownExt'[a] = NewExtent(a) /\ ~ImageFits(a) /\ pc = "images"
<1>1. how[a] \in Classes /\ how' = how /\ (InPlace(a)' <=> InPlace(a))
    BY FixedStays, ClassesStay DEF fixed, TypeOK
<1>Globals. CASE Globals
    BY <1>1, <1>Globals DEF Globals, Block, Aliased, Of, Ready, InPlace
<1>StaticGlobals. CASE StaticGlobals
    BY <1>1, <1>StaticGlobals DEF StaticGlobals, Block, Copied, Buffered, Of, Ready, InPlace
<1>Images. CASE Images
    BY <1>1, <1>Images DEF Images, Block, Buffered, Of, Ready, InPlace
<1>Dummies. CASE Dummies
    BY <1>1, <1>Dummies DEF Dummies, Block, Aliased, Of, Ready, InPlace
<1>CopyIn. CASE CopyIn
    <2>1. ~SplitRefused /\ pc = "copyin" /\ pc' = "alias"
        BY <1>CopyIn DEF CopyIn, Decline
    <2>2. Buffered(Of({"copied", "value"}), Of({"copied", "value"}))
        BY <1>CopyIn, <2>1 DEF CopyIn, Copied
    <2> QED
        BY <1>1, <2>1, <2>2 DEF Buffered, Of, Ready, Classes, InPlace
<1>AliasMembers. CASE AliasMembers
    BY <1>1, <1>AliasMembers DEF AliasMembers, Block, Aliased, Of, Ready, Classes, InPlace
<1>others. CASE UNCHANGED <<own, ownExt>> /\ (pc' = pc \/ pc = "symbols")
    BY <1>1, <1>others DEF Ready
<1> QED
    <2>1. Globals \/ StaticGlobals \/ Images \/ Dummies \/ CopyIn \/ AliasMembers
              \/ (UNCHANGED <<own, ownExt>> /\ (pc' = pc \/ pc = "symbols"))
        BY DEF Next, vars, containers, Caller, Substitute, Reassociate, Reallocate, Reconfigure, Finalize, Enter, Idle,
           Guard, Block, StageIn, LateSymbols, Call, Run, CloseRegion, CopyOut, WriteBack, Unpack, Unstage, Return,
           Original, ReturnOriginal, Transfer
    <2> QED
        BY <2>1, <1>Globals, <1>StaticGlobals, <1>Images, <1>Dummies, <1>CopyIn, <1>AliasMembers, <1>others

\* What a new buffer is filled with is the caller's value.
LEMMA ContentsAreHome ==
    TypeOK /\ BindingInv /\ ConformInv /\ StagedInv /\ pc \in FromGlobals \ Running =>
        \A a \in Args : Present(a) /\ (Used(a) \/ how[a] = "kept") => NewContents(a) = Home(bound[a])
    BY SideIsHome DEF StagedInv, NewContents

\* A filled buffer keeps the caller's value until the SDFG runs.
LEMMA FilledStep ==
    ASSUME TypeOK, BindingInv, ConformInv, QueueInv, StagedInv, PlacedInv, FilledInv, [Next]_vars
    PROVE  FilledInv'
<1> SUFFICES ASSUME NEW a \in Args, (Ready(a) /\ pc \notin Running /\ Present(a) /\ Used(a) /\ view[a] = Own /\ how[a] # "kept")'
             PROVE  own'[a] = Home(bound[a])'
    BY DEF FilledInv
<1>1. pc' \in FromStatic \ Running /\ pc \in FromGlobals \ Running
    BY ControlFlow DEF Ready, vars
<1>2. UNCHANGED <<fixed, bound, extent>> /\ how' = how
    BY <1>1, FixedStays, AssociationsStay DEF fixed
<1>3. Present(a) /\ Used(a) /\ how[a] # "kept" /\ bound[a] \in Cells
    BY <1>2, ClassesStay, SharingStays DEF Present, TypeOK
<1>4. \A c \in Cells : Home(c)' = Home(c)
    BY <1>1, PreparingMoves, HomeStays
<1>5. ~InPlace(a)
    <2>1. PlacedInv'
        BY PlacedStep
    <2>2. InPlace(a)' => view'[a] = bound'[a]
        BY <2>1 DEF PlacedInv
    <2> QED
        BY <1>2, <1>3, <2>2, ClassesStay, WrapperAssumption
<1>6. CASE own'[a] = own[a] /\ Ready(a)
    <2>1. view[a] = Own
        BY <1>5, <1>6 DEF PlacedInv
    <2> QED
        BY <1>1, <1>2, <1>3, <1>4, <1>6, <2>1 DEF FilledInv
<1>7. CASE own'[a] = NewContents(a)
    BY <1>1, <1>2, <1>3, <1>4, <1>7, ContentsAreHome
<1> QED
    BY <1>1, <1>3, <1>5, <1>6, <1>7, BuffersFilled

-----------------------------------------------------------------------------
(* The value of a cell, before and after a step.                           *)

\* The same facts after a step.
LEMMA LogicalQuietNext ==
    (ConformInv /\ TypeOK => \A c \in Cells : Writers(c) = {} =>
        /\ \A a \in Args : bound[a] = c /\ Image(a) => Logical[c] = own[a]
        /\ (\A a \in Args : bound[a] = c => ~Image(a)) => Logical[c] = Home(c))'
    BY LogicalQuiet, PTL

\* The same for a written cell.
LEMMA LogicalWrittenNext ==
    (ConformInv /\ TypeOK /\ GuardInv /\ PlacedInv /\ pc \in Running =>
        \A a \in Args : Present(a) /\ Written(a) => Logical[bound[a]] = Current(a))'
    BY LogicalWritten, PTL

\* The values are a function on the cells.
LEMMA LogicalFunction == Logical = [c \in Cells |-> Logical[c]] /\ Logical' = [c \in Cells |-> Logical'[c]]
    BY DEF Logical

\* A kept image goes out of use only with its extent.
LEMMA ImageStays ==
    ASSUME UNCHANGED <<fixed, bound, extent>>
    PROVE  \A a \in Args : ownExt'[a] = ownExt[a] => (Image(a)' <=> Image(a))
    BY DEF Image, Present, fixed

\* Outside the writing blocks a value is never wild when the caller's copies and the images are not.
LEMMA QuietValues ==
    ConformInv /\ TypeOK /\ HomeInv /\ KeptInv /\ pc \notin Running => LogicalInv
<1> SUFFICES ASSUME ConformInv, TypeOK, HomeInv, KeptInv, pc \notin Running, NEW c \in Cells
             PROVE  Logical[c] \in Values
    BY DEF LogicalInv
<1>1. Writers(c) = {}
    BY DEF Writers
<1>2. CASE \E a \in Args : bound[a] = c /\ Image(a)
    BY <1>1, <1>2, LogicalQuiet DEF Image, KeptInv
<1>3. CASE \A a \in Args : bound[a] = c => ~Image(a)
    BY <1>1, <1>3, LogicalQuiet DEF HomeInv
<1> QED
    BY <1>2, <1>3

\* The same after a step.
LEMMA QuietValuesNext == (ConformInv /\ TypeOK /\ HomeInv /\ KeptInv /\ pc \notin Running => LogicalInv)'
    BY QuietValues, PTL

\* A cell nobody writes keeps its value when the caller's copy and its image stay.
LEMMA UnwrittenStays ==
    ASSUME ConformInv, TypeOK, ConformInv', TypeOK', bound' = bound, NEW c \in Cells,
           Writers(c) = {}, Writers(c)' = {}, Home(c)' = Home(c),
           \A a \in Args : bound[a] = c => (Image(a)' <=> Image(a)) /\ (Image(a) => own'[a] = own[a])
    PROVE  Logical'[c] = Logical[c]
<1>1. CASE \E a \in Args : bound[a] = c /\ Image(a)
    <2>1. PICK a \in Args : bound[a] = c /\ Image(a)
        BY <1>1
    <2>2. Logical[c] = own[a]
        BY <2>1, LogicalQuiet
    <2>3. Image(a)' /\ own'[a] = own[a]
        BY <2>1
    <2>4. Logical'[c] = own'[a]
        BY <2>1, <2>3, LogicalQuietNext
    <2> QED
        BY <2>2, <2>3, <2>4
<1>2. CASE \A a \in Args : bound[a] = c => ~Image(a)
    <2>1. Logical[c] = Home(c)
        BY <1>2, LogicalQuiet
    <2>2. Logical'[c] = Home(c)'
        BY <1>2, LogicalQuietNext
    <2> QED
        BY <2>1, <2>2
<1> QED
    BY <1>1, <1>2

\* The conjuncts of Base are preserved together.
LEMMA BaseStep == Base /\ HomeInv /\ [Next]_vars => Base'
    BY TypeStep, BindingStep, AtStep, ConformStep, QueueStep, GuardStep, HandleStep, StagedStep, PlacedStep, SymbolStep,
       FilledStep DEF Base

-----------------------------------------------------------------------------
(* The blocks in which the SDFG and the copies back write.                 *)

\* When the SDFG is called, every container it uses holds the value of its cell.
LEMMA BeforeCall ==
    Base /\ pc = "call" => \A a \in Args : Present(a) /\ Used(a) => Behind(a) = Logical[bound[a]]
<1> SUFFICES ASSUME Base, pc = "call", NEW a \in Args, Present(a), Used(a)
             PROVE  Behind(a) = Logical[bound[a]]
    OBVIOUS
<1> USE DEF Base
<1>1. bound[a] \in Cells /\ bound[a] # Own /\ Writers(bound[a]) = {} /\ Ready(a) /\ ~CopiedYet(a)
    BY WrapperAssumption DEF TypeOK, Present, Writers, Ready, CopiedYet
<1>2. CASE how[a] = "kept"
    <2>1. view[a] = Own /\ ownExt[a] = NewExtent(a)
        BY <1>1, <1>2 DEF PlacedInv, InPlace
    <2>2. Image(a)
        <3>1. NewExtent(a) = extent[bound[a]] /\ NewExtent(a) # 0
            BY OperatorTypes DEF NewExtent
        <3> QED
            BY <1>2, <2>1, <3>1 DEF Image
    <2>3. Logical[bound[a]] = own[a]
        BY <1>1, <2>2, LogicalQuiet
    <2> QED
        BY <2>1, <2>3, BehindView
<1>3. CASE how[a] # "kept"
    <2>1. \A b \in Args : bound[b] = bound[a] => ~Image(b)
        <3> SUFFICES ASSUME NEW b \in Args, bound[b] = bound[a], how[b] = "kept", Present(b) PROVE FALSE
            BY DEF Image
        <3> QED
            BY <1>3, KeptAlone
    <2>2. Logical[bound[a]] = Home(bound[a])
        BY <1>1, <2>1, LogicalQuiet
    <2>3. CASE view[a] = Own
        BY <1>1, <1>3, <2>2, <2>3, BehindView DEF FilledInv
    <2>4. CASE view[a] = bound[a]
        <3>1. Side(a)[bound[a]] = Home(bound[a])
            BY SideIsHome DEF StagedInv
        <3> QED
            BY <1>1, <2>2, <2>4, <3>1, BehindView
    <2> QED
        BY <1>1, <2>3, <2>4 DEF PlacedInv
<1> QED
    BY <1>2, <1>3

\* Calling the SDFG changes no value, and each container it uses has the value of its cell.
LEMMA CallWrites ==
    ASSUME Base, Base', Call
    PROVE  Logical' = Logical /\ RunInv'
<1> USE DEF Base
<1>1. /\ pc = "call" /\ pc' = "run"
      /\ UNCHANGED <<fixed, bound, extent, host, dev, view, own, ownExt>>
      /\ region' = [a \in Args |-> IF InRegion(a) THEN Behind(a) ELSE Wild]
    BY DEF Call, Block, callerVars, containers
<1>2. \A a \in Args : Behind(a)' = Behind(a)
    BY <1>1, ClassesStay DEF Behind, Side
<1>3. \A a \in Args : Container(a)' = Behind(a)
    BY <1>1, <1>2, ClassesStay DEF Container
<1>4. ASSUME NEW c \in Cells PROVE Logical'[c] = Logical[c]
    <2>1. CASE \E a \in Args : bound[a] = c /\ Written(a)
        <3>1. PICK a \in Args : bound[a] = c /\ Written(a)
            BY <2>1
        <3>2. Present(a) /\ Used(a) /\ Present(a)' /\ Written(a)' /\ bound'[a] = c
            BY <1>1, <3>1, ClassesStay, WrapperAssumption DEF Present, Used, Written
        <3>3. Logical'[c] = Current(a)'
            BY <1>1, <3>2, LogicalWrittenNext
        <3>4. Current(a)' = Container(a)'
            <4>1. Ready(a)' /\ ~CopiedYet(a)'
                BY <1>1 DEF Ready, CopiedYet
            <4>2. view'[a] = Own \/ view'[a] = c
                BY <3>2, <4>1 DEF PlacedInv
            <4> QED
                BY <1>1, <3>2, <4>1, <4>2, BehindViewNext, WrapperAssumption DEF Current, Container
        <3> QED
            BY <1>1, <1>3, <3>1, <3>2, <3>3, <3>4, BeforeCall
    <2>2. CASE \A a \in Args : bound[a] = c => ~Written(a)
        <3>1. Writers(c) = {} /\ Writers(c)' = {}
            BY <1>1, <2>2, ClassesStay DEF Writers
        <3>2. Home(c)' = Home(c)
            BY <1>1, SharingStays DEF Home
        <3>3. \A a \in Args : (Image(a)' <=> Image(a)) /\ own'[a] = own[a]
            BY <1>1, ImageStays
        <3> QED
            BY <1>1, <3>1, <3>2, <3>3, UnwrittenStays
    <2> QED
        BY <2>1, <2>2
<1>5. Logical' = Logical
    BY <1>4, LogicalFunction
<1>6. RunInv'
    <2> SUFFICES ASSUME NEW a \in Args, Present(a)', Used(a)'
                 PROVE  Container(a)' = Logical'[bound'[a]]
        BY DEF RunInv
    <2>1. Present(a) /\ Used(a)
        BY <1>1, ClassesStay DEF Present
    <2> QED
        BY <1>1, <1>3, <1>5, <2>1, BeforeCall
<1> QED
    BY <1>5, <1>6

\* A name the SDFG uses is found with the right extent, an open handle and the value of its cell.
LEMMA Found ==
    IInv /\ pc = "run" => \A a \in Args : Present(a) /\ Used(a) =>
        /\ Specialised /\ sym[a] = SizeOf(a)
        /\ Holds(a) = Logical[bound[a]] /\ Holds(a) \in Values /\ Holds(a) # Wild
<1> SUFFICES ASSUME IInv, pc = "run", NEW a \in Args, Present(a), Used(a)
             PROVE  /\ Specialised /\ sym[a] = SizeOf(a)
                    /\ Holds(a) = Logical[bound[a]] /\ Holds(a) \in Values /\ Holds(a) # Wild
    OBVIOUS
<1> USE DEF IInv, Base
<1>1. Specialised /\ sym[a] = SizeOf(a) /\ handle # 0
    BY DEF GuardInv, SymbolInv, HandleInv
<1>2. Holds(a) = Container(a)
    BY <1>1 DEF Holds, Reachable, Container
<1>3. Container(a) = Logical[bound[a]]
    BY DEF RunInv
<1>4. bound[a] \in Cells
    BY DEF Present, TypeOK
<1> QED
    BY <1>1, <1>2, <1>3, <1>4, WrapperAssumption DEF LogicalInv

\* A store reaches the container of its destination, and of no name that stands for another cell.
LEMMA StoreEffect ==
    ASSUME Base, Base', pc = "run", pc' = "run", UNCHANGED <<fixed, bound, view>>,
           NEW d \in Args, Present(d), NEW v \in Values, Store(d, v)
    PROVE  /\ Container(d)' = v /\ Current(d)' = v
           /\ \A a \in Args : Present(a) /\ bound[a] # bound[d] =>
                 Container(a)' = Container(a) /\ Current(a)' = Current(a) /\ own'[a] = own[a]
           /\ \A c \in Cells : c # bound[d] => host'[c] = host[c] /\ dev'[c] = dev[c]
           /\ own'[d] \in {own[d], v}
           /\ host'[bound[d]] \in {host[bound[d]], v} /\ dev'[bound[d]] \in {dev[bound[d]], v}
<1> USE DEF Base
<1>1. /\ \A a \in Args : Ready(a) /\ ~CopiedYet(a) /\ ~CopiedYet(a)'
      /\ bound[d] \in Cells
    BY DEF Ready, CopiedYet, Present, TypeOK
<1>2. \A a \in Args : Present(a) => view[a] \in {Own, bound[a]}
    BY <1>1 DEF PlacedInv
<1>3. \A a \in Args : (InRegion(a)' <=> InRegion(a)) /\ (OnHost(a)' <=> OnHost(a)) /\ (OnHost(a) <=> lane # "device" \/ InRegion(a))
    BY ClassesStay DEF OnHost
<1>4. CASE InRegion(d)
    <2>1. region' = [region EXCEPT ![d] = v] /\ UNCHANGED <<own, host, dev>>
        BY <1>4 DEF Store
    <2>2. \A a \in Args : Behind(a)' = Behind(a) /\ Side(a)' = Side(a)
        BY <1>3, <2>1 DEF Behind, Side
    <2>3. region'[d] = v /\ \A a \in Args : a # d => region'[a] = region[a]
        BY <2>1 DEF TypeOK
    <2> QED
        BY <1>1, <1>3, <1>4, <2>1, <2>2, <2>3 DEF Container, Current
<1>5. CASE ~InRegion(d) /\ view[d] = Own
    <2>1. own' = [own EXCEPT ![d] = v] /\ UNCHANGED <<region, host, dev>>
        BY <1>5 DEF Store
    <2>2. own'[d] = v /\ \A a \in Args : a # d => own'[a] = own[a]
        BY <2>1 DEF TypeOK
    <2>3. \A a \in Args : Side(a)' = Side(a)
        BY <1>3, <2>1 DEF Side
    <2>4. \A a \in Args : a # d => Behind(a)' = Behind(a)
        BY <2>2, <2>3 DEF Behind
    <2>5. Behind(d)' = v
        BY <1>5, <2>2, BehindViewNext
    <2> QED
        BY <1>1, <1>3, <1>5, <2>1, <2>2, <2>3, <2>4, <2>5 DEF Container, Current
<1>6. CASE ~InRegion(d) /\ view[d] # Own
    <2>1. view[d] = bound[d] /\ UNCHANGED <<region, own>>
        BY <1>2, <1>6 DEF Store
    <2>2. /\ host' = IF OnHost(d) THEN [host EXCEPT ![bound[d]] = v] ELSE host
          /\ dev' = IF OnHost(d) THEN dev ELSE [dev EXCEPT ![bound[d]] = v]
        BY <1>3, <1>6, <2>1 DEF Store
    <2>3. \A c \in Cells : c # bound[d] => host'[c] = host[c] /\ dev'[c] = dev[c]
        BY <2>2 DEF TypeOK
    <2>4. Side(d)'[bound[d]] = v
        BY <1>1, <1>3, <2>2 DEF Side, TypeOK
    <2>5. Behind(d)' = v
        BY <1>1, <2>1, <2>4, BehindViewNext
    <2>6. ASSUME NEW a \in Args, Present(a), bound[a] # bound[d]
          PROVE  Behind(a)' = Behind(a) /\ Side(a)'[bound[a]] = Side(a)[bound[a]]
        <3>1. bound[a] \in Cells
            BY <2>6 DEF Present, TypeOK
        <3>2. Side(a)'[bound[a]] = Side(a)[bound[a]]
            BY <1>3, <2>3, <2>6, <3>1 DEF Side
        <3> QED
            BY <1>2, <2>1, <2>6, <3>1, <3>2, BehindView, BehindViewNext
    <2>7. host'[bound[d]] \in {host[bound[d]], v} /\ dev'[bound[d]] \in {dev[bound[d]], v}
        BY <1>1, <2>2 DEF TypeOK
    <2>8. Container(d)' = v /\ Current(d)' = v
        BY <1>1, <1>3, <1>6, <2>4, <2>5 DEF Container, Current
    <2> QED
        BY <1>1, <1>3, <2>1, <2>3, <2>6, <2>7, <2>8 DEF Container, Current
<1> QED
    BY <1>4, <1>5, <1>6

\* The values depend on these variables alone.
LEMMA LogicalStays ==
    UNCHANGED <<fixed, bound, extent, host, dev, pc, view, own, ownExt, region>> => Logical' = Logical
    BY DEF fixed, Logical, Writers, Current, CopiedYet, Written, InRegion, Side, OnHost, Image, Present, Home, Resident,
       OnDevice

\* The statement of the SDFG is the routine's: what it finds and what it leaves are the values of the cells.
LEMMA RunWrites ==
    ASSUME IInv, Base', Run
    PROVE  /\ \/ Logical' = Logical
              \/ LET s == code[at]
                 IN  /\ Present(s.dst) /\ Present(s.src)
                     /\ Logical' = [Logical EXCEPT ![bound[s.dst]] = Apply(at, Logical[bound[s.src]])]
           /\ HomeInv' /\ KeptInv' /\ LogicalInv' /\ RunInv'
<1> USE DEF IInv, Base
<1>1. /\ pc = "run" /\ pc' = "run" /\ at <= Len(code) /\ at # 0
      /\ UNCHANGED <<fixed, bound, extent, view, ownExt, took>> /\ how' = how
    BY DEF Run, AtInv, fixed
<1>2. /\ Resident' = Resident
      /\ \A a \in Args : (Present(a)' <=> Present(a)) /\ (Written(a)' <=> Written(a)) /\ (Used(a)' <=> Used(a))
      /\ \A a \in Args : Image(a)' <=> Image(a)
    BY <1>1, ClassesStay, SharingStays, ImageStays
<1>3. CASE UNCHANGED <<own, host, dev, region>>
    <2>1. Logical' = Logical
        BY <1>1, <1>3, LogicalStays
    <2>2. \A a \in Args : Container(a)' = Container(a)
        BY <1>1, <1>3, ClassesStay DEF Container, Behind, Side
    <2>3. \A c \in Cells : Home(c)' = Home(c)
        BY <1>2, <1>3 DEF Home
    <2>4. HomeInv' /\ LogicalInv'
        BY <2>1, <2>3 DEF HomeInv, LogicalInv
    <2>5. KeptInv'
        BY <1>1, <1>2, <1>3 DEF KeptInv
    <2>6. RunInv'
        BY <1>1, <1>2, <2>1, <2>2 DEF RunInv
    <2> QED
        BY <2>1, <2>4, <2>5, <2>6
<1>4. CASE ~UNCHANGED <<own, host, dev, region>>
    <2> DEFINE s == code[at]
               sane == Specialised /\ Holds(s.src) # Wild /\ sym[s.dst] = SizeOf(s.dst)
    <2>1. Present(s.dst) /\ Present(s.src) /\ Store(s.dst, IF sane THEN Apply(at, Holds(s.src)) ELSE Wild)
        BY <1>4 DEF Run
    <2>2. s.dst \in Args /\ s.src \in Args /\ Used(s.dst) /\ Used(s.src) /\ Written(s.dst) /\ at \in 0 .. Len(code)
        BY <1>1, StatementTypes DEF Used, Written, TypeOK
    <2>3. sane /\ Holds(s.src) = Logical[bound[s.src]] /\ Holds(s.src) \in Values
        BY <1>1, <2>1, <2>2, Found
    <2>4. PICK d \in Args, v \in Values :
             /\ d = s.dst /\ v = Apply(at, Logical[bound[s.src]])
             /\ Present(d) /\ Used(d) /\ Written(d) /\ Store(d, v)
        BY <2>1, <2>2, <2>3, ApplyType
    <2> HIDE DEF s
    <2>5. /\ Container(d)' = v /\ Current(d)' = v
          /\ \A a \in Args : Present(a) /\ bound[a] # bound[d] =>
                Container(a)' = Container(a) /\ Current(a)' = Current(a) /\ own'[a] = own[a]
          /\ \A c \in Cells : c # bound[d] => host'[c] = host[c] /\ dev'[c] = dev[c]
          /\ own'[d] \in {own[d], v}
          /\ host'[bound[d]] \in {host[bound[d]], v} /\ dev'[bound[d]] \in {dev[bound[d]], v}
        BY <1>1, <2>4, StoreEffect
    <2>6. bound[d] \in Cells /\ Logical'[bound[d]] = v
        <3>1. Logical'[bound'[d]] = Current(d)'
            BY <1>1, <1>2, <2>4, LogicalWrittenNext
        <3> QED
            BY <1>1, <2>4, <2>5, <3>1 DEF Present, TypeOK
    <2>7. ASSUME NEW c \in Cells, c # bound[d] PROVE Logical'[c] = Logical[c]
        <3>1. CASE \E a \in Args : bound[a] = c /\ Written(a)
            <4>1. PICK a \in Args : bound[a] = c /\ Written(a)
                BY <3>1
            <4>2. Present(a) /\ bound'[a] = c
                BY <1>1, <4>1, WrapperAssumption DEF Present
            <4>3. Logical[c] = Current(a) /\ Logical'[c] = Current(a)'
                BY <1>1, <1>2, <4>1, <4>2, LogicalWritten, LogicalWrittenNext
            <4> QED
                BY <2>5, <2>7, <4>1, <4>2, <4>3
        <3>2. CASE \A a \in Args : bound[a] = c => ~Written(a)
            <4>1. Writers(c) = {} /\ Writers(c)' = {}
                BY <1>1, <1>2, <3>2 DEF Writers
            <4>2. Home(c)' = Home(c)
                BY <1>2, <2>5, <2>7 DEF Home
            <4>3. \A a \in Args : bound[a] = c => (Image(a)' <=> Image(a)) /\ own'[a] = own[a]
                BY <1>2, <2>5, <2>7, WrapperAssumption DEF Present
            <4> QED
                BY <1>1, <4>1, <4>2, <4>3, UnwrittenStays
        <3> QED
            BY <3>1, <3>2
    <2>8. Logical' = [Logical EXCEPT ![bound[d]] = v]
        <3> DEFINE L == Logical
        <3>1. L = [c \in Cells |-> L[c]] /\ Logical' = [c \in Cells |-> Logical'[c]]
            BY LogicalFunction
        <3> HIDE DEF L
        <3>2. \A c \in Cells : Logical'[c] = IF c = bound[d] THEN v ELSE L[c]
            BY <2>6, <2>7 DEF L
        <3>3. Logical' = [L EXCEPT ![bound[d]] = v]
            BY <3>1, <3>2
        <3> QED
            BY <3>3 DEF L
    <2>9. HomeInv' /\ LogicalInv'
        <3>1. \A c \in Cells : Home(c)' \in {Home(c), v}
            BY <1>2, <2>5 DEF Home
        <3> QED
            BY <3>1, <2>4, <2>6, <2>7 DEF HomeInv, LogicalInv
    <2>10. KeptInv'
        <3> SUFFICES ASSUME NEW a \in Args, how[a] = "kept", Present(a), ownExt[a] # 0 PROVE own'[a] \in Values
            BY <1>1, <1>2 DEF KeptInv
        <3>1. own[a] \in Values
            BY DEF KeptInv
        <3>2. CASE a = d
            BY <2>4, <2>5, <3>1, <3>2
        <3>3. CASE a # d
            <4>1. bound[a] # bound[d]
                BY <2>4, <3>3, KeptAlone
            <4> QED
                BY <2>5, <3>1, <4>1
        <3> QED
            BY <3>2, <3>3
    <2>11. RunInv'
        <3> SUFFICES ASSUME NEW a \in Args, Present(a), Used(a) PROVE Container(a)' = Logical'[bound[a]]
            BY <1>1, <1>2 DEF RunInv
        <3>1. bound[a] \in Cells
            BY DEF Present, TypeOK
        <3>2. CASE bound[a] # bound[d]
            BY <1>1, <2>5, <2>7, <3>1, <3>2 DEF RunInv
        <3>3. CASE a = d
            BY <2>5, <2>6, <3>3
        <3>4. CASE a # d /\ bound[a] = bound[d]
            <4>1. InPlace(a) /\ InPlace(d) /\ lane # "offload"
                BY <1>1, <2>4, <3>4, SharedInPlace DEF GuardInv
            <4>2. ~InRegion(a) /\ ~InRegion(d) /\ ~InRegion(a)' /\ ~InRegion(d)'
                BY <1>1, <2>4, <4>1, InPlaceOutsideRegion, ClassesStay
            <4>3. view[a] = bound[a] /\ view[d] = bound[d]
                BY <1>1, <2>4, <4>1 DEF PlacedInv, Ready
            <4>4. Behind(a)' = Side(a)'[bound[a]] /\ Behind(d)' = Side(d)'[bound[d]]
                BY <1>1, <2>4, <3>1, <3>4, <4>3, BehindViewNext
            <4>5. Side(a)' = Side(d)'
                BY <4>2 DEF Side, OnHost
            <4> QED
                BY <2>5, <2>6, <3>4, <4>2, <4>4, <4>5 DEF Container
        <3> QED
            BY <3>2, <3>3, <3>4
    <2> QED
        BY <2>1, <2>4, <2>8, <2>9, <2>10, <2>11 DEF s
<1> QED
    BY <1>3, <1>4

\* Until the last copy back, a value stays when the place it is in at least holds the same.
LEMMA ValuesStay ==
    ASSUME Base, Base', pc \in Running, pc' \in Running, UNCHANGED <<fixed, bound, extent>>,
           \A a \in Args : Present(a) /\ Written(a) => Current(a)' = Current(a),
           \A c \in Cells : (\A a \in Args : bound[a] = c => ~Written(a)) => Home(c)' = Home(c),
           \A a \in Args : how[a] = "kept" => ownExt'[a] = ownExt[a] /\ (Written(a) \/ own'[a] = own[a])
    PROVE  Logical' = Logical
<1> USE DEF Base
<1>1. ASSUME NEW c \in Cells PROVE Logical'[c] = Logical[c]
    <2>1. CASE \E a \in Args : bound[a] = c /\ Written(a)
        <3>1. PICK a \in Args : bound[a] = c /\ Written(a)
            BY <2>1
        <3>2. Present(a) /\ bound'[a] = c /\ Present(a)' /\ Written(a)'
            BY <3>1, WrapperAssumption, ClassesStay DEF Present
        <3>3. Logical[c] = Current(a) /\ Logical'[c] = Current(a)'
            BY <3>1, <3>2, LogicalWritten, LogicalWrittenNext
        <3> QED
            BY <3>1, <3>2, <3>3
    <2>2. CASE \A a \in Args : bound[a] = c => ~Written(a)
        <3>1. Writers(c) = {} /\ Writers(c)' = {}
            BY <2>2, ClassesStay DEF Writers
        <3>2. Home(c)' = Home(c)
            BY <2>2
        <3>3. \A a \in Args : bound[a] = c => (Image(a)' <=> Image(a)) /\ (Image(a) => own'[a] = own[a])
            BY <2>2, ImageStays DEF Image, fixed
        <3> QED
            BY <3>1, <3>2, <3>3, UnwrittenStays
    <2> QED
        BY <2>1, <2>2
<1> QED
    BY <1>1, LogicalFunction

\* At the end of the DATA region a value moves from the device copy to the container.
LEMMA CloseRegionWrites ==
    ASSUME IInv, Base', CloseRegion
    PROVE  Logical' = Logical /\ HomeInv' /\ KeptInv' /\ LogicalInv' /\ RunInv'
<1> USE DEF IInv, Base
<1>1. /\ pc = "run" /\ pc' = "copyout"
      /\ UNCHANGED <<fixed, bound, extent, dev, view, ownExt, took>> /\ how' = how
    BY DEF CloseRegion, fixed
<1>2. /\ \A a \in Args : own'[a] = IF Back(a) /\ view[a] = Own THEN region[a] ELSE own[a]
      /\ \A c \in Cells : IF \E a \in Args : Back(a) /\ view[a] = c
                          THEN \E a \in Args : Back(a) /\ view[a] = c /\ host'[c] = region[a]
                          ELSE host'[c] = host[c]
    BY CloseRegionEffect
<1>3. /\ Resident' = Resident
      /\ \A a \in Args : (Present(a)' <=> Present(a)) /\ (Written(a)' <=> Written(a)) /\ (InRegion(a)' <=> InRegion(a))
      /\ \A a \in Args : OnHost(a)' <=> OnHost(a)
    BY <1>1, ClassesStay, SharingStays
<1>4. \A a \in Args : /\ view[a] = IF InPlace(a) /\ Present(a) THEN bound[a] ELSE Own
                      /\ ~CopiedYet(a)'
    BY <1>1 DEF PlacedInv, Ready, CopiedYet
<1>5. \A a \in Args : Back(a) /\ Present(a) => region[a] \in Values /\ bound[a] \in Cells
    <2> SUFFICES ASSUME NEW a \in Args, Back(a), Present(a) PROVE region[a] \in Values /\ bound[a] \in Cells
        OBVIOUS
    <2>1. Used(a) /\ bound[a] \in Cells
        BY DEF Back, Used, Written, Present, TypeOK
    <2>2. region[a] = Logical[bound[a]]
        BY <1>1, <2>1 DEF RunInv, Container, Back
    <2> QED
        BY <2>1, <2>2 DEF LogicalInv
<1>6. \A a \in Args, c \in Cells : Back(a) /\ view[a] = c => bound[a] = c /\ Present(a) /\ Written(a) /\ InPlace(a) /\ lane = "offload"
    <2> SUFFICES ASSUME NEW a \in Args, NEW c \in Cells, Back(a), view[a] = c
                 PROVE  bound[a] = c /\ Present(a) /\ Written(a) /\ InPlace(a) /\ lane = "offload"
        OBVIOUS
    <2>1. InPlace(a) /\ Present(a) /\ bound[a] = c
        BY <1>4, WrapperAssumption
    <2> QED
        BY <2>1, InPlaceOutsideRegion DEF Back
<1>7. ASSUME NEW a \in Args, Present(a), Written(a) PROVE Current(a)' = Current(a)
    <2>1. bound[a] \in Cells /\ bound[a] # Own
        BY <1>7, WrapperAssumption DEF Present, TypeOK
    <2>2. CASE view[a] = Own
        <3>1. Current(a)' = own'[a]
            BY <1>1, <1>4, <2>2 DEF Current
        <3>2. Current(a) = IF InRegion(a) THEN region[a] ELSE own[a]
            BY <1>1, <2>2 DEF Current, CopiedYet
        <3> QED
            BY <1>2, <1>7, <2>2, <3>1, <3>2 DEF Back
    <2>3. CASE view[a] = bound[a]
        <3>1. Current(a)' = Side(a)'[bound[a]]
            BY <1>1, <2>1, <2>3 DEF Current
        <3>2. Current(a) = IF InRegion(a) THEN region[a] ELSE Side(a)[bound[a]]
            BY <1>1, <2>1, <2>3 DEF Current
        <3>3. \A b \in Args : Back(b) /\ view[b] = bound[a] => b = a
            <4> SUFFICES ASSUME NEW b \in Args, Back(b), view[b] = bound[a], b # a PROVE FALSE
                OBVIOUS
            <4>1. bound[b] = bound[a] /\ lane = "offload"
                BY <1>6, <2>1
            <4> QED
                BY <1>1, <1>7, <4>1, SharedInPlace DEF GuardInv
        <3>4. CASE InRegion(a)
            <4>1. host'[bound[a]] = region[a]
                BY <1>2, <1>7, <2>1, <2>3, <3>3, <3>4 DEF Back
            <4>2. OnHost(a)'
                BY <1>3, <3>4 DEF OnHost
            <4> QED
                BY <3>1, <3>2, <3>4, <4>1, <4>2 DEF Side
        <3>5. CASE ~InRegion(a)
            <4>1. host'[bound[a]] = host[bound[a]]
                BY <1>2, <2>1, <3>3, <3>5 DEF Back
            <4>2. Side(a)'[bound[a]] = Side(a)[bound[a]]
                BY <1>1, <1>3, <4>1 DEF Side
            <4> QED
                BY <3>1, <3>2, <3>5, <4>2
        <3> QED
            BY <3>4, <3>5
    <2> QED
        BY <1>4, <2>2, <2>3
<1>8. \A c \in Cells : (\A a \in Args : bound[a] = c => ~Written(a)) => host'[c] = host[c]
    BY <1>2, <1>6
<1>9. Logical' = Logical
    <2>1. \A c \in Cells : (\A a \in Args : bound[a] = c => ~Written(a)) => Home(c)' = Home(c)
        BY <1>1, <1>3, <1>8 DEF Home
    <2>2. \A a \in Args : how[a] = "kept" => ownExt'[a] = ownExt[a] /\ (Written(a) \/ own'[a] = own[a])
        BY <1>1, <1>2 DEF Back
    <2>3. pc \in Running /\ pc' \in Running
        BY <1>1
    <2> QED
        BY <1>1, <1>7, <2>1, <2>2, <2>3, ValuesStay
<1>10. HomeInv'
    <2> SUFFICES ASSUME NEW c \in Cells PROVE Home(c)' \in Values
        BY DEF HomeInv
    <2>1. host'[c] = host[c] \/ host'[c] \in Values
        BY <1>2, <1>5, <1>6
    <2> QED
        BY <1>1, <1>3, <2>1 DEF Home, HomeInv
<1>11. KeptInv'
    BY <1>1, <1>2, <1>3, <1>5 DEF KeptInv
<1> QED
    BY <1>1, <1>9, <1>10, <1>11 DEF LogicalInv, RunInv

\* A copy back moves a value from the buffer to the caller's storage.
LEMMA CopiedBackWrites ==
    ASSUME IInv, Base', pc \in Closing, pc' \in Closing, NEW S \in SUBSET Args, CopiedBack(S),
           \A a \in S : ~InPlace(a) /\ how[a] # "kept" /\ ~CopiedYet(a) /\ CopiedYet(a)',
           \A a \in Args \ S : Present(a) => view[a] # Own \/ (CopiedYet(a)' <=> CopiedYet(a))
    PROVE  Logical' = Logical /\ HomeInv' /\ KeptInv' /\ LogicalInv' /\ RunInv'
<1> USE DEF IInv, Base
<1>1. UNCHANGED <<fixed, bound, extent, view, own, took>> /\ how' = how /\ pc # "run" /\ pc' # "run"
    BY DEF CopiedBack, fixed
<1>2. \A a \in Args \ S : ownExt'[a] = ownExt[a]
    BY DEF CopiedBack
<1>3. /\ Resident' = Resident
      /\ \A a \in Args : (Present(a)' <=> Present(a)) /\ (Written(a)' <=> Written(a)) /\ (OnHost(a)' <=> OnHost(a))
    BY <1>1, ClassesStay, SharingStays
<1>4. \A a \in Args : view[a] = IF InPlace(a) /\ Present(a) THEN bound[a] ELSE Own
    BY DEF PlacedInv, Ready
<1>5. ASSUME NEW a \in S, Present(a), Written(a)
      PROVE  /\ bound[a] \in Cells /\ Current(a) = own[a] /\ own[a] \in Values
             /\ \A b \in Args : bound[b] = bound[a] => b = a
    <2>1. bound[a] \in Cells /\ a \in Args
        BY <1>5 DEF Present, TypeOK
    <2>2. Current(a) = own[a]
        BY <1>1, <1>4, <2>1 DEF Current
    <2>3. own[a] = Logical[bound[a]]
        BY <1>5, <2>1, <2>2, LogicalWritten
    <2>4. own[a] \in Values
        BY <2>1, <2>3 DEF LogicalInv
    <2>5. \A b \in Args : bound[b] = bound[a] => b = a
        BY <1>5, <2>1, SharedInPlace DEF GuardInv
    <2> QED
        BY <2>1, <2>2, <2>4, <2>5
<1>6. \A c \in Cells :
         /\ IF \E a \in S : Written(a) /\ bound[a] = c /\ OnHost(a)
            THEN \E a \in S : Written(a) /\ bound[a] = c /\ host'[c] = own[a]
            ELSE host'[c] = host[c]
         /\ IF \E a \in S : Written(a) /\ bound[a] = c /\ ~OnHost(a)
            THEN \E a \in S : Written(a) /\ bound[a] = c /\ dev'[c] = own[a]
            ELSE dev'[c] = dev[c]
    BY CopiedBackEffect
<1>7. \A a \in S : bound[a] \in Cells => Present(a)
    BY WrapperAssumption DEF Present
<1>8. ASSUME NEW a \in Args, Present(a), Written(a) PROVE Current(a)' = Current(a)
    <2>1. bound[a] \in Cells /\ bound[a] # Own
        BY <1>8, WrapperAssumption DEF Present, TypeOK
    <2>2. CASE a \in S
        <3>1. Current(a)' = Side(a)'[bound[a]]
            BY <1>1, <2>2 DEF Current
        <3>2. Side(a)'[bound[a]] = own[a]
            <4>1. CASE OnHost(a)
                <5>1. host'[bound[a]] = own[a]
                    BY <1>5, <1>6, <1>8, <2>1, <2>2, <4>1
                <5> QED
                    BY <1>3, <4>1, <5>1 DEF Side
            <4>2. CASE ~OnHost(a)
                <5>1. dev'[bound[a]] = own[a]
                    BY <1>5, <1>6, <1>8, <2>1, <2>2, <4>2
                <5> QED
                    BY <1>3, <4>2, <5>1 DEF Side
            <4> QED
                BY <4>1, <4>2
        <3> QED
            BY <1>5, <1>8, <2>2, <3>1, <3>2
    <2>3. CASE a \notin S
        <3>1. \A b \in S : Written(b) => bound[b] # bound[a]
            BY <1>5, <1>7, <1>8, <2>1, <2>3
        <3>2. host'[bound[a]] = host[bound[a]] /\ dev'[bound[a]] = dev[bound[a]]
            BY <1>6, <2>1, <3>1
        <3>3. Side(a)'[bound[a]] = Side(a)[bound[a]]
            BY <1>3, <3>2 DEF Side
        <3> QED
            BY <1>1, <1>8, <2>3, <3>3 DEF Current
    <2> QED
        BY <2>2, <2>3
<1>9. \A c \in Cells : (\A a \in Args : bound[a] = c => ~Written(a)) => host'[c] = host[c] /\ dev'[c] = dev[c]
    BY <1>6
<1>10. Logical' = Logical
    <2>1. \A c \in Cells : (\A a \in Args : bound[a] = c => ~Written(a)) => Home(c)' = Home(c)
        BY <1>3, <1>9 DEF Home
    <2>2. \A a \in Args : how[a] = "kept" => ownExt'[a] = ownExt[a] /\ own'[a] = own[a]
        BY <1>1, <1>2
    <2> QED
        BY <1>1, <1>8, <2>1, <2>2, ValuesStay
<1>11. HomeInv'
    <2> SUFFICES ASSUME NEW c \in Cells PROVE Home(c)' \in Values
        BY DEF HomeInv
    <2>1. (host'[c] = host[c] \/ host'[c] \in Values) /\ (dev'[c] = dev[c] \/ dev'[c] \in Values)
        BY <1>5, <1>6, <1>7
    <2> QED
        BY <1>3, <2>1 DEF Home, HomeInv
<1>12. KeptInv'
    <2> SUFFICES ASSUME NEW a \in Args, how[a] = "kept"
                 PROVE  /\ ownExt'[a] = ownExt[a]
                        /\ pc' \notin {"idle", "guard", "stage", "globals", "static", "images", "original"}
        BY <1>1, <1>3 DEF KeptInv
    <2> QED
        BY <1>2
<1> QED
    BY <1>1, <1>10, <1>11, <1>12 DEF LogicalInv, RunInv

\* The three blocks that copy back, each with the names it is for.
LEMMA CopyBackWrites ==
    ASSUME IInv, Base', CopyOut \/ WriteBack \/ Unpack
    PROVE  Logical' = Logical /\ HomeInv' /\ KeptInv' /\ LogicalInv' /\ RunInv'
<1> USE DEF IInv, Base
<1>1. \A a \in Args : (Ready(a) /\ InPlace(a) /\ Present(a)) => view[a] = bound[a]
    BY DEF PlacedInv
<1>2. how' = how /\ how \in [Args -> Classes]
    BY DEF CopyOut, WriteBack, Unpack, CopiedBack, fixed, TypeOK
<1>3. CASE CopyOut
    <2> DEFINE S == Of({"copied", "value"})
    <2>1. S \in SUBSET Args /\ pc = "copyout" /\ pc' = "writeback" /\ CopiedBack(S)
        BY <1>3 DEF CopyOut, Block, Of
    <2>2. \A a \in S : ~InPlace(a) /\ how[a] # "kept" /\ ~CopiedYet(a) /\ CopiedYet(a)'
        BY <1>2, <2>1 DEF Of, InPlace, CopiedYet
    <2>3. \A a \in Args \ S : CopiedYet(a)' <=> CopiedYet(a)
        BY <1>2, <2>1 DEF Of, CopiedYet
    <2> HIDE DEF S
    <2> QED
        BY <2>1, <2>2, <2>3, CopiedBackWrites
<1>4. CASE WriteBack
    <2> DEFINE S == {a \in Of({"static"}) : view[a] = Own}
    <2>1. S \in SUBSET Args /\ pc = "writeback" /\ pc' = "unpack" /\ CopiedBack(S)
        BY <1>4 DEF WriteBack, Block, Of
    <2>2. ASSUME NEW a \in S PROVE ~InPlace(a) /\ how[a] # "kept" /\ ~CopiedYet(a) /\ CopiedYet(a)'
        <3>1. how[a] = "static" /\ a \in Args /\ view[a] = Own
            BY DEF Of
        <3>2. Ready(a) /\ Present(a)
            BY <2>1, <3>1 DEF Ready, ConformInv, Conforming, Present, MayBeAbsent
        <3>3. bound[a] # Own
            BY <3>1, <3>2, WrapperAssumption DEF Present, TypeOK
        <3> QED
            BY <1>1, <1>2, <2>1, <3>1, <3>2, <3>3 DEF CopiedYet
    <2>3. \A a \in Args \ S : view[a] # Own \/ (CopiedYet(a)' <=> CopiedYet(a))
        BY <1>2, <2>1 DEF Of, CopiedYet
    <2> HIDE DEF S
    <2> QED
        BY <2>1, <2>2, <2>3, CopiedBackWrites
<1>5. CASE Unpack
    <2> DEFINE S == Of({"packed"})
    <2>1. S \in SUBSET Args /\ pc = "unpack" /\ pc' = "unstage" /\ CopiedBack(S)
        BY <1>5 DEF Unpack, Block, Of
    <2>2. \A a \in S : ~InPlace(a) /\ how[a] # "kept" /\ ~CopiedYet(a) /\ CopiedYet(a)'
        BY <1>2, <2>1 DEF Of, InPlace, CopiedYet
    <2>3. \A a \in Args \ S : CopiedYet(a)' <=> CopiedYet(a)
        BY <1>2, <2>1 DEF Of, CopiedYet
    <2> HIDE DEF S
    <2> QED
        BY <2>1, <2>2, <2>3, CopiedBackWrites
<1> QED
    BY <1>3, <1>4, <1>5

\* The last copies: what the SDFG wrote is where the caller keeps it, or in the kept image.
LEMMA UnstageWrites ==
    ASSUME IInv, Base', Unstage
    PROVE  Logical' = Logical /\ HomeInv' /\ KeptInv' /\ LogicalInv' /\ RunInv'
<1> USE DEF IInv, Base
<1>1. /\ pc = "unstage" /\ pc' = "return"
      /\ UNCHANGED <<fixed, bound, extent, host, view, own, ownExt, took>> /\ how' = how
    BY DEF Unstage, Block, fixed, containers
<1>2. \A c \in Cells : dev'[c] = IF /\ lane \in {"icon_acc", "icon_omp"}
                                    /\ \E a \in Args : bound[a] = c /\ OnDevice(a) /\ Written(a)
                                 THEN host[c] ELSE dev[c]
    BY DEF Unstage
<1>3. /\ Resident' = Resident
      /\ \A a \in Args : (Present(a)' <=> Present(a)) /\ (Image(a)' <=> Image(a))
      /\ \A c \in Cells : Writers(c)' = {}
    BY <1>1, ClassesStay, SharingStays, ImageStays DEF Writers
<1>4. ASSUME NEW c \in Cells, NEW a \in Args, bound[a] = c, Present(a), Written(a), how[a] = "kept"
      PROVE  Logical'[c] = Logical[c] /\ Home(c)' = Home(c)
    <2>1. Ready(a) /\ ~CopiedYet(a) /\ ~InPlace(a)
        BY <1>1, <1>4 DEF Ready, CopiedYet, InPlace
    <2>2. view[a] = Own /\ ownExt[a] = NewExtent(a)
        BY <2>1 DEF PlacedInv
    <2>3. Image(a)
        <3>1. NewExtent(a) = extent[c] /\ NewExtent(a) # 0
            BY <1>4, OperatorTypes DEF NewExtent
        <3> QED
            BY <1>4, <2>2, <3>1 DEF Image
    <2>4. Current(a) = own[a]
        BY <1>1, <2>1, <2>2 DEF Current
    <2>5. Logical[c] = own[a]
        BY <1>1, <1>4, <2>4, LogicalWritten
    <2>6. Logical'[c] = own'[a]
        <3>1. bound'[a] = c /\ Image(a)' /\ Writers(c)' = {}
            BY <1>1, <1>3, <1>4, <2>3
        <3> QED
            BY <3>1, LogicalQuietNext
    <2>7. dev'[c] = dev[c]
        <3>1. \A b \in Args : bound[b] = c => b = a
            BY <1>4, KeptAlone
        <3>2. lane \in {"icon_acc", "icon_omp"} => ~OnDevice(a)
            BY <1>4 DEF OnDevice
        <3> QED
            BY <1>2, <2>1, <3>1, <3>2
    <2> QED
        BY <1>1, <1>3, <2>5, <2>6, <2>7 DEF Home
<1>5. ASSUME NEW c \in Cells, NEW a \in Args, bound[a] = c, Present(a), Written(a), how[a] # "kept"
      PROVE  Logical'[c] = Logical[c] /\ Home(c)' = Logical[c]
    <2>1. Ready(a) /\ c # Own
        BY <1>1, <1>5, WrapperAssumption DEF Present, TypeOK, Ready
    <2>2. view[a] # Own \/ CopiedYet(a)
        <3>1. how[a] \in Classes
            BY DEF TypeOK
        <3> QED
            BY <1>1, <1>5, <2>1, <3>1 DEF PlacedInv, InPlace, CopiedYet, Classes
    <2>3. Current(a) = Side(a)[c]
        BY <1>1, <1>5, <2>2 DEF Current
    <2>4. Logical[c] = Side(a)[c]
        BY <1>1, <1>5, <2>3, LogicalWritten
    <2>5. c \in Resident <=> OnDevice(a)
        BY <1>5, ResidentByClass
    <2>6. Home(c)' = Side(a)[c]
        <3>1. Home(c)' = IF OnDevice(a) THEN dev'[c] ELSE host[c]
            BY <1>1, <1>3, <2>5 DEF Home
        <3>2. CASE lane \in {"icon_acc", "icon_omp"}
            BY <1>2, <1>5, <2>1, <3>1, <3>2 DEF Side, OnHost
        <3>3. CASE lane \in {"host", "offload"}
            BY <3>1, <3>3 DEF Side, OnHost, OnDevice
        <3>4. CASE lane = "device"
            BY <1>2, <2>1, <3>1, <3>4 DEF Side, OnHost, OnDevice, InRegion
        <3> QED
            BY <3>2, <3>3, <3>4 DEF TypeOK, Lanes
    <2>7. \A b \in Args : bound'[b] = c => ~Image(b)'
        <3>1. \A b \in Args : bound[b] = c /\ how[b] = "kept" => FALSE
            BY <1>5, KeptAlone DEF Present
        <3> QED
            BY <1>1, <1>3, <3>1 DEF Image
    <2>8. Logical'[c] = Home(c)'
        BY <1>3, <2>1, <2>7, LogicalQuietNext
    <2> QED
        BY <2>4, <2>6, <2>8
<1>6. ASSUME NEW c \in Cells, \A a \in Args : bound[a] = c => ~Written(a)
      PROVE  Logical'[c] = Logical[c] /\ Home(c)' = Home(c)
    <2>1. Writers(c) = {} /\ Writers(c)' = {}
        BY <1>3, <1>6 DEF Writers
    <2>2. Home(c)' = Home(c)
        BY <1>1, <1>2, <1>3, <1>6 DEF Home
    <2> QED
        BY <1>1, <1>3, <2>1, <2>2, UnwrittenStays
<1>7. ASSUME NEW c \in Cells PROVE Logical'[c] = Logical[c] /\ Home(c)' \in {Home(c), Logical[c]}
    <2>1. CASE \E a \in Args : bound[a] = c /\ Written(a)
        <3>1. PICK a \in Args : bound[a] = c /\ Written(a)
            BY <2>1
        <3>2. Present(a)
            BY <3>1, WrapperAssumption DEF Present
        <3>3. CASE how[a] = "kept"
            BY <1>4, <3>1, <3>2, <3>3
        <3>4. CASE how[a] # "kept"
            BY <1>5, <3>1, <3>2, <3>4
        <3> QED
            BY <3>3, <3>4
    <2> QED
        BY <1>6, <2>1
<1>8. Logical' = Logical
    BY <1>7, LogicalFunction
<1>9. HomeInv'
    BY <1>7 DEF HomeInv, LogicalInv
<1>10. KeptInv'
    BY <1>1, <1>3 DEF KeptInv
<1> QED
    BY <1>1, <1>8, <1>9, <1>10 DEF LogicalInv, RunInv

-----------------------------------------------------------------------------
(* The other blocks move values only between places that agree.            *)

\* Outside the running SDFG a kept image changes only when it is packed.
LEMMA ImagesMove ==
    ASSUME TypeOK, [Next]_vars, pc \notin Running, NEW a \in Args, how[a] = "kept"
    PROVE  \/ own'[a] = own[a] /\ ownExt'[a] = ownExt[a]
           \/ pc = "images" /\ pc' = "dummies" /\ ~ImageFits(a) /\ own'[a] = NewContents(a) /\ ownExt'[a] = NewExtent(a)
<1>1. CASE Images
    BY <1>1 DEF Images, Block, Buffered, Of
<1>2. CASE UNCHANGED <<own, ownExt>>
    BY <1>2
<1>3. CASE Globals
    BY <1>3 DEF Globals, Aliased, Of
<1>4. CASE StaticGlobals
    BY <1>4 DEF StaticGlobals, Copied, Buffered, Of
<1>5. CASE Dummies
    BY <1>5 DEF Dummies, Aliased, Of
<1>6. CASE CopyIn
    BY <1>6 DEF CopyIn, Copied, Buffered, Of
<1>7. CASE AliasMembers
    BY <1>7 DEF AliasMembers, Aliased, Of
<1>8. CASE Return
    BY <1>8 DEF Return
<1>9. CASE ReturnOriginal
    BY <1>9 DEF ReturnOriginal
<1> QED
    <2>1. Images \/ UNCHANGED <<own, ownExt>> \/ Globals \/ StaticGlobals \/ Dummies \/ CopyIn \/ AliasMembers \/ Return \/ ReturnOriginal
        BY DEF Next, vars, containers, Caller, Substitute, Reassociate, Reallocate, Reconfigure, Finalize, Enter, Idle,
           Guard, Block, StageIn, LateSymbols, Call, Run, CloseRegion, CopyOut, WriteBack, Unpack, Unstage, Original,
           Transfer
    <2> QED
        BY <2>1, <1>1, <1>2, <1>3, <1>4, <1>5, <1>6, <1>7, <1>8, <1>9

\* A declined call with kept images stops unless the binding has taken no call yet.
LEMMA TakenFlow ==
    [Next]_vars => /\ pc' = "original" => pc = "original" \/ ~\E a \in Args : took /\ how[a] = "kept"
                   /\ pc = "copyin" /\ pc' \notin {"alias", "copyin"} => SplitRefused
                   /\ \/ took' = took /\ ~(pc = "return" /\ pc' = "idle")
                      \/ took' = TRUE /\ pc' = "idle"
    BY DEF Next, vars, Caller, Substitute, Reassociate, Reallocate, Reconfigure, Finalize, Enter, Idle, Guard, StageIn,
       Block, Decline, Globals, StaticGlobals, Images, Dummies, CopyIn, AliasMembers, LateSymbols, Call, Run, CloseRegion,
       CopiedBack, CopyOut, WriteBack, Unpack, Unstage, Return, Original, ReturnOriginal, Transfer

\* A kept image is never wild, and the original never runs beside one.
LEMMA KeptStep ==
    ASSUME Base, HomeInv, KeptInv, Base', [Next]_vars, pc \notin Running, pc' \notin Running
    PROVE  KeptInv'
<1> USE DEF Base
<1> SUFFICES ASSUME NEW a \in Args, how'[a] = "kept"
             PROVE  /\ ~took' /\ pc' \in {"idle", "guard", "stage", "globals", "static", "images", "original"} => ownExt'[a] = 0
                    /\ pc' = "original" => ~took'
                    /\ Present(a)' /\ ownExt'[a] # 0 => own'[a] \in Values
    BY DEF KeptInv
<1>1. how[a] = "kept" /\ how' = how
    BY FixedStays DEF fixed
<1>2. took \in BOOLEAN /\ took' \in BOOLEAN
    BY DEF TypeOK
<1>3. Present(a)' <=> Present(a)
    <2>1. CASE Reassociate
        BY <1>1, <2>1 DEF Reassociate, Present, TypeOK
    <2>2. CASE UNCHANGED bound
        BY <2>2 DEF Present
    <2> QED
        BY <2>1, <2>2, AssociationsStay
<1>4. \/ own'[a] = own[a] /\ ownExt'[a] = ownExt[a]
      \/ pc = "images" /\ pc' = "dummies" /\ own'[a] = NewContents(a)
    BY <1>1, ImagesMove
<1>5. Present(a)' /\ ownExt'[a] # 0 => own'[a] \in Values
    <2>1. CASE own'[a] = own[a] /\ ownExt'[a] = ownExt[a]
        BY <1>1, <1>3, <2>1 DEF KeptInv
    <2>2. CASE pc = "images" /\ own'[a] = NewContents(a)
        <3>1. Present(a) => bound[a] \in Cells /\ NewContents(a) = Home(bound[a])
            BY <1>1, <2>2, ContentsAreHome DEF Present, TypeOK
        <3> QED
            BY <1>3, <2>2, <3>1 DEF HomeInv
    <2> QED
        BY <1>4, <2>1, <2>2
<1>6. pc' = "original" => ~took'
    <2>1. CASE pc = "original"
        BY <1>1, <1>2, <2>1, TakenFlow DEF KeptInv
    <2>2. CASE pc # "original" /\ pc' = "original"
        <3>1. ~took
            BY <1>1, <2>2, TakenFlow
        <3> QED
            BY <2>2, <3>1, TakenFlow
    <2> QED
        BY <2>1, <2>2
<1>7. ASSUME ~took', pc' \in {"idle", "guard", "stage", "globals", "static", "images", "original"}
      PROVE  ownExt'[a] = 0
    <2>1. ~took /\ ~(pc = "return" /\ pc' = "idle")
        BY <1>7, TakenFlow
    <2>2. ~SplitRefused
        BY <1>1, NoSplitWithKept DEF SplitRefused, Of
    <2>3. pc \in {"idle", "guard", "stage", "globals", "static", "images", "original"}
        BY <1>7, <2>1, <2>2, ControlFlow, TakenFlow DEF vars
    <2>4. ownExt'[a] = ownExt[a]
        BY <1>4, <1>7
    <2> QED
        BY <1>1, <2>1, <2>3, <2>4 DEF KeptInv
<1> QED
    BY <1>5, <1>6, <1>7

\* Where neither the SDFG, the original nor the caller writes, the values stay.
LEMMA QuietStep ==
    ASSUME IInv, Base', [Next]_vars, pc \notin Running, pc' \notin Running, UNCHANGED <<bound, extent>>,
           StageIn \/ Transfer \/ UNCHANGED <<host, dev>>
    PROVE  Logical' = Logical /\ HomeInv' /\ KeptInv' /\ LogicalInv' /\ RunInv'
<1> USE DEF IInv, Base
<1>1. UNCHANGED <<fixed, bound, extent>> /\ how' = how
    BY FixedStays DEF fixed
<1>2. \A c \in Cells : Home(c)' = Home(c)
    BY HomeStays
<1>3. HomeInv'
    BY <1>2 DEF HomeInv
<1>4. KeptInv'
    BY KeptStep
<1>5. LogicalInv'
    BY <1>3, <1>4, QuietValuesNext
<1>6. ASSUME NEW c \in Cells PROVE Logical'[c] = Logical[c]
    <2>1. Writers(c) = {} /\ Writers(c)' = {}
        BY DEF Writers
    <2>2. CASE \A a \in Args : bound[a] = c /\ how[a] = "kept" => own'[a] = own[a] /\ ownExt'[a] = ownExt[a]
        <3>1. \A a \in Args : bound[a] = c => (Image(a)' <=> Image(a)) /\ (Image(a) => own'[a] = own[a])
            BY <1>1, <2>2, ImageStays DEF Image
        <3> QED
            BY <1>1, <1>2, <2>1, <3>1, UnwrittenStays
    <2>3. CASE \E a \in Args : bound[a] = c /\ how[a] = "kept" /\ ~(own'[a] = own[a] /\ ownExt'[a] = ownExt[a])
        <3>1. PICK a \in Args : bound[a] = c /\ how[a] = "kept" /\ ~(own'[a] = own[a] /\ ownExt'[a] = ownExt[a])
            BY <2>3
        <3>2. pc = "images" /\ ~ImageFits(a) /\ own'[a] = NewContents(a) /\ ownExt'[a] = NewExtent(a)
            BY <3>1, ImagesMove
        <3>3. Present(a) /\ NewExtent(a) = extent[c] /\ NewExtent(a) # 0
            BY <3>1, WrapperAssumption, OperatorTypes DEF Present, NewExtent
        <3>4. ~Image(a) /\ Image(a)'
            BY <1>1, <3>1, <3>2, <3>3 DEF Image, ImageFits, Present
        <3>5. Logical[c] = Home(c)
            BY <2>1, <3>1, <3>3, <3>4, KeptAlone, LogicalQuiet
        <3>6. Logical'[c] = own'[a]
            <4>1. bound'[a] = c
                BY <1>1, <3>1
            <4> QED
                BY <2>1, <3>4, <4>1, LogicalQuietNext
        <3>7. NewContents(a) = Home(c)
            BY <3>1, <3>2, <3>3, ContentsAreHome
        <3> QED
            BY <3>2, <3>5, <3>6, <3>7
    <2> QED
        BY <2>2, <2>3
<1>7. Logical' = Logical
    BY <1>6, LogicalFunction
<1> QED
    BY <1>3, <1>4, <1>5, <1>7 DEF RunInv

\* A queued transfer that runs late touches nothing the SDFG uses.
LEMMA TransferWhileRunning ==
    ASSUME IInv, Base', Transfer, pc \in Running
    PROVE  Logical' = Logical /\ HomeInv' /\ KeptInv' /\ LogicalInv' /\ RunInv'
<1> USE DEF IInv, Base
<1>1. UNCHANGED <<fixed, bound, extent, dev, pc, view, own, ownExt, region, took>> /\ how' = how
    BY DEF Transfer, fixed, containers
<1>2. PICK c \in pending : host' = [host EXCEPT ![c] = dev[c]]
    BY DEF Transfer
<1>3. c \in Resident /\ lane = "icon_acc"
    BY DEF QueueInv
<1>4. /\ Resident' = Resident
      /\ \A a \in Args : (Present(a)' <=> Present(a)) /\ (Written(a)' <=> Written(a)) /\ (Used(a)' <=> Used(a))
      /\ \A a \in Args : (InRegion(a)' <=> InRegion(a)) /\ (OnHost(a)' <=> OnHost(a))
    BY <1>1, ClassesStay, SharingStays
<1>5. ASSUME NEW a \in Args, Present(a), Used(a)
      PROVE  bound[a] \in Cells /\ Side(a)'[bound[a]] = Side(a)[bound[a]]
    <2>1. bound[a] \in Cells /\ bound[a] # c
        BY <1>3, <1>5, QueuedUnused, ResidentByClass DEF Present, TypeOK
    <2> QED
        BY <1>1, <1>2, <1>4, <2>1 DEF Side, TypeOK
<1>6. \A d \in Cells : Home(d)' = Home(d)
    <2>1. [Next]_vars
        BY DEF Next
    <2> QED
        BY <2>1, HomeStays
<1>7. Logical' = Logical
    <2>1. \A a \in Args : Present(a) /\ Written(a) => Current(a)' = Current(a)
        <3> SUFFICES ASSUME NEW a \in Args, Present(a), Written(a) PROVE Current(a)' = Current(a)
            OBVIOUS
        <3>1. Used(a)
            BY DEF Used, Written
        <3>2. CopiedYet(a)' <=> CopiedYet(a)
            BY <1>1 DEF CopiedYet
        <3> QED
            BY <1>1, <1>4, <1>5, <3>1, <3>2 DEF Current
    <2> QED
        BY <1>1, <1>6, <2>1, ValuesStay
<1>8. HomeInv' /\ KeptInv'
    BY <1>1, <1>4, <1>6 DEF HomeInv, KeptInv
<1>9. RunInv'
    <2> SUFFICES ASSUME pc = "run", NEW a \in Args, Present(a), Used(a) PROVE Container(a)' = Logical[bound[a]]
        BY <1>1, <1>4, <1>7 DEF RunInv
    <2>1. view[a] \in {Own, bound[a]}
        BY DEF PlacedInv, Ready
    <2>2. Behind(a)' = Behind(a)
        BY <1>1, <1>5, <2>1, BehindView, BehindViewNext
    <2> QED
        BY <1>1, <1>4, <2>2 DEF RunInv, Container
<1> QED
    BY <1>7, <1>8, <1>9 DEF LogicalInv

\* The original runs on the caller's own copies, and no kept image hides them.
LEMMA OriginalWrites ==
    ASSUME IInv, Base', Original
    PROVE  /\ \/ Logical' = Logical
              \/ LET s == code[at]
                 IN  /\ Present(s.dst) /\ Present(s.src)
                     /\ Logical' = [Logical EXCEPT ![bound[s.dst]] = Apply(at, Logical[bound[s.src]])]
           /\ HomeInv' /\ KeptInv' /\ LogicalInv' /\ RunInv'
<1> USE DEF IInv, Base
<1>1. /\ pc = "original" /\ pc' = "original" /\ at <= Len(code) /\ at # 0 /\ [Next]_vars
      /\ UNCHANGED <<fixed, bound, extent, own, ownExt, took>> /\ how' = how
    BY DEF Original, AtInv, fixed, containers, Next, Substitute
<1>2. KeptInv'
    BY <1>1, KeptStep
<1>3. \A a \in Args : ~Image(a) /\ ~Image(a)'
    BY <1>1 DEF Image, KeptInv
<1>4. /\ \A c \in Cells : Logical[c] = Home(c)
      /\ \A c \in Cells : Logical'[c] = Home(c)'
    BY <1>1, <1>3, LogicalQuiet, LogicalQuietNext DEF Writers
<1>5. Resident' = Resident
    BY <1>1, ResidentStays
<1>6. CASE UNCHANGED <<host, dev>>
    <2>1. \A c \in Cells : Home(c)' = Home(c)
        BY <1>5, <1>6 DEF Home
    <2>2. Logical' = Logical
        BY <1>4, <2>1, LogicalFunction
    <2> QED
        BY <1>1, <1>2, <2>1, <2>2 DEF HomeInv, LogicalInv, RunInv
<1>7. CASE ~UNCHANGED <<host, dev>>
    <2> DEFINE s == code[at]
    <2>1. Present(s.dst) /\ Present(s.src) /\ CallerWrites(bound[s.dst], Apply(at, Home(bound[s.src])))
        BY <1>7 DEF Original
    <2>2. at \in 0 .. Len(code) /\ bound[s.dst] \in Cells /\ bound[s.src] \in Cells
        BY <1>1, <2>1, StatementTypes DEF TypeOK, Present
    <2>3. PICK d \in Cells, v \in Values :
             /\ d = bound[s.dst] /\ v = Apply(at, Home(bound[s.src]))
             /\ \A e \in Cells : (IF e \in Resident THEN dev' ELSE host')[e] = IF e = d THEN v ELSE Home(e)
        <3>1. Apply(at, Home(bound[s.src])) \in Values
            BY <2>2, ApplyType DEF HomeInv
        <3>2. \A e \in Cells : (IF e \in Resident THEN dev' ELSE host')[e]
                                  = IF e = bound[s.dst] THEN Apply(at, Home(bound[s.src])) ELSE Home(e)
            BY <2>1, <2>2, CallerStep
        <3> QED
            BY <2>2, <3>1, <3>2
    <2>4. v = Apply(at, Logical[bound[s.src]])
        BY <1>4, <2>2, <2>3
    <2> HIDE DEF s
    <2>5. \A e \in Cells : Home(e)' = IF e = d THEN v ELSE Home(e)
        BY <1>5, <2>3 DEF Home
    <2>6. Logical' = [Logical EXCEPT ![d] = v]
        <3> DEFINE L == Logical
        <3>1. L = [c \in Cells |-> L[c]] /\ Logical' = [c \in Cells |-> Logical'[c]]
            BY LogicalFunction
        <3>2. \A c \in Cells : Logical'[c] = IF c = d THEN v ELSE L[c]
            BY <1>4, <2>5
        <3> HIDE DEF L
        <3>3. Logical' = [L EXCEPT ![d] = v]
            BY <3>1, <3>2
        <3> QED
            BY <3>3 DEF L
    <2>7. HomeInv'
        BY <2>5 DEF HomeInv
    <2>8. LogicalInv'
        BY <1>4, <2>7 DEF LogicalInv, HomeInv
    <2> QED
        BY <1>1, <1>2, <2>1, <2>3, <2>4, <2>6, <2>7, <2>8 DEF s, RunInv
<1> QED
    BY <1>6, <1>7

\* Between calls the caller's copies are never wild, whatever it does.
LEMMA CallerSteps ==
    ASSUME IInv, Base', [Next]_vars, pc = "idle"
    PROVE  HomeInv' /\ KeptInv' /\ LogicalInv' /\ RunInv'
<1> USE DEF IInv, Base
<1>1. pc' \in {"idle", "guard"}
    BY ControlFlow DEF vars
<1>2. KeptInv'
    BY <1>1, KeptStep
<1>3. HomeInv'
    <2>1. Resident' = Resident
        BY ResidentStays
    <2>2. CASE Reallocate
        <3>1. PICK c \in Cells : CallerWrites(c, Apply(0, Home(c)))
            BY <2>2 DEF Reallocate
        <3>2. 0 \in 0 .. Len(code)
            BY DEF TypeOK
        <3>3. \A e \in Cells : (IF e \in Resident THEN dev' ELSE host')[e] = IF e = c THEN Apply(0, Home(c)) ELSE Home(e)
            BY <3>1, <3>2, CallerStep
        <3>4. Apply(0, Home(c)) \in Values
            BY <3>2, ApplyType DEF HomeInv
        <3>5. \A e \in Cells : Home(e)' = IF e = c THEN Apply(0, Home(c)) ELSE Home(e)
            BY <2>1, <3>3 DEF Home
        <3> QED
            BY <3>4, <3>5 DEF HomeInv
    <2>3. CASE StageIn \/ Transfer \/ UNCHANGED <<host, dev>>
        BY <2>3, HomeStays DEF HomeInv
    <2> QED
        BY <2>2, <2>3 DEF Next, vars, callerVars, Caller, Substitute, Reassociate, Reconfigure, Finalize, Enter, Guard,
           Globals, StaticGlobals, Block, Images, Dummies, CopyIn, AliasMembers, LateSymbols, Call, Run, CloseRegion,
           CopyOut, WriteBack, Unpack, Unstage, Return, Original, ReturnOriginal
<1>4. LogicalInv'
    BY <1>1, <1>2, <1>3, QuietValuesNext
<1> QED
    BY <1>1, <1>2, <1>3, <1>4 DEF RunInv

\* The original returns after its last statement.
LEMMA OriginalReturns == [Next]_vars /\ pc = "original" /\ pc' = "idle" => at = Len(code) + 1
    BY DEF Next, vars, Caller, Substitute, Reassociate, Reallocate, Reconfigure, Finalize, Enter, Idle, Guard, StageIn,
       Block, Decline, Globals, StaticGlobals, Images, Dummies, CopyIn, AliasMembers, LateSymbols, Call, Run, CloseRegion,
       CopyOut, WriteBack, Unpack, Unstage, Return, Original, ReturnOriginal, Transfer

-----------------------------------------------------------------------------
(* The theorems.                                                           *)

\* The invariant holds at the start.
LEMMA InitIInv == Init => IInv
<1> SUFFICES ASSUME Init PROVE IInv
    OBVIOUS
<1>1. TypeOK /\ BindingInv
    BY InitTypes
<1>2. /\ pc = "idle" /\ at = 0 /\ pending = {} /\ count = 0 /\ handle = 0 /\ took = FALSE
      /\ ownExt = [a \in Args |-> 0]
    BY DEF Init
<1>3. AtInv /\ ConformInv /\ QueueInv /\ GuardInv /\ HandleInv /\ StagedInv
    BY <1>2 DEF Init, AtInv, ConformInv, QueueInv, GuardInv, HandleInv, StagedInv
<1>4. PlacedInv /\ SymbolInv /\ FilledInv
    BY <1>2 DEF PlacedInv, SymbolInv, FilledInv, Ready
<1>5. HomeInv
    <2> SUFFICES ASSUME NEW c \in Cells PROVE Home(c) \in Values
        BY DEF HomeInv
    <2>1. Home(c) = Apply(0, c)
        BY DEF Init, Home
    <2> QED
        BY <2>1, WrapperAssumption
<1>6. KeptInv /\ RunInv
    BY <1>2 DEF KeptInv, RunInv
<1>7. LogicalInv
    BY <1>1, <1>2, <1>3, <1>5, <1>6, QuietValues
<1> QED
    BY <1>1, <1>3, <1>4, <1>5, <1>6, <1>7 DEF IInv, Base

\* What each step does to the values: nothing, or what the routine's statement does.
LEMMA ValueStep ==
    ASSUME IInv, [Next]_vars
    PROVE  /\ IInv'
           /\ \/ pc = "idle" /\ at' = at
              \/ Logical' = Logical
              \/ Run /\ LET s == code[at]
                        IN  /\ Present(s.dst) /\ Present(s.src)
                            /\ Logical' = [Logical EXCEPT ![bound[s.dst]] = Apply(at, Logical[bound[s.src]])]
              \/ Original /\ LET s == code[at]
                             IN  /\ Present(s.dst) /\ Present(s.src)
                                 /\ Logical' = [Logical EXCEPT ![bound[s.dst]] = Apply(at, Logical[bound[s.src]])]
<1>1. Base'
    BY BaseStep DEF IInv
<1>2. CASE Call
    <2>1. Logical' = Logical /\ RunInv'
        BY <1>1, <1>2, CallWrites DEF IInv
    <2>2. /\ pc = "call" /\ pc' = "run"
          /\ UNCHANGED <<fixed, bound, extent, host, dev, own, ownExt, took>> /\ how' = how
        BY <1>2 DEF Call, Block, callerVars, containers, fixed
    <2>3. \A c \in Cells : Home(c)' = Home(c)
        BY <2>2, ResidentStays DEF Home
    <2>4. HomeInv' /\ LogicalInv'
        BY <2>1, <2>3 DEF IInv, HomeInv, LogicalInv
    <2>5. KeptInv'
        BY <2>2 DEF IInv, KeptInv, Present
    <2> QED
        BY <1>1, <2>1, <2>4, <2>5 DEF IInv
<1>3. CASE Run
    BY <1>1, <1>3, RunWrites DEF IInv
<1>4. CASE CloseRegion
    BY <1>1, <1>4, CloseRegionWrites DEF IInv
<1>5. CASE CopyOut \/ WriteBack \/ Unpack
    BY <1>1, <1>5, CopyBackWrites DEF IInv
<1>6. CASE Unstage
    BY <1>1, <1>6, UnstageWrites DEF IInv
<1>7. CASE Original
    BY <1>1, <1>7, OriginalWrites DEF IInv
<1>8. CASE Transfer /\ pc \in Running
    BY <1>1, <1>8, TransferWhileRunning DEF IInv
<1>9. CASE pc = "idle"
    <2>1. IInv'
        BY <1>1, <1>9, CallerSteps DEF IInv
    <2>2. CASE Enter
        <3>1. pc' \notin Running /\ UNCHANGED <<bound, extent, host, dev>>
            BY <2>2 DEF Enter, Idle, callerVars
        <3> QED
            BY <1>1, <1>9, <2>1, <3>1, QuietStep
    <2>3. CASE ~Enter
        <3>1. at' = at
            BY <1>9, <2>3 DEF Next, vars, Caller, Substitute, Reassociate, Reallocate, Reconfigure, Finalize, Guard,
               Globals, StaticGlobals, Block, Images, Dummies, CopyIn, AliasMembers, LateSymbols, Call, Run, CloseRegion,
               CopyOut, WriteBack, Unpack, Unstage, Return, Original, ReturnOriginal, StageIn, Transfer
        <3> QED
            BY <1>9, <2>1, <3>1
    <2> QED
        BY <2>2, <2>3
<1>10. CASE UNCHANGED vars
    <2>1. UNCHANGED <<fixed, bound, extent, host, dev, pc, view, own, ownExt, region, took>>
        BY <1>10 DEF vars, callerVars, containers
    <2>2. Logical' = Logical
        BY <2>1, LogicalStays
    <2>3. HomeInv' /\ LogicalInv'
        BY <2>1, <2>2, ResidentStays DEF IInv, HomeInv, LogicalInv, Home
    <2>4. KeptInv'
        BY <2>1 DEF IInv, KeptInv, Present, fixed
    <2>5. RunInv'
        <3>1. \A a \in Args : (Present(a)' <=> Present(a)) /\ (Used(a)' <=> Used(a)) /\ Container(a)' = Container(a)
            BY <2>1, ClassesStay DEF Present, Container, Behind, Side
        <3> QED
            BY <2>1, <2>2, <3>1 DEF IInv, RunInv
    <2> QED
        BY <1>1, <2>2, <2>3, <2>4, <2>5 DEF IInv
<1>11. CASE pc # "idle" /\ pc \notin Running /\ pc' \notin Running /\ (StageIn \/ Transfer \/ UNCHANGED <<host, dev>>)
    <2>1. UNCHANGED <<bound, extent>>
        BY <1>11, AssociationsStay
    <2> QED
        BY <1>1, <1>11, <2>1, QuietStep DEF IInv
<1> QED
    <2>1. Next /\ pc # "idle" =>
             \/ Call \/ Run \/ CloseRegion \/ CopyOut \/ WriteBack \/ Unpack \/ Unstage \/ Original \/ (Transfer /\ pc \in Running)
             \/ pc \notin Running /\ pc' \notin Running /\ (StageIn \/ Transfer \/ UNCHANGED <<host, dev>>)
        BY DEF Next, callerVars, Caller, Substitute, Reassociate, Reallocate, Reconfigure, Finalize, Enter, Idle, Guard,
           StageIn, Block, Decline, Globals, StaticGlobals, Images, Dummies, CopyIn, AliasMembers, LateSymbols, Return,
           ReturnOriginal, Transfer
    <2> QED
        BY <2>1, <1>2, <1>3, <1>4, <1>5, <1>6, <1>7, <1>8, <1>9, <1>10, <1>11

\* Every reachable state satisfies IInv: among others, no buffer, image, device copy or extent symbol of the
\* generated wrapper (emit_bindings) is stale when the SDFG uses it.
THEOREM Invariance == Spec => []IInv
<1>1. IInv /\ [Next]_vars => IInv'
    BY ValueStep
<1> QED
    BY <1>1, InitIInv, PTL DEF Spec

\* A step of the substitute is a step of the routine on the values of the cells, or leaves them as they are.
LEMMA RoutineStep == IInv /\ [Next]_vars => [Routine!Next]_(Routine!vars)
<1> SUFFICES ASSUME IInv, [Next]_vars PROVE Routine!Next \/ UNCHANGED Routine!vars
    OBVIOUS
<1>1. IInv'
    BY ValueStep
<1>2. code' = code /\ Len(code) \in Nat /\ at \in Nat
    BY FixedStays DEF fixed, IInv, Base, TypeOK
<1>3. pc # "idle" => bound' = bound
    BY AssociationsStay
<1>4. CASE pc = "idle" /\ at' = at
    <2>1. at = 0 /\ bound' \in [Args -> Cells \cup {Absent}]
        BY <1>1, <1>4 DEF IInv, Base, AtInv, TypeOK
    <2>2. DOMAIN Logical' = Cells
        BY DEF Logical
    <2>3. Routine!Caller
        BY <1>2, <1>4, <2>1, <2>2 DEF Routine!Caller
    <2> QED
        BY <2>3 DEF Routine!Next
<1>5. CASE Logical' = Logical /\ ~(pc = "idle" /\ at' = at)
    <2>1. Reassociate \/ bound' = bound
        BY AssociationsStay
    <2>2. bound' = bound
        BY <1>5, <2>1 DEF Reassociate, Idle
    <2>3. CASE at' = at
        BY <1>2, <1>5, <2>2, <2>3 DEF Routine!vars
    <2>4. CASE at' # at
        <3>1. \/ pc = "idle" /\ at' = 1
              \/ pc \in {"run", "original"} /\ at <= Len(code) /\ at' = at + 1
              \/ pc \in {"return", "original"} /\ pc' = "idle" /\ at' = 0
            BY <2>4, AtFlow DEF vars
        <3>2. CASE pc = "idle" /\ at' = 1
            <4>1. at = 0
                BY <3>2 DEF IInv, Base, AtInv
            <4>2. Routine!Enter
                BY <1>2, <1>5, <2>2, <3>2, <4>1 DEF Routine!Enter
            <4> QED
                BY <4>2 DEF Routine!Next
        <3>3. CASE pc \in {"run", "original"} /\ at <= Len(code) /\ at' = at + 1
            <4>1. at \in 1 .. Len(code)
                BY <1>2, <3>3 DEF IInv, Base, AtInv
            <4>2. Routine!Execute
                BY <1>2, <1>5, <2>2, <3>3, <4>1 DEF Routine!Execute
            <4> QED
                BY <4>2 DEF Routine!Next
        <3>4. CASE pc \in {"return", "original"} /\ pc' = "idle" /\ at' = 0
            <4>1. at = Len(code) + 1
                <5>1. CASE pc = "return"
                    BY <5>1 DEF IInv, Base, AtInv
                <5>2. CASE pc = "original"
                    BY <3>4, <5>2, OriginalReturns DEF vars
                <5> QED
                    BY <3>4, <5>1, <5>2
            <4>2. Routine!Return
                BY <1>2, <1>5, <2>2, <3>4, <4>1 DEF Routine!Return
            <4> QED
                BY <4>2 DEF Routine!Next
        <3> QED
            BY <3>1, <3>2, <3>3, <3>4
    <2> QED
        BY <2>3, <2>4
<1>6. CASE /\ Run \/ Original
           /\ LET s == code[at]
              IN  /\ Present(s.dst) /\ Present(s.src)
                  /\ Logical' = [Logical EXCEPT ![bound[s.dst]] = Apply(at, Logical[bound[s.src]])]
    <2>1. at <= Len(code) /\ at' = at + 1 /\ pc \in {"run", "original"}
        BY <1>6 DEF Run, Original
    <2>2. at \in 1 .. Len(code)
        BY <1>2, <2>1 DEF IInv, Base, AtInv
    <2>3. bound' = bound
        BY <1>3, <2>1
    <2>4. Routine!Execute
        BY <1>2, <1>6, <2>1, <2>2, <2>3 DEF Routine!Execute, Present
    <2> QED
        BY <2>4 DEF Routine!Next
<1> QED
    BY <1>4, <1>5, <1>6, ValueStep

\* A substitute computes on the caller's storage what the routine would (ActsAsRoutine), for every set of names
\* and cells, every covered binding and routine, and any number of calls and changes between them.
THEOREM Refinement == Spec => ActsAsRoutine
<1>1. Init => Routine!Init
    <2> SUFFICES ASSUME Init PROVE Routine!Init
        OBVIOUS
    <2>1. TypeOK /\ at = 0
        BY InitTypes DEF Init
    <2>2. DOMAIN Logical = Cells
        BY DEF Logical
    <2> QED
        BY <2>1, <2>2 DEF Routine!Init, TypeOK
<1> QED
    BY <1>1, Invariance, RoutineStep, PTL DEF Spec, ActsAsRoutine, Routine!Spec
=============================================================================
