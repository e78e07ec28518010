-------------------------- MODULE CallByReference --------------------------
(***************************************************************************)
(* What the linker puts a substitute in place of: the routine itself.  It  *)
(* runs on the caller's own storage, one statement after the other.        *)
(*                                                                         *)
(* The caller's storage is a set of cells.  A name of the routine (a dummy *)
(* argument, a record member, a module variable) stands for the cell       *)
(* bound[a]; two names may stand for one cell, and the caller may rebind   *)
(* them between calls.                                                     *)
(***************************************************************************)
EXTENDS Naturals, Sequences

CONSTANTS
    Args,           \* the names the routine uses
    Cells,          \* the caller's storage
    Absent,         \* what an unallocated, unassociated or omitted name has
    Apply(_, _)     \* Apply(i, v): what statement i computes from v

VARIABLES
    code,           \* the routine: a sequence of [dst, src] statements
    bound,          \* name -> its cell, or Absent
    store,          \* cell -> value
    at              \* the next statement of the running call, 0 between calls

vars == <<code, bound, store, at>>

Init ==
    /\ code \in Seq([dst : Args, src : Args])
    /\ bound \in [Args -> Cells \cup {Absent}]
    /\ DOMAIN store = Cells
    /\ at = 0

\* Between two calls the caller works on its own data.
Caller ==
    /\ at = 0
    /\ bound' \in [Args -> Cells \cup {Absent}]
    /\ DOMAIN store' = Cells
    /\ UNCHANGED <<code, at>>

Enter ==
    /\ at = 0
    /\ at' = 1
    /\ UNCHANGED <<code, bound, store>>

\* The statement is executed, or lies on a path the call does not take.
Execute ==
    /\ at \in 1 .. Len(code)
    /\ at' = at + 1
    /\ \/ UNCHANGED store
       \/ LET s == code[at]
          IN  /\ bound[s.dst] # Absent
              /\ bound[s.src] # Absent
              /\ store' = [store EXCEPT ![bound[s.dst]] = Apply(at, store[bound[s.src]])]
    /\ UNCHANGED <<code, bound>>

Return ==
    /\ at = Len(code) + 1
    /\ at' = 0
    /\ UNCHANGED <<code, bound, store>>

Next == Caller \/ Enter \/ Execute \/ Return

Spec == Init /\ [][Next]_vars
=============================================================================
