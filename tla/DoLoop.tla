------------------------------ MODULE DoLoop -------------------------------
(***************************************************************************)
(* The header of a Fortran DO loop: what the bridge extracts from a        *)
(* fir.do_loop (bridge/ast/dispatch.cpp) and the LoopRegion that           *)
(* builder/emit_cfg.py emit_loop makes of it, run beside Fortran's rule    *)
(* that the trip count is fixed when the loop is entered.                  *)
(*                                                                         *)
(* A header is a record                                                    *)
(*   lower, step     the initial value, and the stride at entry            *)
(*   constStep       the stride is a compile-time constant                 *)
(*   bareNames       which of the bound and the stride are bare scalar     *)
(*                   names: emit_loop leaves those where they are read in  *)
(*                   every iteration and hoists any other expression       *)
(*   inWhile         the loop sits in the BEFORE region of an scf.while,   *)
(*                   where another piece of the bridge extracts it         *)
(*   bodyAssigns     the parts whose scalars the body assigns              *)
(***************************************************************************)
EXTENDS Integers

CONSTANTS
  Headers,  \* loop headers
  Bounds,   \* values of the upper-bound scalar
  Strides,  \* values the body may assign to the stride's scalar
  MaxTrips  \* iterations after which an execution is cut off

VARIABLES
  hdr,    \* the loop
  entry,  \* value of the bound when the loop is reached
  n,      \* value of the bound's expression now
  m,      \* value of the stride's expression now
  end,    \* the loopend symbol, when the bound is hoisted
  by,     \* the loopstep symbol, when the stride is hoisted
  i,      \* the loop variable
  trips,  \* iterations started so far
  phase   \* "reached", "test", "body", "exit"

vars == <<hdr, entry, n, m, end, by, i, trips, phase>>

Parts == {"bound", "stride"}

ASSUME HeadersAssumption ==
  /\ Headers \subseteq [lower : Int, step : Int \ {0}, constStep : BOOLEAN,
                        bareNames : SUBSET Parts, inWhile : BOOLEAN,
                        bodyAssigns : SUBSET Parts]
  /\ Bounds \subseteq Int /\ Strides \subseteq Int /\ MaxTrips \in Nat

(* Fortran's iteration count, fixed at entry: the quotient of the signed   *)
(* distance by the stride, and no iteration when it is negative.           *)
TripCount ==
  LET count == IF hdr.step > 0 THEN (entry - hdr.lower + hdr.step) \div hdr.step
               ELSE (hdr.lower - entry - hdr.step) \div (-hdr.step)
  IN  IF count < 0 THEN 0 ELSE count

-----------------------------------------------------------------------------
StepReread == IF hdr.constStep THEN hdr.step ELSE IF hdr.inWhile THEN 1 ELSE m

(* loop_step / loop_step_expr and update_expr: a constant stride is spelled *)
(* out, a bare name is read again in every update and any other expression  *)
(* was hoisted; inside an scf.while the bridge records only a constant      *)
(* stride and leaves the default 1 otherwise.                               *)
Step ==
  IF hdr.constStep THEN hdr.step
  ELSE IF hdr.inWhile THEN 1
  ELSE IF "stride" \in hdr.bareNames THEN m ELSE by

(* The bound the condition reads: the name itself, or the hoisted symbol.  *)
Bound == IF "bound" \in hdr.bareNames THEN n ELSE end

(* _hoist_bound_to_symbol: an expression is evaluated once, before the     *)
(* loop; a bare name is left as it is.                                     *)
Hoist ==
  /\ end' = IF "bound" \in hdr.bareNames THEN end ELSE n
  /\ by' = IF hdr.constStep \/ hdr.inWhile \/ "stride" \in hdr.bareNames THEN by ELSE m

ContinuesBelowBound == i < Bound

(* condition_expr: a symbolic stride is taken as a forward one.            *)
Continues == IF ~hdr.constStep \/ hdr.step >= 0 THEN i < Bound + 1 ELSE i >= Bound

Init ==
  /\ hdr \in Headers
  /\ entry \in Bounds
  /\ n = entry /\ m = hdr.step
  /\ end = 0 /\ by = 0 /\ i = 0 /\ trips = 0
  /\ phase = "reached"

(* initialize_expr, after the hoists.                                      *)
Enter ==
  /\ phase = "reached"
  /\ Hoist
  /\ i' = hdr.lower
  /\ phase' = "test"
  /\ UNCHANGED <<hdr, entry, n, m, trips>>

Test ==
  /\ phase = "test"
  /\ phase' = IF Continues THEN "body" ELSE "exit"
  /\ UNCHANGED <<hdr, entry, n, m, end, by, i, trips>>

(* One iteration: the body, then update_expr, which reads what the body    *)
(* has left in the stride's scalar.                                        *)
Iterate ==
  /\ phase = "body"
  /\ trips < MaxTrips
  /\ \E v \in Bounds : n' = IF "bound" \in hdr.bodyAssigns THEN v ELSE n
  /\ \E v \in Strides : m' = IF "stride" \in hdr.bodyAssigns THEN v ELSE m
  /\ trips' = trips + 1
  /\ phase' = "test"
  /\ UNCHANGED <<hdr, entry, end, by>>
  /\ i' = i + Step'

Ended == phase = "exit" \/ (phase = "body" /\ trips = MaxTrips)

Next == Enter \/ Test \/ Iterate \/ (Ended /\ UNCHANGED vars)

(* The generated code keeps running.                                       *)
Spec == Init /\ [][Next]_vars /\ WF_vars(Next)

-----------------------------------------------------------------------------
TypeOK ==
  /\ hdr \in Headers
  /\ {entry, n} \subseteq Bounds
  /\ m \in Strides \cup {hdr.step}
  /\ {end, by, i} \subseteq Int /\ trips \in Nat
  /\ phase \in {"reached", "test", "body", "exit"}

(* The LoopRegion runs the body as often as Fortran does, and leaves the   *)
(* loop variable one stride past the last value it took.                   *)
ExactTrips ==
  /\ phase = "body" => trips < TripCount
  /\ phase = "exit" => trips = TripCount /\ i = hdr.lower + TripCount * hdr.step

(* The stride's sign is known to emit_loop, or happens to be positive.     *)
KnownDirection == hdr.constStep \/ (hdr.step > 0 /\ ~hdr.inWhile)

(* The bound, and a stride that is no constant, are hoisted, or the body   *)
(* leaves the scalar they name alone.  DO i = 1, n, m with a body that     *)
(* assigns m runs another number of times than in Fortran, and for ever    *)
(* when it assigns 0.                                                      *)
SteadyBound == "bound" \notin hdr.bareNames \cap hdr.bodyAssigns
SteadyStride == hdr.constStep \/ "stride" \notin hdr.bareNames \cap hdr.bodyAssigns
SteadyHeader == SteadyBound /\ SteadyStride

(* A loop of known direction and steady header has Fortran's trip count,   *)
(* whatever else the body assigns, the scalars of a hoisted bound or       *)
(* stride included, up to and down to the last value included.             *)
ExactForKnown == KnownDirection /\ SteadyHeader => ExactTrips

(* Such a loop also ends.                                                  *)
KnownLoopsEnd == KnownDirection /\ SteadyHeader => <>(phase = "exit")
=============================================================================
