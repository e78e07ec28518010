--------------------------- MODULE DoLoopProofs ----------------------------
(***************************************************************************)
(* Proofs about DoLoop: a loop of known direction and steady header has    *)
(* Fortran's trip count, for every header and every bound.                 *)
(***************************************************************************)
EXTENDS DoLoop, TLAPS

(* A product of a non-negative and a positive integer is non-negative.     *)
LEMMA ProductNonNegative ==
  ASSUME NEW x \in Int, NEW s \in Int, x >= 0, s > 0
  PROVE  x * s >= 0
  OBVIOUS

(* Multiplication by a positive integer is monotonic.                      *)
LEMMA ProductMonotonic ==
  ASSUME NEW x \in Int, NEW y \in Int, NEW s \in Int, x <= y, s > 0
  PROVE  x * s <= y * s
<1>1. (y - x) * s >= 0
  BY ProductNonNegative
<1>2. (y - x) * s = y * s - x * s
  OBVIOUS
<1> QED
  BY <1>1, <1>2

(* Division with remainder by a positive integer.                          *)
LEMMA Quotient ==
  ASSUME NEW d \in Int, NEW s \in Int, s > 0
  PROVE  /\ d \div s \in Int
         /\ (d \div s) * s <= d
         /\ d < (d \div s) * s + s
<1>1. d = s * (d \div s) + (d % s) /\ d % s \in 0..(s - 1)
  OBVIOUS
<1> QED
  BY <1>1

(* The number of multiples 0, s, 2s, ... that do not exceed d.             *)
Multiples(d, s) == IF (d + s) \div s < 0 THEN 0 ELSE (d + s) \div s

(* t * s is within the distance d exactly while t counts below Multiples:  *)
(* the forward test i < bound + 1 and the backward test i >= bound, seen   *)
(* from the initial value.                                                 *)
LEMMA TestCounts ==
  ASSUME NEW d \in Int, NEW s \in Int, s > 0, NEW t \in Nat
  PROVE  /\ Multiples(d, s) \in Nat
         /\ t * s <= d <=> t < Multiples(d, s)
<1> DEFINE q == (d + s) \div s
<1>1. q \in Int /\ q * s <= d + s /\ d + s < q * s + s
  BY Quotient
<1> HIDE DEF q
<1>2. CASE t < q
  <2>1. (t + 1) * s <= q * s
    BY <1>1, <1>2, ProductMonotonic
  <2>2. (t + 1) * s = t * s + s
    OBVIOUS
  <2>3. t * s <= d
    BY <1>1, <2>1, <2>2
  <2> QED
    BY <1>1, <1>2, <2>3 DEF Multiples, q
<1>3. CASE ~(t < q)
  <2>1. q * s <= t * s
    BY <1>1, <1>3, ProductMonotonic
  <2>2. ~(t * s <= d)
    BY <1>1, <2>1
  <2>3. ~(t < Multiples(d, s)) /\ Multiples(d, s) \in Nat
    BY <1>1, <1>3 DEF Multiples, q
  <2> QED
    BY <2>2, <2>3
<1> QED
  BY <1>2, <1>3

-----------------------------------------------------------------------------
(* A loop Fortran and the LoopRegion agree on.                             *)
Known == KnownDirection /\ SteadyHeader

(* The loop variable counts strides from the initial value, the condition  *)
(* reads the value the bound had at entry, the update adds the stride of   *)
(* the entry, and the trips made so far never exceed Fortran's count.      *)
CountInv ==
  /\ phase = "reached" => n = entry /\ m = hdr.step /\ trips = 0
  /\ phase # "reached" => /\ i = hdr.lower + trips * hdr.step
                          /\ Bound = entry
                          /\ Step = hdr.step
                          /\ trips <= TripCount
  /\ phase = "body" => trips < TripCount
  /\ phase = "exit" => trips = TripCount

IInv == TypeOK /\ (Known => CountInv)

(* The types of the fields of a header.                                    *)
LEMMA HeaderType ==
  ASSUME TypeOK
  PROVE  /\ hdr.lower \in Int /\ hdr.step \in Int /\ hdr.step # 0
         /\ hdr.constStep \in BOOLEAN /\ hdr.inWhile \in BOOLEAN
         /\ entry \in Int /\ n \in Int /\ m \in Int
  BY HeadersAssumption DEF TypeOK

(* Fortran's count is a count of multiples of the stride's size.           *)
LEMMA TripsAreMultiples ==
  ASSUME TypeOK
  PROVE  TripCount = IF hdr.step > 0 THEN Multiples(entry - hdr.lower, hdr.step)
                     ELSE Multiples(hdr.lower - entry, -hdr.step)
<1>1. CASE hdr.step > 0
  BY <1>1, HeaderType DEF TripCount, Multiples
<1>2. CASE ~(hdr.step > 0)
  <2>1. hdr.lower - entry - hdr.step = (hdr.lower - entry) + (-hdr.step)
    BY HeaderType
  <2> QED
    BY <1>2, <2>1 DEF TripCount, Multiples
<1> QED
  BY <1>1, <1>2

(* In a known loop the condition holds exactly while Fortran has trips     *)
(* left.                                                                   *)
LEMMA ConditionCounts ==
  ASSUME TypeOK, Known, i = hdr.lower + trips * hdr.step, Bound = entry
  PROVE  TripCount \in Nat /\ (Continues <=> trips < TripCount)
<1> USE HeaderType
<1>0. trips \in Nat
  BY DEF TypeOK
<1>1. CASE hdr.step > 0
  <2>1. /\ Multiples(entry - hdr.lower, hdr.step) \in Nat
        /\ trips * hdr.step <= entry - hdr.lower <=> trips < Multiples(entry - hdr.lower, hdr.step)
    <3>1. entry - hdr.lower \in Int
      OBVIOUS
    <3> QED
      BY <1>0, <1>1, <3>1, TestCounts
  <2>2. Continues <=> i < entry + 1
    BY <1>1 DEF Continues
  <2>3. Continues <=> trips * hdr.step <= entry - hdr.lower
    BY <1>0, <2>2
  <2> QED
    BY <1>1, <2>1, <2>3, TripsAreMultiples
<1>2. CASE ~(hdr.step > 0)
  <2> DEFINE s == -hdr.step
  <2>1. s \in Int /\ s > 0 /\ trips * hdr.step = -(trips * s)
    BY <1>0, <1>2
  <2>2. /\ Multiples(hdr.lower - entry, s) \in Nat
        /\ trips * s <= hdr.lower - entry <=> trips < Multiples(hdr.lower - entry, s)
    <3> HIDE DEF s
    <3>1. hdr.lower - entry \in Int
      OBVIOUS
    <3> QED
      BY <1>0, <2>1, <3>1, TestCounts
  <2>3. Continues <=> i >= entry
    BY <1>2 DEF Continues, Known, KnownDirection
  <2>4. Continues <=> trips * s <= hdr.lower - entry
    <3> HIDE DEF s
    <3>1. trips * s \in Int
      BY <1>0, <2>1
    <3> QED
      BY <1>0, <2>1, <2>3, <3>1
  <2> QED
    BY <1>2, <2>2, <2>4, TripsAreMultiples
<1> QED
  BY <1>1, <1>2

-----------------------------------------------------------------------------
(* Every state is well typed.                                              *)
LEMMA TypeNext == TypeOK /\ [Next]_vars => TypeOK'
<1> SUFFICES ASSUME TypeOK, [Next]_vars PROVE TypeOK'
  OBVIOUS
<1> USE HeaderType
<1>1. CASE Enter
  BY <1>1, HeadersAssumption DEF TypeOK, Enter, Hoist
<1>2. CASE Test
  BY <1>2 DEF TypeOK, Test
<1>3. CASE Iterate
  <2>1. hdr' = hdr /\ by' \in Int /\ m' \in Strides \cup {hdr.step}
    BY <1>3 DEF TypeOK, Iterate
  <2>2. m' \in Int /\ Step' \in Int
    BY <2>1, HeadersAssumption DEF Step
  <2>3. i' \in Int /\ trips' \in Nat /\ n' \in Bounds
    BY <1>3, <2>2 DEF TypeOK, Iterate
  <2> QED
    BY <1>3, <2>1, <2>3 DEF TypeOK, Iterate
<1>4. CASE UNCHANGED vars
  BY <1>4 DEF TypeOK, vars
<1> QED
  BY <1>1, <1>2, <1>3, <1>4 DEF Next

(* The loop's shape and Fortran's count do not change.                     *)
LEMMA ShapeStays ==
  ASSUME [Next]_vars
  PROVE  hdr' = hdr /\ entry' = entry /\ (Known' <=> Known) /\ TripCount' = TripCount
<1>1. hdr' = hdr /\ entry' = entry
  BY DEF Next, Enter, Test, Iterate, vars
<1> QED
  BY <1>1 DEF Known, KnownDirection, SteadyHeader, SteadyBound, SteadyStride, TripCount

(* The count of trips is kept by every step of a known loop.               *)
LEMMA CountNext ==
  ASSUME TypeOK, Known, CountInv, [Next]_vars
  PROVE  CountInv'
<1> USE HeaderType, ShapeStays
<1>0. TripCount \in Nat /\ trips \in Nat
  <2>1. CASE hdr.step > 0
    <3>1. entry - hdr.lower \in Int /\ 0 \in Nat
      OBVIOUS
    <3> QED
      BY <2>1, <3>1, TestCounts, TripsAreMultiples DEF TypeOK
  <2>2. CASE ~(hdr.step > 0)
    <3>1. hdr.lower - entry \in Int /\ 0 \in Nat /\ -hdr.step \in Int /\ -hdr.step > 0
      BY <2>2
    <3> QED
      BY <2>2, <3>1, TestCounts, TripsAreMultiples DEF TypeOK
  <2> QED
    BY <2>1, <2>2
<1>1. CASE Enter
  <2>1. Bound' = entry
    BY <1>1 DEF CountInv, Enter, Hoist, Bound
  <2>s. Step' = hdr.step
    BY <1>1 DEF CountInv, Enter, Hoist, Step, Known, KnownDirection
  <2>2. trips' = 0 /\ i' = hdr.lower /\ phase' = "test"
    BY <1>1 DEF CountInv, Enter
  <2>3. hdr.lower = hdr.lower + 0 * hdr.step
    OBVIOUS
  <2> QED
    BY <1>0, <2>1, <2>s, <2>2, <2>3 DEF CountInv
<1>2. CASE Test
  <2>1. Bound' = Bound
    BY <1>2 DEF Test, Bound
  <2>s. Step' = Step /\ Step = hdr.step
    BY <1>2 DEF Test, Step, CountInv
  <2>2. i = hdr.lower + trips * hdr.step /\ Bound = entry /\ trips <= TripCount
    BY <1>2 DEF CountInv, Test
  <2>3. Continues <=> trips < TripCount
    BY <2>2, ConditionCounts
  <2> QED
    BY <1>0, <1>2, <2>1, <2>s, <2>2, <2>3 DEF CountInv, Test
<1>3. CASE Iterate
  <2>1. Step' = hdr.step
    <3>1. Step = hdr.step /\ hdr' = hdr /\ by' = by
      BY <1>3 DEF CountInv, Iterate
    <3>2. CASE hdr.constStep
      BY <3>1, <3>2 DEF Step
    <3>3. CASE ~hdr.constStep /\ "stride" \in hdr.bareNames
      <4>1. m' = m
        BY <1>3, <3>3 DEF Iterate, Known, SteadyHeader, SteadyStride
      <4> QED
        BY <3>1, <4>1 DEF Step
    <3>4. CASE ~hdr.constStep /\ "stride" \notin hdr.bareNames
      BY <3>1, <3>4 DEF Step
    <3> QED
      BY <3>2, <3>3, <3>4
  <2>2. Bound' = Bound
    BY <1>3 DEF Iterate, Bound, Known, SteadyHeader, SteadyBound
  <2>3. i = hdr.lower + trips * hdr.step /\ Bound = entry /\ trips < TripCount
    BY <1>3 DEF CountInv, Iterate
  <2>4. (trips + 1) * hdr.step = trips * hdr.step + hdr.step /\ trips * hdr.step \in Int
    BY <1>0
  <2>5. i' = hdr.lower + (trips + 1) * hdr.step
    BY <1>3, <2>1, <2>3, <2>4 DEF Iterate
  <2>6. trips' = trips + 1 /\ phase' = "test"
    BY <1>3 DEF Iterate
  <2> QED
    BY <1>0, <2>1, <2>2, <2>3, <2>5, <2>6 DEF CountInv
<1>4. CASE UNCHANGED vars
  <2>1. Bound' = Bound /\ Step' = Step
    BY <1>4 DEF vars, Bound, Step
  <2> QED
    BY <1>4, <2>1 DEF CountInv, vars
<1> QED
  BY <1>1, <1>2, <1>3, <1>4 DEF Next

(* The inductive invariant holds initially and is kept.                    *)
LEMMA Inductive == Spec => []IInv
<1>1. Init => IInv
  BY HeadersAssumption DEF Init, IInv, TypeOK, CountInv
<1>2. IInv /\ [Next]_vars => IInv'
  BY TypeNext, CountNext, ShapeStays DEF IInv
<1> QED
  BY <1>1, <1>2, PTL DEF Spec

(* A loop whose direction emit_loop knows, and whose bound and stride are  *)
(* each hoisted or left alone by the body, runs its body exactly as often  *)
(* as Fortran, for every lower bound, upper bound and stride.              *)
THEOREM TripCounts == Spec => []ExactForKnown
<1>1. IInv => ExactForKnown
  <2> SUFFICES ASSUME IInv, Known PROVE ExactTrips
    BY DEF ExactForKnown, Known
  <2> QED
    BY DEF IInv, CountInv, ExactTrips
<1> QED
  BY <1>1, Inductive, PTL
=============================================================================
