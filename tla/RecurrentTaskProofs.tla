------------------------- MODULE RecurrentTaskProofs -------------------------
(***************************************************************************)
(* Proofs about RecurrentTask for every value of MaxRuns and MaxOps: the  *)
(* type invariant, InFlightMeansScheduled and StopDisarms.  StopDisarms   *)
(* is not inductive by itself: a taskCallback returning from mFunction    *)
(* re-arms the timer when mInFlight is set (line 146), so the invariant   *)
(* needs that a stop also leaves mInFlight clear (StopClears).            *)
(***************************************************************************)
EXTENDS RecurrentTask, TLAPS

(* After stopAsync or the destructor, and until the next start, neither   *)
(* is the timer armed nor is the task in flight.                          *)
StopClears == stopped => (~armed /\ ~mInFlight)

IInv == TypeOK /\ InFlightMeansScheduled /\ StopClears

(* The bounds are natural numbers. *)
LEMMA BoundsNat == MaxRuns \in Nat /\ MaxOps \in Nat
BY RecurrentTaskAssumption

(* TypeOK split into its counters, which need arithmetic (SMT), and its   *)
(* flags, which Zenon handles.                                             *)
Counters == runs \in 0..MaxRuns /\ ops \in 0..MaxOps
Flags ==
  /\ mInFlight \in BOOLEAN /\ armed \in BOOLEAN /\ lpc \in LooperPCs
  /\ result \in BOOLEAN /\ alive \in BOOLEAN /\ stopped \in BOOLEAN
  /\ pending \in BOOLEAN

LEMMA TypeSplit == TypeOK <=> Counters /\ Flags
BY DEF TypeOK, Counters, Flags

THEOREM InitIInv == Init => IInv
<1> SUFFICES ASSUME Init PROVE IInv
  OBVIOUS
<1>1. Counters
  BY BoundsNat DEF Init, Counters
<1>2. Flags
  BY DEF Init, Flags, LooperPCs
<1>3. InFlightMeansScheduled /\ StopClears
  BY DEF Init, InFlightMeansScheduled, StopClears
<1>4. QED
  BY <1>1, <1>2, <1>3, TypeSplit DEF IInv

(* One step per action of the owner and of the looper thread; in each,   *)
(* the types by SMT and the two implications by Zenon.                     *)
THEOREM NextIInv == IInv /\ [Next]_vars => IInv'
<1> SUFFICES ASSUME IInv, [Next]_vars PROVE IInv'
  OBVIOUS
<1>0. TypeOK /\ InFlightMeansScheduled /\ StopClears
  BY DEF IInv
<1>1. CASE Start
  <2>1. TypeOK'
    <3>1. Counters'
      BY <1>0, <1>1, BoundsNat, TypeSplit DEF Start, Counters
    <3>2. Flags'
      BY <1>0, <1>1, TypeSplit DEF Start, Flags, LooperPCs
    <3>3. QED
      BY <3>1, <3>2, Zenon DEF TypeOK, Counters, Flags
  <2>2. InFlightMeansScheduled' /\ StopClears'
    BY <1>0, <1>1, Zenon DEF Start, InFlightMeansScheduled, StopClears
  <2>3. QED
    BY <2>1, <2>2 DEF IInv
<1>2. CASE StopAsync
  <2>1. TypeOK'
    <3>1. Counters'
      BY <1>0, <1>2, BoundsNat, TypeSplit DEF StopAsync, Counters
    <3>2. Flags'
      BY <1>0, <1>2, TypeSplit DEF StopAsync, Flags, LooperPCs
    <3>3. QED
      BY <3>1, <3>2, Zenon DEF TypeOK, Counters, Flags
  <2>2. InFlightMeansScheduled' /\ StopClears'
    BY <1>0, <1>2, Zenon DEF StopAsync, InFlightMeansScheduled, StopClears
  <2>3. QED
    BY <2>1, <2>2 DEF IInv
<1>3. CASE Destroy
  <2>1. TypeOK'
    <3>1. Counters'
      BY <1>0, <1>3, BoundsNat, TypeSplit DEF Destroy, Counters
    <3>2. Flags'
      BY <1>0, <1>3, TypeSplit DEF Destroy, Flags, LooperPCs
    <3>3. QED
      BY <3>1, <3>2, Zenon DEF TypeOK, Counters, Flags
  <2>2. InFlightMeansScheduled' /\ StopClears'
    BY <1>0, <1>3, Zenon DEF Destroy, InFlightMeansScheduled, StopClears
  <2>3. QED
    BY <2>1, <2>2 DEF IInv
<1>4. CASE Fire
  <2>1. TypeOK'
    <3>1. Counters'
      BY <1>0, <1>4, BoundsNat, TypeSplit DEF Fire, Counters
    <3>2. Flags'
      BY <1>0, <1>4, TypeSplit DEF Fire, Flags, LooperPCs
    <3>3. QED
      BY <3>1, <3>2, Zenon DEF TypeOK, Counters, Flags
  <2>2. InFlightMeansScheduled' /\ StopClears'
    BY <1>0, <1>4, Zenon DEF Fire, InFlightMeansScheduled, StopClears
  <2>3. QED
    BY <2>1, <2>2 DEF IInv
<1>5. CASE Check
  <2>1. TypeOK'
    <3>1. Counters'
      BY <1>0, <1>5, BoundsNat, TypeSplit DEF Check, Counters
    <3>2. Flags'
      BY <1>0, <1>5, TypeSplit DEF Check, Flags, LooperPCs
    <3>3. QED
      BY <3>1, <3>2, Zenon DEF TypeOK, Counters, Flags
  <2>2. InFlightMeansScheduled' /\ StopClears'
    BY <1>0, <1>5, Zenon DEF Check, InFlightMeansScheduled, StopClears
  <2>3. QED
    BY <2>1, <2>2 DEF IInv
<1>6. CASE Call
  <2>1. TypeOK'
    <3>1. Counters'
      BY <1>0, <1>6, BoundsNat, TypeSplit DEF Call, Counters
    <3>2. Flags'
      BY <1>0, <1>6, TypeSplit DEF Call, Flags, LooperPCs
    <3>3. QED
      BY <3>1, <3>2, Zenon DEF TypeOK, Counters, Flags
  <2>2. InFlightMeansScheduled' /\ StopClears'
    BY <1>0, <1>6, Zenon DEF Call, InFlightMeansScheduled, StopClears
  <2>3. QED
    BY <2>1, <2>2 DEF IInv
<1>7. CASE Relock
  <2>1. TypeOK'
    <3>1. Counters'
      BY <1>0, <1>7, TypeSplit DEF Relock, Counters
    <3>2. Flags'
      BY <1>0, <1>7, TypeSplit DEF Relock, Flags, LooperPCs
    <3>3. QED
      BY <3>1, <3>2, Zenon DEF TypeOK, Counters, Flags
  <2>2. CASE result
    BY <1>0, <1>7, <2>1, <2>2, Zenon DEF Relock, InFlightMeansScheduled, StopClears, IInv
  <2>3. CASE ~result
    BY <1>0, <1>7, <2>1, <2>3, Zenon DEF Relock, InFlightMeansScheduled, StopClears, IInv
  <2>4. QED
    BY <2>2, <2>3
<1>8. CASE UNCHANGED vars
  BY <1>0, <1>8 DEF vars, IInv, TypeOK, InFlightMeansScheduled, StopClears
<1>9. QED
  BY <1>1, <1>2, <1>3, <1>4, <1>5, <1>6, <1>7, <1>8 DEF Next, LooperStep

(* Every reachable state of the task is well typed.                       *)
THEOREM TypeCorrect == Spec => []TypeOK
<1>1. IInv => TypeOK
  BY DEF IInv
<1>2. QED
  BY <1>1, InitIInv, NextIInv, PTL DEF Spec

(* While inFlight() holds, the timer is armed or taskCallback is running, *)
(* whatever start/stopAsync calls race with the callback.                 *)
THEOREM InFlightScheduled == Spec => []InFlightMeansScheduled
<1>1. IInv => InFlightMeansScheduled
  BY DEF IInv
<1>2. QED
  BY <1>1, InitIInv, NextIInv, PTL DEF Spec

(* stopAsync is not undone by a callback in progress: the timer is not    *)
(* re-armed after it until the next start.                                *)
THEOREM StopIsFinal == Spec => []StopDisarms
<1>1. IInv => StopDisarms
  BY DEF IInv, StopClears, StopDisarms
<1>2. QED
  BY <1>1, InitIInv, NextIInv, PTL DEF Spec
=============================================================================
