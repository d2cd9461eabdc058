--------------------------- MODULE RecurrentTask ---------------------------
(***************************************************************************)
(* RecurrentTask, src/base/include/aemu/base/async/RecurrentTask.h: a      *)
(* function run again and again on a Looper's thread through a            *)
(* Looper::Timer, started and stopped from another thread.                 *)
(*                                                                         *)
(* Two threads.  The owner thread calls start, stopAsync and the           *)
(* destructor (stopAndWait), each under mMutex.  The looper thread fires   *)
(* the timer and runs taskCallback, which takes mMutex twice, once in      *)
(* inFlight() before calling mFunction and once after it returns, and      *)
(* calls mFunction without the lock.  Each lock-held section is one step;  *)
(* taskCallback is the sequence of steps lpc walks through.               *)
(*                                                                         *)
(* The timer is abstracted to "armed or not": startRelative arms it        *)
(* (re-arming an armed timer moves only its deadline), stop disarms it,    *)
(* and the looper fires an armed timer once its deadline passes, disarming *)
(* it and calling back on the looper thread.                               *)
(***************************************************************************)
EXTENDS Naturals

CONSTANTS
  MaxRuns,  \* bound on mFunction calls; the last one returns false
  MaxOps    \* bound on start/stopAsync calls made by the owner thread

ASSUME RecurrentTaskAssumption ==
  /\ MaxRuns \in Nat \ {0}
  /\ MaxOps \in Nat

VARIABLES
  mInFlight,  \* RecurrentTask::mInFlight
  armed,      \* mTimer is active (started and not yet fired or stopped)
  lpc,        \* where the looper thread is in taskCallback
  result,     \* what the running mFunction call returned
  alive,      \* the RecurrentTask object has not been destroyed
  runs,       \* mFunction calls so far
  ops,        \* owner-thread calls so far
  stopped,    \* ghost: the owner's last call was stopAsync (no start since)
  pending     \* ghost: start() returned and mFunction has not been called since

vars == <<mInFlight, armed, lpc, result, alive, runs, ops, stopped, pending>>

LooperPCs == {"idle", "check", "call", "relock"}

TypeOK ==
  /\ mInFlight \in BOOLEAN
  /\ armed \in BOOLEAN
  /\ lpc \in LooperPCs
  /\ result \in BOOLEAN
  /\ alive \in BOOLEAN
  /\ runs \in 0..MaxRuns
  /\ ops \in 0..MaxOps
  /\ stopped \in BOOLEAN
  /\ pending \in BOOLEAN

(* The constructors, lines 50-67: mInFlight starts false (line 162) and   *)
(* the timer is created on the looper without being started.               *)
Init ==
  /\ mInFlight = FALSE
  /\ armed = FALSE
  /\ lpc = "idle"
  /\ result = FALSE
  /\ alive = TRUE
  /\ runs = 0
  /\ ops = 0
  /\ stopped = FALSE
  /\ pending = FALSE

-----------------------------------------------------------------------------
(* Owner thread. *)

(* start(initialDelay), lines 87-91 (start(runImmediately), lines 77-80,  *)
(* only picks the delay).                                                  *)
Start ==
  /\ alive /\ ops < MaxOps
  /\ mInFlight' = TRUE
  /\ armed' = TRUE
  /\ ops' = ops + 1
  /\ stopped' = FALSE
  /\ pending' = TRUE
  /\ UNCHANGED <<lpc, result, alive, runs>>

(* stopAsync(), lines 99-103. *)
StopAsync ==
  /\ alive /\ ops < MaxOps
  /\ mInFlight' = FALSE
  /\ armed' = FALSE
  /\ ops' = ops + 1
  /\ stopped' = TRUE
  /\ pending' = FALSE
  /\ UNCHANGED <<lpc, result, alive, runs>>

(* ~RecurrentTask(), line 69: stopAndWait (lines 110-113), which is       *)
(* stopAsync, then the members go, mTimer with them (a deleted timer      *)
(* never fires).                                                           *)
Destroy ==
  /\ alive
  /\ mInFlight' = FALSE
  /\ armed' = FALSE
  /\ alive' = FALSE
  /\ stopped' = TRUE
  /\ pending' = FALSE
  /\ UNCHANGED <<lpc, result, runs, ops>>

-----------------------------------------------------------------------------
(* Looper thread: taskCallback, lines 142-154. *)

(* The looper fires the armed timer and enters taskCallback. *)
Fire ==
  /\ alive /\ armed /\ lpc = "idle"
  /\ armed' = FALSE
  /\ lpc' = "check"
  /\ UNCHANGED <<mInFlight, result, alive, runs, ops, stopped, pending>>

(* if (inFlight()): mInFlight read under mMutex, line 143. *)
Check ==
  /\ lpc = "check"
  /\ lpc' = IF mInFlight THEN "call" ELSE "idle"
  /\ UNCHANGED <<mInFlight, armed, result, alive, runs, ops, stopped, pending>>

(* mFunction(), line 144, outside the lock; it may return either value,   *)
(* and returns false once MaxRuns calls have been made.                    *)
Call ==
  /\ lpc = "call"
  /\ \E r \in BOOLEAN : result' = (r /\ runs + 1 < MaxRuns)
  /\ runs' = IF runs < MaxRuns THEN runs + 1 ELSE runs
  /\ lpc' = "relock"
  /\ pending' = FALSE
  /\ UNCHANGED <<mInFlight, armed, alive, ops, stopped>>

(* Variants of Relock: one that forgets to restart the timer (line 147), *)
(* one that restarts it without checking mInFlight (line 146).            *)
RelockNoRearm ==
  /\ lpc = "relock"
  /\ IF result THEN UNCHANGED <<mInFlight, armed>>
               ELSE mInFlight' = FALSE /\ UNCHANGED armed
  /\ lpc' = "idle"
  /\ UNCHANGED <<result, alive, runs, ops, stopped, pending>>

RelockIgnoreStop ==
  /\ lpc = "relock"
  /\ IF result THEN armed' = TRUE /\ UNCHANGED mInFlight
               ELSE mInFlight' = FALSE /\ UNCHANGED armed
  /\ lpc' = "idle"
  /\ UNCHANGED <<result, alive, runs, ops, stopped, pending>>

(* Back under mMutex, lines 145-152: re-arm if still in flight, or clear  *)
(* mInFlight when mFunction asked to stop.                                 *)
Relock ==
  /\ lpc = "relock"
  /\ IF result
       THEN /\ armed' = (armed \/ mInFlight)
            /\ UNCHANGED mInFlight
       ELSE /\ mInFlight' = FALSE
            /\ UNCHANGED armed
  /\ lpc' = "idle"
  /\ UNCHANGED <<result, alive, runs, ops, stopped, pending>>

LooperStep == Fire \/ Check \/ Call \/ Relock

Next ==
  \/ Start \/ StopAsync \/ Destroy
  \/ LooperStep

(* The looper thread keeps running its loop: an armed timer fires and a   *)
(* callback in progress runs to its end.  The owner thread owes nothing.  *)
Spec == Init /\ [][Next]_vars /\ WF_vars(LooperStep)

-----------------------------------------------------------------------------
(* inFlight() means "scheduled or running" (its comment, lines 115-119):  *)
(* while mInFlight is set, the timer is armed or taskCallback is under    *)
(* way, whatever start/stopAsync calls interleave with the callback.      *)
InFlightMeansScheduled ==
  (alive /\ mInFlight) => (armed \/ lpc # "idle")

(* stopAsync prevents any further execution (its comment, lines 94-98):   *)
(* after it, until the next start, the timer is not armed again -- also  *)
(* by a taskCallback whose mFunction was running when stopAsync was made. *)
StopDisarms ==
  stopped => ~armed

(* stopAndWait "ensures that any currently running task completes before  *)
(* stopping" (lines 105-109): once the destructor has run, the looper     *)
(* thread is not inside taskCallback touching the freed object.           *)
NoCallbackAfterDestroy ==
  ~alive => lpc = "idle"

(* A start() is not lost: after start() returns, mFunction is called      *)
(* again unless the owner stops the task -- also when start() races with  *)
(* a callback whose mFunction returns false.                               *)
StartNotLost ==
  pending ~> ~pending
=============================================================================
