------------------------ MODULE SimpleRecurrentTask ------------------------
(***************************************************************************)
(* SimpleRecurrentTask, src/base/include/aemu/base/async/RecurrentTask.h   *)
(* lines 178-235: a fire-and-forget task.  schedule() allocates an object  *)
(* whose constructor starts its own Looper::Timer; the timer callback runs *)
(* the function on the looper thread and either restarts the timer or      *)
(* deletes the object, timer included, from inside that callback.          *)
(*                                                                         *)
(* The looper thread runs one timer callback at a time, so a whole         *)
(* callback is one step.  Any thread may schedule.  The looper itself may  *)
(* be deleted by its owner; its timers then never fire again.             *)
(***************************************************************************)
EXTENDS Naturals

CONSTANTS
  Tasks,    \* the SimpleRecurrentTask objects schedule() may allocate
  MaxRuns   \* bound on calls of a task's function; the last returns false

ASSUME SimpleRecurrentTaskAssumption ==
  /\ Tasks # {}
  /\ MaxRuns \in Nat \ {0}

VARIABLES
  task,     \* task[t]: "none" (not allocated), "armed" (mTimer started),
            \* "idle" (allocated, timer not started) or "freed" (deleted)
  runs,     \* runs[t]: calls of t's mFunction so far
  looper    \* "running" or "deleted"

vars == <<task, runs, looper>>

TaskStates == {"none", "armed", "idle", "freed"}

TypeOK ==
  /\ task \in [Tasks -> TaskStates]
  /\ runs \in [Tasks -> 0..MaxRuns]
  /\ looper \in {"running", "deleted"}

Init ==
  /\ task = [t \in Tasks |-> "none"]
  /\ runs = [t \in Tasks |-> 0]
  /\ looper = "running"

(* schedule(), lines 207-211, and the constructor, lines 213-220:         *)
(* new SimpleRecurrentTask creates mTimer on the looper and calls         *)
(* startRelative(initialDelay).                                            *)
Schedule(t) ==
  /\ looper = "running"
  /\ task[t] = "none"
  /\ task' = [task EXCEPT ![t] = "armed"]
  /\ UNCHANGED <<runs, looper>>

(* Variant of taskCallback that drops the startRelative of line 226: a    *)
(* function asking to run again leaves the object allocated and idle.     *)
TaskCallbackNoRestart(t) ==
  /\ looper = "running"
  /\ task[t] = "armed"
  /\ runs' = [runs EXCEPT ![t] = @ + 1]
  /\ \E again \in BOOLEAN :
       task' = [task EXCEPT ![t] = IF again /\ runs[t] + 1 < MaxRuns
                                     THEN "idle" ELSE "freed"]
  /\ UNCHANGED looper

(* The looper fires t's timer and runs taskCallback, lines 222-230: if    *)
(* mFunction() returns true the timer is restarted with mTaskInterval,    *)
(* otherwise "delete self" destroys the object and its timer.             *)
TaskCallback(t) ==
  /\ looper = "running"
  /\ task[t] = "armed"
  /\ runs' = [runs EXCEPT ![t] = @ + 1]
  /\ \E again \in BOOLEAN :
       task' = [task EXCEPT ![t] = IF again /\ runs[t] + 1 < MaxRuns
                                     THEN "armed" ELSE "freed"]
  /\ UNCHANGED looper

(* The looper's owner deletes the looper; pending timers never fire.      *)
DeleteLooper ==
  /\ looper = "running"
  /\ looper' = "deleted"
  /\ UNCHANGED <<task, runs>>

Next ==
  \/ \E t \in Tasks : Schedule(t) \/ TaskCallback(t)
  \/ DeleteLooper

(* A running looper fires every armed timer: weak fairness of each        *)
(* task's callback.  Nobody is obliged to schedule or to delete the       *)
(* looper.                                                                 *)
Spec == Init /\ [][Next]_vars /\ \A t \in Tasks : WF_vars(TaskCallback(t))

-----------------------------------------------------------------------------
(* schedule()'s contract (lines 185-191): the task keeps running until    *)
(* its function returns false, and then deletes itself.  Every scheduled  *)
(* task is eventually deleted, unless the looper goes away first -- the   *)
(* leak the note at lines 196-197 admits.                                  *)
EventuallyDeleted ==
  \A t \in Tasks : task[t] = "armed" ~> (task[t] = "freed" \/ looper = "deleted")
=============================================================================
