----------------------------- MODULE FatalError -----------------------------
(***************************************************************************)
(* The fatal-error path of src/host-common/GfxstreamFatalErrorAbsl.cpp.    *)
(* A thread that hits a fatal error destroys an AbortMessage: the          *)
(* destructor logs a metric event, then, if a custom die function is       *)
(* installed, logs at ERROR and calls die(), which calls the function and  *)
(* then abort(); otherwise ABSL_LOG(FATAL) ends the process.  Any thread   *)
(* may install or remove the die function with setDieFunction.             *)
(*                                                                         *)
(* customDieFunction is a plain global std::optional read and written      *)
(* without a lock.  Each read or write is one step, so a write may land    *)
(* between two reads of another thread; a read of an empty optional       *)
(* through operator* (undefined behaviour) ends the process in a crash.    *)
(***************************************************************************)
EXTENDS Naturals

CONSTANTS
  Threads,  \* threads that may hit a fatal error
  DieFns,   \* die functions a caller may install
  NoDie,    \* std::nullopt
  MaxSets   \* bound on setDieFunction calls

ASSUME FatalErrorAssumption ==
  /\ NoDie \notin DieFns
  /\ MaxSets \in Nat

VARIABLES
  custom,   \* customDieFunction
  sets,     \* setDieFunction calls so far
  pc,       \* pc[t]: where thread t is on the fatal path
  logged,   \* logged[t]: the level thread t logged its error at
  proc      \* "alive", or how the process ended

vars == <<custom, sets, pc, logged, proc>>

PCs == {"run", "dtor", "check", "fatal", "die", "call", "abort", "returned"}
Ends == {"alive", "aborted", "exited", "crashed"}

TypeOK ==
  /\ custom \in DieFns \cup {NoDie}
  /\ sets \in 0..MaxSets
  /\ pc \in [Threads -> PCs]
  /\ logged \in [Threads -> {"none", "METRIC", "ERROR", "FATAL"}]
  /\ proc \in Ends

(* customDieFunction starts as std::nullopt (line 28). *)
Init ==
  /\ custom = NoDie
  /\ sets = 0
  /\ pc = [t \in Threads |-> "run"]
  /\ logged = [t \in Threads |-> "none"]
  /\ proc = "alive"

Go(t, from, to) == pc[t] = from /\ pc' = [pc EXCEPT ![t] = to]

(* setDieFunction, line 63. *)
SetDieFunction(f) ==
  /\ proc = "alive" /\ sets < MaxSets
  /\ custom' = f
  /\ sets' = sets + 1
  /\ UNCHANGED <<pc, logged, proc>>

(* A thread raises a fatal error: an AbortMessage (lines 41-42) is built *)
(* and destroyed.                                                          *)
Raise(t) ==
  /\ proc = "alive" /\ Go(t, "run", "dtor")
  /\ UNCHANGED <<custom, sets, logged, proc>>

(* ~AbortMessage, lines 44-49: the metric event. *)
LogMetric(t) ==
  /\ proc = "alive" /\ Go(t, "dtor", "check")
  /\ logged' = [logged EXCEPT ![t] = "METRIC"]
  /\ UNCHANGED <<custom, sets, proc>>

(* Lines 51-60: the custom branch logs at ERROR and goes to die(); the    *)
(* other logs at FATAL, which ends the process.                            *)
CheckCustom(t) ==
  /\ proc = "alive"
  /\ IF custom # NoDie
       THEN Go(t, "check", "die") /\ logged' = [logged EXCEPT ![t] = "ERROR"]
       ELSE Go(t, "check", "fatal") /\ logged' = [logged EXCEPT ![t] = "FATAL"]
  /\ UNCHANGED <<custom, sets, proc>>

LogFatal(t) ==
  /\ proc = "alive" /\ pc[t] = "fatal"
  /\ proc' = "aborted"
  /\ UNCHANGED <<custom, sets, pc, logged>>

(* die(), line 31: if (customDieFunction). *)
DieCheck(t) ==
  /\ proc = "alive"
  /\ IF custom # NoDie THEN Go(t, "die", "call") ELSE Go(t, "die", "abort")
  /\ UNCHANGED <<custom, sets, logged, proc>>

(* Variant of DieCall for a die() without the abort() of line 34: a die   *)
(* function that returns lets the thread return from the destructor.      *)
DieCallNoAbort(t) ==
  /\ proc = "alive" /\ pc[t] = "call"
  /\ IF custom = NoDie
       THEN proc' = "crashed" /\ UNCHANGED pc
       ELSE \/ Go(t, "call", "returned") /\ UNCHANGED proc
            \/ proc' = "exited" /\ UNCHANGED pc
  /\ UNCHANGED <<custom, sets, logged>>

(* Line 32: the call through *customDieFunction reads the global again. *)
(* If it was emptied since the check, this is a call through an empty    *)
(* optional and the process crashes.  Otherwise the function runs and    *)
(* either ends the process (exit, or an exception leaving the noexcept   *)
(* destructor) or returns, and abort() follows.                           *)
DieCall(t) ==
  /\ proc = "alive" /\ pc[t] = "call"
  /\ IF custom = NoDie
       THEN proc' = "crashed" /\ UNCHANGED pc
       ELSE \/ Go(t, "call", "abort") /\ UNCHANGED proc
            \/ proc' = "exited" /\ UNCHANGED pc
  /\ UNCHANGED <<custom, sets, logged>>

(* abort(), line 34. *)
Abort(t) ==
  /\ proc = "alive" /\ pc[t] = "abort"
  /\ proc' = "aborted"
  /\ UNCHANGED <<custom, sets, pc, logged>>

Step(t) ==
  LogMetric(t) \/ CheckCustom(t) \/ LogFatal(t) \/ DieCheck(t) \/ DieCall(t) \/ Abort(t)

Next ==
  \/ \E f \in DieFns \cup {NoDie} : SetDieFunction(f)
  \/ \E t \in Threads : Raise(t) \/ Step(t)

(* A thread on the fatal path keeps being scheduled until the process    *)
(* ends; nothing obliges a thread to fail or to call setDieFunction.      *)
Spec == Init /\ [][Next]_vars /\ \A t \in Threads : WF_vars(Step(t))

-----------------------------------------------------------------------------
(* A fatal error is fatal: once a thread destroys an AbortMessage, the    *)
(* process ends -- by ABSL_LOG(FATAL), by the die function, or by the     *)
(* abort() after a die function that returns -- whatever setDieFunction   *)
(* calls other threads make meanwhile.                                     *)
FatalErrorTerminates ==
  \A t \in Threads : pc[t] = "dtor" ~> proc # "alive"

(* die() never calls through an empty customDieFunction: the function it *)
(* checked at line 31 is the one it calls at line 32.                      *)
NoCallThroughEmpty ==
  proc # "crashed"
=============================================================================
