------------------------------ MODULE Watchdog ------------------------------
(***************************************************************************)
(* hydra_watchdog: the process that undoes what a host has started when    *)
(* the host dies, falls silent or misbehaves.  It is armed with one        *)
(* rollback plan, watches the host's process, the age of its lease and the *)
(* control pipe, and executes the plan whatever ends the watch.            *)
(*                                                                         *)
(* The actions of the plan are processes to terminate, numbered in the     *)
(* order the host activated them.  A process id may be in use by another   *)
(* process by the time the plan is executed.                               *)
(***************************************************************************)
EXTENDS Naturals, Sequences

CONSTANTS
  PlanSize,          \* actions of the rollback plan
  LeaseTimeout,      \* ticks without a renewal until the lease has expired
  ChannelBound       \* bound of the model: frames the host sends ahead

ASSUME WatchdogAssumption ==
  PlanSize \in Nat \ {0} /\ LeaseTimeout \in Nat \ {0} /\ ChannelBound \in Nat

PlannedAction == 1..PlanSize

VARIABLES
  hostUp,            \* the host's process exists
  channel,           \* frames in the control pipe
  pid,               \* whose each process id of the plan is: see PidState
  dog,               \* the place in runWatchdog
  age,               \* ticks since the start, or since the last renewal
  completed,         \* m_completedActionIds
  nextAction,        \* the action execute() comes to next, 0 at the end
  handle,            \* whose process the open handle is, "none" without one
  unsatisfied,       \* recoveryRequired of the execution
  exitCode,          \* the exit code, "none" while running
  victims            \* ghost: processes of others that were terminated

channelVars == <<hostUp, channel>>
executionVars == <<completed, nextAction, handle, unsatisfied>>
watchdogVars == <<channelVars, pid, dog, age, executionVars, exitCode, victims>>

(* "dying": terminated, but still there when the wait for it ended.        *)
PidState == {"owned", "dying", "free", "foreign"}

Frame == {"plan", "badPlan", "renew", "disarm", "bad"}

DogPlace == {"arming", "host", "lease", "read", "rollback", "disarm", "ended"}

Exit == {"none", "StartupFailure", "RollbackComplete", "RecoveryRequired",
         "CleanDisarm"}

WatchdogInit ==
  /\ hostUp = TRUE /\ channel = <<>>
  /\ pid = [a \in PlannedAction |-> "owned"]
  /\ dog = "arming" /\ age = 0
  /\ completed = {} /\ nextAction = PlanSize
  /\ handle = "none" /\ unsatisfied = FALSE
  /\ exitCode = "none" /\ victims = {}

-----------------------------------------------------------------------------
(* The host sends a frame, which may be of any kind, or dies.              *)
SendFrame ==
  /\ hostUp /\ Len(channel) < ChannelBound
  /\ \E frame \in Frame : channel' = Append(channel, frame)
  /\ UNCHANGED <<hostUp, pid, dog, age, executionVars, exitCode, victims>>

HostDies ==
  /\ hostUp' = FALSE
  /\ UNCHANGED <<channel, pid, dog, age, executionVars, exitCode, victims>>

(* A process of the plan ends, and its id may be given to another one; a   *)
(* handle keeps the id of the process it is of.                            *)
PidMoves ==
  /\ \E a \in PlannedAction :
       \/ pid[a] \in {"owned", "dying"} /\ pid' = [pid EXCEPT ![a] = "free"]
       \/ /\ pid[a] = "free" /\ (handle = "none" \/ nextAction # a)
          /\ pid' = [pid EXCEPT ![a] = "foreign"]
  /\ UNCHANGED <<channelVars, dog, age, executionVars, exitCode, victims>>

Tick ==
  /\ dog \in {"arming", "host", "lease", "read"} /\ age < LeaseTimeout
  /\ age' = age + 1
  /\ UNCHANGED <<channelVars, pid, dog, executionVars, exitCode, victims>>

-----------------------------------------------------------------------------
EndWatch(code) == dog' = "ended" /\ exitCode' = code

(* Before a plan is registered nothing has to be undone: a dead host, the  *)
(* deadline, or anything but a valid plan for this session ends it.        *)
Arm ==
  /\ dog = "arming"
  /\ \/ /\ ~hostUp \/ age = LeaseTimeout
        /\ EndWatch("StartupFailure") /\ UNCHANGED <<channel, age>>
     \/ /\ channel # <<>>
        /\ channel' = Tail(channel)
        /\ IF Head(channel) = "plan"
             THEN dog' = "host" /\ age' = 0 /\ UNCHANGED exitCode
             ELSE EndWatch("StartupFailure") /\ UNCHANGED age
  /\ UNCHANGED <<hostUp, pid, executionVars, victims>>

WatchHost ==
  /\ dog = "host"
  /\ dog' = IF hostUp THEN "lease" ELSE "rollback"
  /\ UNCHANGED <<channelVars, pid, age, executionVars, exitCode, victims>>

WatchLease ==
  /\ dog = "lease"
  /\ dog' = IF age = LeaseTimeout THEN "rollback" ELSE "read"
  /\ UNCHANGED <<channelVars, pid, age, executionVars, exitCode, victims>>

(* Mutant of ReadControl: whatever comes is read and not acted upon.       *)
ReadControlIdle ==
  /\ dog = "read" /\ channel # <<>>
  /\ dog' = "host" /\ channel' = Tail(channel) /\ UNCHANGED age
  /\ UNCHANGED <<hostUp, pid, executionVars, exitCode, victims>>

(* No frame: from the start again.  A pipe whose host is gone is closed    *)
(* once it is empty.  A frame that is malformed, out of sequence or of     *)
(* another lease is "bad", like a plan when one is registered.             *)
ReadControl ==
  /\ dog = "read"
  /\ IF channel = <<>>
       THEN dog' = (IF hostUp THEN "host" ELSE "rollback") /\ UNCHANGED <<channel, age>>
       ELSE /\ channel' = Tail(channel)
            /\ dog' = CASE Head(channel) = "renew" -> "host"
                        [] Head(channel) = "disarm" -> "disarm"
                        [] OTHER -> "rollback"
            /\ age' = IF Head(channel) = "renew" THEN 0 ELSE age
  /\ UNCHANGED <<hostUp, pid, executionVars, exitCode, victims>>

-----------------------------------------------------------------------------
(* RollbackRegistry::execute, the last activated first; an action that is  *)
(* not satisfied does not keep the others from being tried.                *)
Executing == dog \in {"rollback", "disarm"} /\ nextAction > 0

Outcome(satisfied) ==
  /\ completed' = IF satisfied THEN completed \cup {nextAction} ELSE completed
  /\ unsatisfied' = (unsatisfied \/ ~satisfied)
  /\ nextAction' = nextAction - 1
  /\ handle' = "none"

Opened == handle' = "owned" /\ UNCHANGED <<completed, unsatisfied, nextAction>>

(* Mutant of OpenTarget: the identity is looked up by id, before opening.  *)
OpenTargetUnheld ==
  /\ Executing /\ handle = "none" /\ Opened
  /\ UNCHANGED <<channelVars, pid, dog, age, exitCode, victims>>

(* The process is opened and the identity behind the handle compared.  An  *)
(* id that is not in use is AlreadySatisfied, one of another process is    *)
(* IdentityMismatch; or the process cannot be opened, or the plan's time   *)
(* budget is spent.                                                        *)
OpenTarget ==
  /\ Executing /\ handle = "none"
  /\ \/ pid[nextAction] \in {"owned", "dying"} /\ Opened
     \/ pid[nextAction] = "free" /\ Outcome(TRUE)
     \/ Outcome(FALSE)
  /\ UNCHANGED <<channelVars, pid, dog, age, exitCode, victims>>

(* The process behind the handle has exited already, ends now or is not    *)
(* gone within the time limit; or it cannot be terminated.                 *)
TerminateTarget ==
  /\ Executing /\ handle = "owned"
  /\ \/ /\ pid[nextAction] \in {"owned", "dying"}
        /\ pid' = [pid EXCEPT ![nextAction] = "free"] /\ Outcome(TRUE)
     \/ pid[nextAction] \in {"free", "foreign"} /\ Outcome(TRUE) /\ UNCHANGED pid
     \/ /\ pid[nextAction] = "owned"
        /\ pid' = [pid EXCEPT ![nextAction] = "dying"] /\ Outcome(FALSE)
     \/ Outcome(FALSE) /\ UNCHANGED pid
  /\ victims' = IF pid[nextAction] = "foreign" THEN victims \cup {nextAction}
                                               ELSE victims
  /\ UNCHANGED <<channelVars, dog, age, exitCode>>

(* Mutant of EndExecution: a disarm is taken at the host's word.           *)
EndExecutionTrusting ==
  /\ \/ dog = "disarm" /\ EndWatch("CleanDisarm")
     \/ /\ dog = "rollback" /\ nextAction = 0
        /\ EndWatch(IF unsatisfied THEN "RecoveryRequired" ELSE "RollbackComplete")
  /\ UNCHANGED <<channelVars, pid, age, executionVars, victims>>

(* Mutant of EndExecution: the plan is tried again until it is satisfied.  *)
EndExecutionRetrying ==
  /\ dog \in {"rollback", "disarm"} /\ nextAction = 0
  /\ IF unsatisfied
       THEN /\ nextAction' = PlanSize /\ unsatisfied' = FALSE
            /\ UNCHANGED <<dog, exitCode>>
       ELSE EndWatch("RollbackComplete") /\ UNCHANGED <<nextAction, unsatisfied>>
  /\ UNCHANGED <<channelVars, pid, age, completed, handle, victims>>

EndExecution ==
  /\ dog \in {"rollback", "disarm"} /\ nextAction = 0
  /\ EndWatch(CASE unsatisfied -> "RecoveryRequired"
                [] ~unsatisfied /\ dog = "rollback" -> "RollbackComplete"
                [] ~unsatisfied /\ dog = "disarm" -> "CleanDisarm")
  /\ UNCHANGED <<channelVars, pid, age, executionVars, victims>>

DogSteps ==
  \/ Arm \/ WatchHost \/ WatchLease \/ ReadControl
  \/ OpenTarget \/ TerminateTarget \/ EndExecution

WatchdogNext == SendFrame \/ HostDies \/ PidMoves \/ Tick \/ DogSteps

(* The watchdog runs and time passes; nothing is assumed of the host.      *)
WatchdogSpec ==
  WatchdogInit /\ [][WatchdogNext]_watchdogVars
    /\ WF_watchdogVars(DogSteps) /\ WF_watchdogVars(Tick)

-----------------------------------------------------------------------------
(* Type invariant of the watchdog.                                         *)
WatchdogTypeOK ==
  /\ hostUp \in BOOLEAN /\ channel \in Seq(Frame)
  /\ pid \in [PlannedAction -> PidState]
  /\ dog \in DogPlace /\ age \in 0..LeaseTimeout
  /\ completed \subseteq PlannedAction /\ nextAction \in 0..PlanSize
  /\ handle \in {"none", "owned"} /\ unsatisfied \in BOOLEAN
  /\ exitCode \in Exit /\ victims \subseteq PlannedAction

(* "A host request alone is not sufficient proof of rollback": whether it  *)
(* is disarmed or rolls back, an armed watchdog that reports success has   *)
(* left none of the planned processes running; also when the host died     *)
(* after its disarm, or the lease expired while one lay in the pipe.       *)
SuccessMeansUndone ==
  exitCode \in {"RollbackComplete", "CleanDisarm"} =>
    \A a \in PlannedAction : pid[a] \notin {"owned", "dying"}

(* However process ids are reused, no process of another owner is ended.   *)
NoVictims == victims = {}

(* The death of the host ends the watch, whatever it left in the pipe.     *)
DeathEndsWatch == ~hostUp ~> (dog = "ended")

(* A host that is silent for the time of its lease is not waited for: an   *)
(* armed watchdog is renewed or it ends.                                   *)
SilenceEndsWatch ==
  (dog \in {"host", "lease", "read"} /\ age = LeaseTimeout)
    ~> (dog = "ended" \/ age = 0)

(* The safety of the watchdog: it reports no success before everything it  *)
(* was trusted with has ended, and ends nothing else.                      *)
RollbackIsExact == SuccessMeansUndone /\ NoVictims

(* The progress of the watchdog: a host that is dead or silent is noticed. *)
WatchEnds == DeathEndsWatch /\ SilenceEndsWatch
=============================================================================
