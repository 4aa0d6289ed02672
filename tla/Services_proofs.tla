--------------------------- MODULE Services_proofs ---------------------------
(***************************************************************************)
(* Proofs about the components that run beside a session: the pipe server, *)
(* the audio transaction, the watchdog, the HidHide session, the game's    *)
(* input session and the audio requests.  Each has an inductive invariant  *)
(* of its own, named after it; the last part carries them over to the      *)
(* specification in which any one of them runs.                            *)
(***************************************************************************)
EXTENDS MCServices, SeatAuthority_proofs

-----------------------------------------------------------------------------
(* The pipe server.                                                        *)

(* A worker that reads for its client is found through activePipes; the    *)
(* flag is raised before any pipe is broken; a connection waits for its    *)
(* thread in "dispatch" only.                                              *)
PipeInv ==
  /\ PipeTypeOK
  /\ WorkersEndWithServer
  /\ \A c \in PipeClient : worker[c] \in {"check", "read", "handle"} => c \in activePipes
  /\ stopper # "idle" => stopRequested
  /\ accepted # {} => acceptor = "dispatch"

(* The invariant of the server is kept by each of its steps.               *)
LEMMA PipeStep == PipeInv /\ [PipeNext]_pipeVars => PipeInv'
<1> USE DEF PipeInv, PipeTypeOK, AcceptorStep, WorkerStep, WorkersEndWithServer,
        NoWorkerOutlivesServe, StopReachesEveryWorker, acceptorVars, pipesVars,
        stopVars, pipeVars, JoinedIfDone, WorkerBecomes
<1> SUFFICES ASSUME PipeInv, [PipeNext]_pipeVars PROVE PipeInv'
  OBVIOUS
<1>1. CASE LoopStarts
  BY <1>1 DEF LoopStarts
<1>2. CASE WaitForClient
  BY <1>2 DEF WaitForClient
<1>3. CASE DispatchClient
  BY <1>3 DEF DispatchClient
<1>4. CASE CancelActive
  BY <1>4 DEF CancelActive
<1>5. CASE JoinWorkers
  BY <1>5 DEF JoinWorkers
<1>6. CASE RequestServerStop
  BY <1>6 DEF RequestServerStop
<1>7. ASSUME NEW c \in PipeClient, WorkerStarts(c) PROVE PipeInv'
  BY <1>7 DEF WorkerStarts
<1>8. ASSUME NEW c \in PipeClient, RegisterPipe(c) PROVE PipeInv'
  BY <1>8 DEF RegisterPipe
<1>9. ASSUME NEW c \in PipeClient, ReadFrame(c) PROVE PipeInv'
  BY <1>9 DEF ReadFrame
<1>10. ASSUME NEW c \in PipeClient, HandleFrame(c) PROVE PipeInv'
  BY <1>10 DEF HandleFrame
<1>11. ASSUME NEW c \in PipeClient, EndWorker(c) PROVE PipeInv'
  BY <1>11 DEF EndWorker
<1>12. ASSUME NEW c \in PipeClient, ClientLeaves(c) PROVE PipeInv'
  BY <1>12 DEF ClientLeaves
<1>13. CASE UNCHANGED pipeVars
  BY <1>13
<1> QED
  BY <1>1, <1>2, <1>3, <1>4, <1>5, <1>6, <1>7, <1>8, <1>9, <1>10, <1>11, <1>12, <1>13
     DEF PipeNext, AcceptorNext, WorkerRuns

LEMMA PipeStart == PipeInit => PipeInv
BY DEF PipeInit, PipeInv, PipeTypeOK, AcceptorStep, WorkerStep, WorkersEndWithServer,
       NoWorkerOutlivesServe, StopReachesEveryWorker

(* When serve() has returned no worker is left, and a stop that has run to *)
(* its end has broken the pipe of every worker that waits for its client.  *)
THEOREM WorkersEnd == PipeSpec => []WorkersEndWithServer
<1>1. PipeInv => WorkersEndWithServer
  BY DEF PipeInv
<1> QED
  BY <1>1, PipeStart, PipeStep, PTL DEF PipeSpec

-----------------------------------------------------------------------------
(* The audio transaction.                                                  *)

(* From the moment the backend is asked to apply until it has verified an  *)
(* undo the transaction knows that it may have mutated something.          *)
RouteKnown ==
  /\ routeStep \in {"apply", "verify", "undo", "verifyUndo", "restore", "verifyRestore"}
       => routeMutated
  /\ MutationHasCapture

(* While attempt() is not repeated and the user leaves the sessions alone: *)
(* a session the backend has left on the target was captured elsewhere; it *)
(* was observed where it was captured, or nowhere.                         *)
RouteUndisturbed ==
  ~repeated /\ ~disturbed =>
    /\ ~routeMutated => movedByRoute = {}
    /\ \A s \in movedByRoute :
         /\ endpointOf[s] = RouteTarget
         /\ routeBefore[s] \notin {RouteTarget, "none"}
    /\ routeMutated =>
         \A s \in Session : routeBefore[s] \in {beforeEvidence[s], "none"}
    /\ routeStep = "capture" =>
         /\ ~routeMutated
         /\ \A s \in Session : endpointOf[s] \in {routeEvidence[s], "none"}

TransactionInv == TransactionTypeOK /\ RouteKnown /\ RouteUndisturbed

LEMMA TransactionStart == TransactionInit => TransactionInv
BY SessionAssumption
   DEF TransactionInit, TransactionInv, TransactionTypeOK, RouteKnown, RouteUndisturbed,
       MutationHasCapture, RoutePlace, RoutePhase, RouteStep

(* A move of the backend leaves every session where it was, on its place,  *)
(* and counts as left behind only those it put on the target.              *)
LEMMA MovesAreCounted ==
  ASSUME TransactionTypeOK, NEW some \in SUBSET Session, NEW places \in [Session -> RoutePlace],
         MovingSessions(some, places)
  PROVE  /\ endpointOf' \in [Session -> RoutePlace]
         /\ \A s \in Session : endpointOf'[s] = IF s \in some THEN places[s] ELSE endpointOf[s]
         /\ movedByRoute' \subseteq Session
         /\ \A s \in movedByRoute' :
              \/ s \in movedByRoute /\ s \notin some
              \/ s \in movedByRoute /\ s \in some /\ places[s] = RouteTarget
              \/ s \in some /\ routeBefore[s] \notin {RouteTarget, "none"}
                 /\ places[s] = RouteTarget
BY DEF MovingSessions, TransactionTypeOK, OwnedSessions

(* The invariant of the transaction is kept by each of its steps.          *)
LEMMA TransactionStep ==
  TransactionInv /\ [TransactionNext]_transactionVars => TransactionInv'
<1> USE DEF TransactionInv, RouteKnown, RouteUndisturbed, MutationHasCapture,
        routeStatusVars, routeCaptureVars, routeWorldVars, routeGhostVars, routeKept,
        ReturnRoute, ContinueRoute
<1> SUFFICES ASSUME TransactionInv, [TransactionNext]_transactionVars
             PROVE  TransactionInv'
  OBVIOUS
<1>1. CASE AttemptRoute
  <2>0. routeMutated \in BOOLEAN
    BY DEF TransactionTypeOK
  <2>1. /\ routeStep' \in {"idle", "capture"} /\ routePhase' \in RoutePhase
        /\ rollbackVerified' = FALSE
    BY <1>1 DEF AttemptRoute, TransactionTypeOK, RoutePhase
  <2>9. routeMutated' = routeMutated \/ routeMutated' = FALSE
    BY <1>1 DEF AttemptRoute
  <2>10. routeMutated' \in BOOLEAN /\ (routeMutated' => routeMutated)
    <3>1. CASE routeMutated' = routeMutated
      BY <2>0, <3>1
    <3>2. CASE routeMutated' = FALSE
      BY <3>2
    <3> QED
      BY <2>9, <3>1, <3>2
  <2>2. repeated' = (repeated \/ routeMutated) /\ routeEvidence' = endpointOf
    BY <1>1 DEF AttemptRoute
  <2>3. UNCHANGED <<routeWorldVars, routeCaptureVars, disturbed>>
    BY <1>1 DEF AttemptRoute
  <2>4. TransactionTypeOK'
    BY <2>1, <2>2, <2>3, <2>10 DEF TransactionTypeOK, RouteStep
  <2>5. RouteKnown'
    BY <2>1, <2>3, <2>10 DEF TransactionTypeOK
  <2>6. RouteUndisturbed'
    BY <2>1, <2>2, <2>3, <2>9 DEF TransactionTypeOK
  <2> QED
    BY <2>4, <2>5, <2>6
<1>2. CASE CaptureRoute
  <2>1. TransactionTypeOK'
    BY <1>2, SessionAssumption DEF CaptureRoute, TransactionTypeOK, RoutePhase, RouteStep,
       RoutePlace
  <2>2. RouteKnown'
    <3>1. CASE UNCHANGED <<routeMutated, routeCaptureVars>> /\ routeStep' = "idle"
      BY <3>1
    <3>2. CASE /\ routeBefore' = [s \in Session |->
                      IF routeEvidence[s] = "none" THEN "none" ELSE endpointOf[s]]
               /\ beforeEvidence' = routeEvidence
      <4>1. routeBefore' \in [Session -> {RouteTarget, RouteOther, "none"}]
        BY <3>2 DEF TransactionTypeOK, RoutePlace
      <4>2. beforeEvidence' \in [Session -> {RouteTarget, RouteOther, "none"}]
        BY <3>2 DEF TransactionTypeOK, RoutePlace
      <4> QED
        BY <1>2, <3>2, <4>1, <4>2, SessionAssumption DEF CaptureRoute
    <3> QED
      BY <1>2, <3>1, <3>2 DEF CaptureRoute
  <2>3. RouteUndisturbed'
    BY <1>2 DEF CaptureRoute, TransactionTypeOK
  <2> QED
    BY <2>1, <2>2, <2>3
<1>3. CASE ApplyRoute
  <2>1. PICK some \in SUBSET Session :
          MovingSessions(some, [s \in Session |-> RouteTarget])
    BY <1>3 DEF ApplyRoute
  <2> DEFINE goal == [s \in Session |-> RouteTarget]
  <2>2. goal \in [Session -> RoutePlace] /\ \A s \in Session : goal[s] = RouteTarget
    BY DEF RoutePlace
  <2>3. MovingSessions(some, goal)
    BY <2>1
  <2> HIDE DEF goal
  <2>4. /\ endpointOf' \in [Session -> RoutePlace]
        /\ \A s \in Session : endpointOf'[s] = IF s \in some THEN goal[s] ELSE endpointOf[s]
        /\ movedByRoute' \subseteq Session
        /\ \A s \in movedByRoute' :
             \/ s \in movedByRoute /\ s \notin some
             \/ s \in movedByRoute /\ s \in some /\ goal[s] = RouteTarget
             \/ s \in some /\ routeBefore[s] \notin {RouteTarget, "none"}
                /\ goal[s] = RouteTarget
    BY <2>2, <2>3, MovesAreCounted
  <2>5. TransactionTypeOK'
    BY <1>3, <2>4 DEF ApplyRoute, TransactionTypeOK, RoutePhase, RouteStep
  <2>6. RouteKnown' /\ RouteUndisturbed'
    BY <1>3, <2>2, <2>4 DEF ApplyRoute, TransactionTypeOK
  <2> QED
    BY <2>5, <2>6
<1>4. CASE VerifyRoute
  BY <1>4 DEF VerifyRoute, TransactionTypeOK, RoutePhase, RouteStep
<1>5. CASE UndoRoute
  <2>1. PICK some \in SUBSET Session : MovingSessions(some, routeBefore)
    BY <1>5 DEF UndoRoute
  <2>2. routeMutated /\ routeBefore \in [Session -> RoutePlace]
    BY <1>5 DEF UndoRoute, TransactionTypeOK
  <2>3. /\ endpointOf' \in [Session -> RoutePlace]
        /\ \A s \in Session : endpointOf'[s] = IF s \in some THEN routeBefore[s] ELSE endpointOf[s]
        /\ movedByRoute' \subseteq Session
        /\ \A s \in movedByRoute' :
             \/ s \in movedByRoute /\ s \notin some
             \/ s \in movedByRoute /\ s \in some /\ routeBefore[s] = RouteTarget
             \/ s \in some /\ routeBefore[s] \notin {RouteTarget, "none"}
                /\ routeBefore[s] = RouteTarget
    BY <2>1, <2>2, MovesAreCounted
  <2>4. TransactionTypeOK'
    BY <1>5, <2>3 DEF UndoRoute, TransactionTypeOK, RoutePhase, RouteStep
  <2>5. RouteKnown' /\ RouteUndisturbed'
    BY <1>5, <2>2, <2>3 DEF UndoRoute, TransactionTypeOK
  <2> QED
    BY <2>4, <2>5
<1>6. CASE VerifyUndone
  <2>1. TransactionTypeOK' /\ RouteKnown'
    BY <1>6 DEF VerifyUndone, TransactionTypeOK, RoutePhase, RouteStep
  <2>2. routeMutated /\ routeBefore # NoCapture /\ beforeEvidence # NoCapture
    BY <1>6 DEF VerifyUndone
  <2>3. ~repeated /\ ~disturbed /\ RouteRestored => movedByRoute = {}
    BY <2>2 DEF RouteRestored, OwnedSessions, TransactionTypeOK
  <2>4. RouteUndisturbed'
    BY <1>6, <2>2, <2>3 DEF VerifyUndone
  <2> QED
    BY <2>1, <2>4
<1>7. CASE RollbackRoute
  BY <1>7 DEF RollbackRoute, TransactionTypeOK, RoutePhase, RouteStep
<1>8. CASE RouteWorldMoves
  <2>1. TransactionTypeOK'
    <3>1. /\ endpointOf' \in [Session -> RoutePlace] /\ movedByRoute' \subseteq Session
          /\ disturbed' \in BOOLEAN
      BY <1>8 DEF RouteWorldMoves, TransactionTypeOK
    <3>2. targetPresent' \in BOOLEAN
      BY <1>8 DEF RouteWorldMoves, TransactionTypeOK
    <3> QED
      BY <1>8, <3>1, <3>2 DEF RouteWorldMoves, TransactionTypeOK
  <2>2. RouteKnown'
    BY <1>8 DEF RouteWorldMoves
  <2>3. RouteUndisturbed'
    BY <1>8 DEF RouteWorldMoves, TransactionTypeOK
  <2> QED
    BY <2>1, <2>2, <2>3
<1>9. CASE UNCHANGED transactionVars
  BY <1>9 DEF transactionVars, TransactionTypeOK
<1> QED
  BY <1>1, <1>2, <1>3, <1>4, <1>5, <1>6, <1>7, <1>8, <1>9 DEF TransactionNext

(* Without repetition and disturbance no session is left on the target by  *)
(* a transaction that believes it has mutated nothing; and what it has     *)
(* mutated it can take back.                                               *)
LEMMA TransactionIsKnown == TransactionInv => TransactionTypeOK /\ MutationIsKept
BY DEF TransactionInv, RouteKnown, RouteUndisturbed, MutationIsKept, UndoneOrRemembered,
       MutationRemembered

THEOREM TransactionSafe == TransactionSpec => [](TransactionTypeOK /\ MutationIsKept)
BY TransactionStart, TransactionStep, TransactionIsKnown, PTL DEF TransactionSpec

-----------------------------------------------------------------------------
(* The watchdog.                                                           *)

(* The open handle is of a process of the plan, whose id nobody else gets  *)
(* as long as it is open.                                                  *)
HandleIsOwned == handle = "owned" => Executing /\ pid[nextAction] # "foreign"

(* Nothing is executed before the watch has come to its end; then the      *)
(* actions above nextAction have been tried, and unless one of them was    *)
(* not satisfied none of their processes runs.                             *)
TriedIsUndone ==
  /\ dog \in {"arming", "host", "lease", "read"} => nextAction = PlanSize
  /\ ~unsatisfied =>
       \A a \in PlannedAction : a > nextAction => pid[a] \notin {"owned", "dying"}

(* Success is reported at the end of a plan that was satisfied throughout. *)
SuccessIsComplete ==
  exitCode \in {"RollbackComplete", "CleanDisarm"} =>
    dog = "ended" /\ nextAction = 0 /\ ~unsatisfied

WatchdogInv ==
  WatchdogTypeOK /\ NoVictims /\ HandleIsOwned /\ TriedIsUndone /\ SuccessIsComplete

LEMMA WatchdogStart == WatchdogInit => WatchdogInv
<1> SUFFICES ASSUME WatchdogInit PROVE WatchdogInv
  OBVIOUS
<1>1. WatchdogTypeOK
  <2>1. channel \in Seq(Frame)
    BY DEF WatchdogInit
  <2>2. pid \in [PlannedAction -> PidState]
    BY DEF WatchdogInit, PidState
  <2>3. age \in 0..LeaseTimeout /\ nextAction \in 0..PlanSize
    BY WatchdogAssumption DEF WatchdogInit
  <2> QED
    BY <2>1, <2>2, <2>3 DEF WatchdogInit, WatchdogTypeOK, DogPlace, Exit
<1>2. NoVictims /\ HandleIsOwned /\ SuccessIsComplete
  BY DEF WatchdogInit, NoVictims, HandleIsOwned, SuccessIsComplete
<1>3. TriedIsUndone
  BY WatchdogAssumption DEF WatchdogInit, TriedIsUndone, PlannedAction
<1> QED
  BY <1>1, <1>2, <1>3 DEF WatchdogInv

(* An action that is dealt with: what is left to try is one less, and what *)
(* has been tried is undone or noted as unsatisfied.                       *)
LEMMA OutcomeIsKept ==
  ASSUME WatchdogInv, NEW satisfied \in BOOLEAN, Executing, Outcome(satisfied),
         pid' \in [PlannedAction -> PidState],
         \A a \in PlannedAction \ {nextAction} : pid'[a] = pid[a],
         satisfied => pid'[nextAction] \notin {"owned", "dying"},
         UNCHANGED <<channelVars, dog, age, exitCode, victims>>
  PROVE  WatchdogInv'
<1> USE DEF WatchdogInv
<1>1. nextAction \in PlannedAction /\ nextAction' \in 0..PlanSize
      /\ nextAction' = nextAction - 1
  BY WatchdogAssumption DEF Executing, WatchdogTypeOK, PlannedAction, Outcome
<1>2. WatchdogTypeOK'
  BY <1>1 DEF WatchdogTypeOK, Outcome, channelVars
<1>3. NoVictims' /\ HandleIsOwned' /\ SuccessIsComplete'
  BY DEF NoVictims, HandleIsOwned, SuccessIsComplete, Outcome, Executing
<1>4. \A a \in PlannedAction : a > nextAction' => a = nextAction \/ a > nextAction
  BY <1>1, WatchdogAssumption DEF PlannedAction
<1>5. ~unsatisfied' => ~unsatisfied /\ satisfied
  BY DEF Outcome
<1>6. TriedIsUndone'
  BY <1>1, <1>4, <1>5 DEF TriedIsUndone, Executing, Outcome
<1> QED
  BY <1>2, <1>3, <1>6

(* The invariant of the watchdog is kept by each step.                     *)
LEMMA WatchdogStep == WatchdogInv /\ [WatchdogNext]_watchdogVars => WatchdogInv'
<1> USE DEF WatchdogInv
<1> SUFFICES ASSUME WatchdogInv, [WatchdogNext]_watchdogVars PROVE WatchdogInv'
  OBVIOUS
<1> USE DEF channelVars, executionVars
<1>1. CASE SendFrame
  BY <1>1 DEF SendFrame, WatchdogTypeOK, NoVictims, HandleIsOwned, TriedIsUndone,
     SuccessIsComplete, Executing
<1>2. CASE HostDies
  BY <1>2 DEF HostDies, WatchdogTypeOK, NoVictims, HandleIsOwned, TriedIsUndone,
     SuccessIsComplete, Executing
<1>3. CASE PidMoves
  <2>1. PICK a \in PlannedAction :
          \/ pid[a] \in {"owned", "dying"} /\ pid' = [pid EXCEPT ![a] = "free"]
          \/ /\ pid[a] = "free" /\ (handle = "none" \/ nextAction # a)
             /\ pid' = [pid EXCEPT ![a] = "foreign"]
    BY <1>3 DEF PidMoves
  <2>2. UNCHANGED <<channelVars, dog, age, executionVars, exitCode, victims>>
    BY <1>3 DEF PidMoves
  <2>3. pid' \in [PlannedAction -> PidState]
    BY <2>1 DEF WatchdogTypeOK, PidState
  <2>4. WatchdogTypeOK'
    BY <2>2, <2>3 DEF WatchdogTypeOK
  <2>5. HandleIsOwned'
    <3>1. handle' = "owned" =>
            Executing /\ nextAction \in PlannedAction /\ pid[nextAction] # "foreign"
      BY <2>2, WatchdogAssumption
         DEF HandleIsOwned, WatchdogTypeOK, Executing, PlannedAction
    <3>2. handle = "owned" => pid'[nextAction] # "foreign"
      <4>1. CASE pid' = [pid EXCEPT ![a] = "free"]
        BY <2>2, <3>1, <4>1 DEF WatchdogTypeOK
      <4>2. CASE handle = "none"
        BY <4>2
      <4>3. CASE nextAction # a /\ pid' = [pid EXCEPT ![a] = "foreign"]
        BY <2>2, <3>1, <4>3 DEF WatchdogTypeOK
      <4> QED
        BY <2>1, <4>1, <4>2, <4>3
    <3> QED
      BY <2>2, <3>1, <3>2 DEF HandleIsOwned, Executing
  <2>6. TriedIsUndone'
    BY <2>1, <2>2 DEF TriedIsUndone, WatchdogTypeOK
  <2> QED
    BY <2>2, <2>4, <2>5, <2>6 DEF NoVictims, SuccessIsComplete
<1>4. CASE Tick
  <2>1. WatchdogTypeOK'
    BY <1>4, WatchdogAssumption DEF Tick, WatchdogTypeOK
  <2> QED
    BY <1>4, <2>1 DEF Tick, NoVictims, HandleIsOwned, TriedIsUndone,
       SuccessIsComplete, Executing
<1>5. CASE Arm
  <2>1. WatchdogTypeOK'
    <3>1. channel' \in Seq(Frame)
      BY <1>5 DEF Arm, WatchdogTypeOK
    <3> QED
      BY <1>5, <3>1, WatchdogAssumption DEF Arm, EndWatch, WatchdogTypeOK, DogPlace, Exit
  <2> QED
    BY <1>5, <2>1 DEF Arm, EndWatch, NoVictims, HandleIsOwned, TriedIsUndone,
       SuccessIsComplete, Executing
<1>6. CASE WatchHost \/ WatchLease
  BY <1>6 DEF WatchHost, WatchLease, WatchdogTypeOK, DogPlace, NoVictims, HandleIsOwned,
     TriedIsUndone, SuccessIsComplete, Executing
<1>7. CASE ReadControl
  <2>1. WatchdogTypeOK'
    <3>1. channel' \in Seq(Frame)
      BY <1>7 DEF ReadControl, WatchdogTypeOK
    <3>2. dog' \in DogPlace /\ age' \in 0..LeaseTimeout
      BY <1>7, WatchdogAssumption DEF ReadControl, WatchdogTypeOK, DogPlace
    <3> QED
      BY <1>7, <3>1, <3>2 DEF ReadControl, WatchdogTypeOK
  <2> QED
    BY <1>7, <2>1 DEF ReadControl, NoVictims, HandleIsOwned, TriedIsUndone,
       SuccessIsComplete, Executing
<1>8. CASE OpenTarget
  <2>1. nextAction \in PlannedAction
    BY <1>8, WatchdogAssumption DEF OpenTarget, Executing, WatchdogTypeOK, PlannedAction
  <2>2. CASE pid[nextAction] \in {"owned", "dying"} /\ Opened
    BY <1>8, <2>1, <2>2 DEF OpenTarget, Opened, WatchdogTypeOK, NoVictims, HandleIsOwned,
       TriedIsUndone, SuccessIsComplete, Executing
  <2>3. CASE pid[nextAction] = "free" /\ Outcome(TRUE)
    BY <1>8, <2>3, OutcomeIsKept DEF OpenTarget, WatchdogTypeOK
  <2>4. CASE Outcome(FALSE)
    BY <1>8, <2>4, OutcomeIsKept DEF OpenTarget, WatchdogTypeOK
  <2> QED
    BY <1>8, <2>2, <2>3, <2>4 DEF OpenTarget
<1>9. CASE TerminateTarget
  <2>1. nextAction \in PlannedAction /\ Executing
    BY <1>9, WatchdogAssumption DEF TerminateTarget, Executing, WatchdogTypeOK, PlannedAction
  <2>2. pid[nextAction] # "foreign" /\ victims' = victims
    BY <1>9 DEF TerminateTarget, HandleIsOwned
  <2>3. UNCHANGED <<channelVars, dog, age, exitCode, victims>>
    BY <1>9, <2>2 DEF TerminateTarget
  <2>4. PICK satisfied \in BOOLEAN :
          /\ Outcome(satisfied) /\ pid' \in [PlannedAction -> PidState]
          /\ \A a \in PlannedAction \ {nextAction} : pid'[a] = pid[a]
          /\ satisfied => pid'[nextAction] \notin {"owned", "dying"}
    <3>1. CASE pid' = [pid EXCEPT ![nextAction] = "free"] /\ Outcome(TRUE)
      BY <2>1, <3>1 DEF WatchdogTypeOK, PidState
    <3>2. CASE pid[nextAction] \in {"free", "foreign"} /\ Outcome(TRUE) /\ UNCHANGED pid
      BY <2>1, <3>2 DEF WatchdogTypeOK
    <3>3. CASE pid' = [pid EXCEPT ![nextAction] = "dying"] /\ Outcome(FALSE)
      BY <2>1, <3>3 DEF WatchdogTypeOK, PidState
    <3>4. CASE Outcome(FALSE) /\ UNCHANGED pid
      BY <2>1, <3>4 DEF WatchdogTypeOK
    <3> QED
      BY <1>9, <3>1, <3>2, <3>3, <3>4 DEF TerminateTarget
  <2> QED
    BY <2>1, <2>3, <2>4, OutcomeIsKept
<1>10. CASE EndExecution
  BY <1>10 DEF EndExecution, EndWatch, WatchdogTypeOK, DogPlace, Exit, NoVictims,
     HandleIsOwned, TriedIsUndone, SuccessIsComplete, Executing
<1>11. CASE UNCHANGED watchdogVars
  BY <1>11 DEF watchdogVars, WatchdogTypeOK, NoVictims, HandleIsOwned, TriedIsUndone,
     SuccessIsComplete, Executing
<1> QED
  BY <1>1, <1>2, <1>3, <1>4, <1>5, <1>6, <1>7, <1>8, <1>9, <1>10, <1>11
     DEF WatchdogNext, DogSteps

LEMMA SuccessIsUndone == WatchdogInv => WatchdogTypeOK /\ RollbackIsExact
BY WatchdogAssumption
   DEF WatchdogInv, SuccessIsComplete, TriedIsUndone, RollbackIsExact, SuccessMeansUndone,
       NoVictims, PlannedAction

(* Whatever the host sends and whenever it dies: a watchdog that reports   *)
(* success has left none of the planned processes running, and it has      *)
(* ended no process of anyone else, however process ids are reused.        *)
THEOREM WatchdogSafe == WatchdogSpec => [](WatchdogTypeOK /\ RollbackIsExact)
BY WatchdogStart, WatchdogStep, SuccessIsUndone, PTL DEF WatchdogSpec

-----------------------------------------------------------------------------
(* The HidHide session.                                                    *)

(* From the first write of activate() to the verified end of the cleanup:  *)
(* the settings may differ from what they were.                            *)
HidApplying ==
  \/ hidStep \in {"apply", "verify", "blacklist", "clear", "inspect", "restore",
                  "verifyRestored"}
  \/ hidPhase \in {"Active", "RollingBack", "RecoveryRequired"}

(* Where in its calls the session is in which phase.                       *)
HidPlaces ==
  /\ hidStep \in {"persist", "apply", "verify", "blacklist"} => hidPhase = "Prepared"
  /\ hidStep \in {"clear", "inspect", "restore", "verifyRestored"} => hidPhase = "RollingBack"
  /\ hidStep = "cleanup" => hidPhase = "Idle"
  /\ hidPhase = "Prepared" => plan # {}

(* There is one plan and one record, each made from the settings it found. *)
OneRecord ==
  /\ \A p, q \in plan : p = q
  /\ \A r, q \in record : r = q
  /\ \A r \in plan \cup record : r.applied = Applied(r.before)

(* What the guard knows resolves to the record: the registered action to   *)
(* the generation in it, and the prepared plan is the recorded one.        *)
GuardKnowsRecord ==
  /\ armed => action # 0 /\ watch = action
  /\ action # 0 => record # {} /\ \A r \in record : r.generation = action
  /\ hidStep = "persist" => ~armed /\ action = 0
  /\ hidPhase = "Prepared" /\ hidStep = "idle" /\ action # 0 => plan = record

(* While it applies, the session has a plan that is recorded and watched.  *)
ApplyingIsRecorded ==
  HidApplying =>
    plan # {} /\ owed = plan /\ record = plan /\ \A p \in plan : watch = p.generation

(* When it does not, HydraSeat's part of the settings is what every plan   *)
(* and record found.                                                       *)
NothingApplied ==
  ~HidApplying => ~entries /\ \A r \in plan \cup record \cup owed : hid.hydra = r.before.hydra

EntriesAreKnown ==
  (hidden => entries /\ owner) /\ (hidStep = "blacklist" => entries)

(* The executor runs after the death of the host; it writes only over an   *)
(* applied state, and what it reports is so.                               *)
RestorerFollows ==
  /\ restorer # "idle" => ~owner
  /\ restorer \in {"restore", "verify"} => HidApplying
  /\ RestorerIsRight

(* Whoever is about to write holds the user's last choice, unless the user *)
(* edited in between.                                                      *)
WriterKnowsChoice ==
  ~raced =>
    /\ hid.user = wanted
    /\ hidPhase = "Prepared" \/ hidStep = "restore" =>
         \A p \in plan : p.before.user = wanted
    /\ restorer = "restore" => \A r \in record : r.before.user = wanted

HidInv ==
  /\ HidTypeOK /\ HidPlaces /\ OneRecord /\ GuardKnowsRecord /\ ApplyingIsRecorded
  /\ NothingApplied /\ EntriesAreKnown /\ RestorerFollows /\ WriterKnowsChoice

LEMMA HidStart == HidInit => HidInv
<1> SUFFICES ASSUME HidInit PROVE HidInv
  OBVIOUS
<1>1. HidTypeOK
  <2>1. hid \in Settings /\ wanted \in UserChoice
    BY DEF HidInit, Settings
  <2>2. {action, watch} \subseteq 0..MaxSession
    BY HidHideAssumption DEF HidInit
  <2> QED
    BY <2>1, <2>2 DEF HidInit, HidTypeOK, HidPhase, HidStep
<1> QED
  BY <1>1 DEF HidInit, HidInv, HidPlaces, OneRecord, GuardKnowsRecord, ApplyingIsRecorded,
     NothingApplied, HidApplying, EntriesAreKnown, RestorerFollows, RestorerIsRight,
     WriterKnowsChoice

(* The settings a plan applies are HydraSeat's with the user's own.        *)
LEMMA AppliedSettings ==
  ASSUME NEW settings \in Settings
  PROVE  /\ Applied(settings) \in Settings
         /\ Applied(settings).hydra = "yes" /\ Applied(settings).user = settings.user
BY DEF Settings, Applied

(* A write brings HydraSeat's part to the end, half way or nowhere, and    *)
(* the user's part where the settings written have it, or nowhere.         *)
LEMMA WrittenSettings ==
  ASSUME hid \in Settings, NEW settings \in Settings, Written(settings)
  PROVE  /\ hid' \in Settings
         /\ hid'.user \in {settings.user, hid.user}
<1>1. CASE hid' = settings
  BY <1>1
<1>2. CASE hid' = [settings EXCEPT !.hydra = "part"]
  BY <1>2 DEF Settings
<1>3. CASE hid' = hid
  BY <1>3
<1> QED
  BY <1>1, <1>2, <1>3 DEF Written

(* A guard that knows of no action is well typed.                          *)
LEMMA GuardForgets ==
  ASSUME HidTypeOK, armed' = FALSE, action' = 0,
         UNCHANGED <<hidden, owner, entries, watch, raced>>
  PROVE  /\ {action', watch'} \subseteq 0..MaxSession
         /\ {hidden', owner', entries', armed', raced'} \subseteq BOOLEAN
<1>1. 0 \in 0..MaxSession /\ watch' \in 0..MaxSession
  BY HidHideAssumption DEF HidTypeOK
<1>2. {action', watch'} \subseteq 0..MaxSession
  BY <1>1
<1>3. hidden' \in BOOLEAN /\ owner' \in BOOLEAN /\ entries' \in BOOLEAN /\ raced' \in BOOLEAN
  BY DEF HidTypeOK
<1>4. armed' \in BOOLEAN
  OBVIOUS
<1> QED
  BY <1>2, <1>3, <1>4

(* The invariant of the session is kept by each step.                      *)
LEMMA HidStepKeeps == HidInv /\ [HidNext]_hidVars => HidInv'
<1> USE DEF HidInv, HidTypeOK, HidPlaces, OneRecord, GuardKnowsRecord, ApplyingIsRecorded,
        NothingApplied, HidApplying, EntriesAreKnown, RestorerFollows, RestorerIsRight,
        WriterKnowsChoice, HidPhase, HidStep, hidWorldVars, guardVars, hidHostVars,
        recoveryVars, hidGhostVars, HidCalling, HidGoes, HidEnds, HidUndoes, HidClean
<1> SUFFICES ASSUME HidInv, [HidNext]_hidVars PROVE HidInv'
  OBVIOUS
<1>0. /\ hid \in Settings
      /\ \A p \in plan \cup record \cup owed :
           p.generation \in 1..MaxSession /\ p.before \in Settings /\ p.applied \in Settings
      /\ \A p \in plan \cup record :
           p.applied.hydra = "yes" /\ p.applied.user = p.before.user
  BY AppliedSettings DEF HidPlan
<1>1. CASE PersistRecord
  <2>1. ASSUME NEW p \in plan, record' = {p}, action' = p.generation,
               UNCHANGED <<hidStep, hidPhase>> \/ (hidStep' = "idle" /\ UNCHANGED hidPhase),
               UNCHANGED plan
        PROVE  HidInv'
    <3>1. p.generation \in 0..MaxSession /\ p.generation # 0
      BY <1>0, HidHideAssumption
    <3>2. plan = {p} /\ p \in HidPlan
      BY <2>1
    <3> QED
      BY <1>1, <2>1, <3>1, <3>2 DEF PersistRecord
  <2>2. CASE plan' = {} /\ HidEnds("Idle") /\ UNCHANGED <<record, action>>
    BY <1>1, <2>2 DEF PersistRecord
  <2> QED
    BY <1>1, <2>1, <2>2 DEF PersistRecord
<1>2. CASE RegisterWatch
  BY <1>2 DEF RegisterWatch
<1>3. CASE ConfirmRecoveryArmed
  BY <1>3 DEF ConfirmRecoveryArmed
<1>4. CASE ActivateHid
  BY <1>4 DEF ActivateHid
<1>5. CASE ApplyHid
  <2>1. PICK p \in plan : Written(p.applied)
    BY <1>5 DEF ApplyHid
  <2>2. hid' \in Settings /\ hid'.user \in {p.before.user, hid.user}
    BY <1>0, <2>1, WrittenSettings
  <2>3. HidTypeOK' /\ HidPlaces' /\ OneRecord' /\ GuardKnowsRecord' /\ ApplyingIsRecorded'
    BY <1>5, <2>2 DEF ApplyHid
  <2>4. NothingApplied' /\ EntriesAreKnown' /\ RestorerFollows'
    BY <1>5 DEF ApplyHid
  <2>5. WriterKnowsChoice'
    BY <1>5, <2>2 DEF ApplyHid
  <2> QED
    BY <2>3, <2>4, <2>5
<1>6. CASE VerifyHid
  <2>1. entries' \in BOOLEAN /\ (entries' = TRUE \/ entries' = entries)
        /\ (hidStep' = "blacklist" => entries')
    BY <1>6 DEF VerifyHid
  <2>2. \/ hidStep' = "blacklist" /\ UNCHANGED hidPhase
        \/ hidStep' = "clear" /\ hidPhase' = "RollingBack"
    BY <1>6 DEF VerifyHid
  <2>3. UNCHANGED <<hidWorldVars, plan, guardVars, recoveryVars, hidGhostVars>>
    BY <1>6 DEF VerifyHid
  <2>4. HidApplying /\ HidApplying'
    BY <1>6, <2>2 DEF VerifyHid
  <2>9. HidTypeOK'
    BY <2>1, <2>2, <2>3
  <2>10. HidPlaces' /\ OneRecord'
    BY <1>6, <2>1, <2>2, <2>3 DEF VerifyHid
  <2>11. GuardKnowsRecord' /\ ApplyingIsRecorded'
    BY <1>6, <2>2, <2>3, <2>4 DEF VerifyHid
  <2>6. NothingApplied'
    BY <2>4
  <2>7. EntriesAreKnown'
    BY <2>1, <2>3
  <2>8. RestorerFollows' /\ WriterKnowsChoice'
    BY <1>6, <2>2, <2>3 DEF VerifyHid
  <2> QED
    BY <2>9, <2>10, <2>11, <2>6, <2>7, <2>8
<1>7. CASE AddToBlacklist
  BY <1>7 DEF AddToBlacklist
<1>8. CASE RollbackHid
  BY <1>8 DEF RollbackHid
<1>9. CASE ClearBlacklist
  <2>1. CASE hidden' = FALSE /\ entries' = FALSE
    BY <1>9, <2>1 DEF ClearBlacklist
  <2>2. CASE UNCHANGED <<hidden, entries>>
    BY <1>9, <2>2 DEF ClearBlacklist
  <2> QED
    BY <1>9, <2>1, <2>2 DEF ClearBlacklist
<1>10. CASE Inspect
  <2>1. PICK p \in plan :
          \/ hid = p.before /\ ~entries /\ HidClean
          \/ hid = p.applied /\ hid # p.before /\ HidGoes("restore") /\ UNCHANGED plan
          \/ HidEnds("RecoveryRequired") /\ UNCHANGED plan
    BY <1>10 DEF Inspect
  <2>2. plan = {p} /\ record = {p} /\ owed = {p} /\ HidApplying
    BY <1>10, <2>1 DEF Inspect
  <2>3. CASE hid = p.before /\ ~entries /\ HidClean
    BY <1>10, <2>2, <2>3 DEF Inspect
  <2>4. CASE hid = p.applied /\ HidGoes("restore") /\ UNCHANGED plan
    BY <1>0, <1>10, <2>2, <2>4 DEF Inspect
  <2>5. CASE HidEnds("RecoveryRequired") /\ UNCHANGED plan
    BY <1>10, <2>2, <2>5 DEF Inspect
  <2> QED
    BY <2>1, <2>3, <2>4, <2>5
<1>11. CASE RestoreBefore
  <2>1. PICK p \in plan : Written(p.before)
    BY <1>11 DEF RestoreBefore
  <2>2. hid' \in Settings /\ hid'.user \in {p.before.user, hid.user}
    BY <1>0, <2>1, WrittenSettings
  <2>3. HidTypeOK' /\ HidPlaces' /\ OneRecord' /\ GuardKnowsRecord' /\ ApplyingIsRecorded'
    BY <1>11, <2>2 DEF RestoreBefore
  <2>4. NothingApplied' /\ EntriesAreKnown' /\ RestorerFollows'
    BY <1>11 DEF RestoreBefore
  <2>5. WriterKnowsChoice'
    BY <1>11, <2>2 DEF RestoreBefore
  <2> QED
    BY <2>3, <2>4, <2>5
<1>12. CASE VerifyBefore
  BY <1>12 DEF VerifyBefore
<1>13. CASE Cleanup
  <2>1. record' \in {record, {}} /\ UNCHANGED <<hidPhase, plan, owed, hid>>
        /\ hidStep' = "idle" /\ hidPhase = "Idle" /\ ~HidApplying /\ ~HidApplying'
    BY <1>13 DEF Cleanup
  <2>2. CASE action' = 0 /\ armed' = FALSE
    <3>1. HidTypeOK'
      BY <1>13, <2>1, <2>2, GuardForgets DEF Cleanup
    <3>2. HidPlaces' /\ OneRecord' /\ GuardKnowsRecord'
      BY <1>13, <2>1, <2>2 DEF Cleanup
    <3>3. ApplyingIsRecorded' /\ NothingApplied' /\ EntriesAreKnown'
      BY <1>13, <2>1, <2>2 DEF Cleanup
    <3>4. RestorerFollows' /\ WriterKnowsChoice'
      BY <1>13, <2>1, <2>2 DEF Cleanup
    <3> QED
      BY <3>1, <3>2, <3>3, <3>4
  <2>3. CASE UNCHANGED <<guardVars, record>>
    BY <1>13, <2>1, <2>3 DEF Cleanup
  <2> QED
    BY <1>13, <2>2, <2>3 DEF Cleanup
<1>14. CASE OwnerDies
  BY <1>14 DEF OwnerDies
<1>15. CASE LoadAndCompare
  <2> DEFINE mine == {r \in record : r.generation = watch}
  <2>1. \/ restorer' = "AlreadySatisfied" /\ \E r \in mine : hid = r.before
        \/ /\ restorer' = "restore" /\ \E r \in mine : hid = r.applied
           /\ ~\E r \in mine : hid = r.before
        \/ restorer' = "failed"
    BY <1>15 DEF LoadAndCompare
  <2>2. ~owner /\ UNCHANGED <<hidWorldVars, hidHostVars, record, watch, hidGhostVars>>
    BY <1>15 DEF LoadAndCompare
  <2>3. CASE restorer' = "AlreadySatisfied" /\ \E r \in mine : hid = r.before
    BY <2>2, <2>3
  <2>4. CASE /\ restorer' = "restore" /\ \E r \in mine : hid = r.applied
             /\ ~\E r \in mine : hid = r.before
    <3>1. PICK r \in record : hid = r.applied /\ hid # r.before
      BY <2>4
    <3>2. hid.hydra # r.before.hydra
      <4>1. hid = [hydra |-> hid.hydra, user |-> hid.user]
            /\ r.before = [hydra |-> r.before.hydra, user |-> r.before.user]
        BY <1>0 DEF Settings
      <4> QED
        BY <1>0, <3>1, <4>1
    <3>3. HidApplying
      BY <3>2
    <3>4. ~raced => \A q \in record : q.before.user = wanted
      BY <1>0, <3>1
    <3> QED
      BY <2>2, <2>4, <3>3, <3>4
  <2>5. CASE restorer' = "failed"
    BY <2>2, <2>5
  <2> QED
    BY <2>1, <2>3, <2>4, <2>5
<1>16. CASE RestoreSnapshot
  <2>1. UNCHANGED <<hidden, owner, hidHostVars, record, watch, hidGhostVars>>
    BY <1>16 DEF RestoreSnapshot
  <2>2. HidApplying /\ HidApplying' /\ owed = record /\ ~owner /\ plan = record
    BY <1>16, <2>1 DEF RestoreSnapshot
  <2>3. ASSUME NEW r \in record, Written(r.before), restorer = "restore",
               restorer' \in {"verify", "failed"}
        PROVE  HidInv'
    <3>1. hid' \in Settings /\ hid'.user \in {r.before.user, hid.user}
      BY <1>0, <2>3, WrittenSettings
    <3> QED
      BY <2>1, <2>2, <2>3, <3>1
  <2>4. ASSUME UNCHANGED hid, NEW r \in record, hid = r.before, restorer' = "Success"
        PROVE  HidInv'
    BY <2>1, <2>2, <2>4
  <2>5. ASSUME UNCHANGED hid, restorer' = "failed"
        PROVE  HidInv'
    BY <2>1, <2>2, <2>5
  <2> QED
    BY <1>16, <2>3, <2>4, <2>5 DEF RestoreSnapshot
<1>17. CASE UserEdits
  <2>1. PICK choice \in UserChoice :
          hid' = [hid EXCEPT !.user = choice] /\ wanted' = choice
    BY <1>17 DEF UserEdits
  <2>2. hid' \in Settings /\ hid'.hydra = hid.hydra /\ hid'.user = choice
    BY <1>0, <2>1 DEF Settings
  <2>3. raced' \in BOOLEAN /\ UNCHANGED <<hidden, owner, hidHostVars, recoveryVars, owed>>
        /\ (~raced' => ~raced /\ hidStep # "restore" /\ restorer # "restore"
                       /\ hidPhase # "Prepared")
    BY <1>17 DEF UserEdits
  <2>4. HidTypeOK' /\ HidPlaces' /\ OneRecord' /\ GuardKnowsRecord' /\ ApplyingIsRecorded'
    BY <2>1, <2>2, <2>3
  <2>5. NothingApplied' /\ EntriesAreKnown' /\ RestorerFollows'
    BY <2>2, <2>3
  <2>6. WriterKnowsChoice'
    BY <2>1, <2>2, <2>3
  <2> QED
    BY <2>4, <2>5, <2>6
<1>18. ASSUME NEW g \in 1..MaxSession, PrepareHid(g)
  PROVE HidInv'
  <2>1. armed' = FALSE /\ action' = 0 /\ owner /\ hidStep = "idle"
        /\ UNCHANGED <<hidWorldVars, entries, recoveryVars, hidGhostVars>>
    BY <1>18 DEF PrepareHid
  <2>2. CASE /\ hidPhase \in {"Idle", "Prepared"}
             /\ plan' = {[generation |-> g, before |-> hid, applied |-> Applied(hid)]}
             /\ hidPhase' = "Prepared" /\ hidStep' = "persist"
    <3> DEFINE p == [generation |-> g, before |-> hid, applied |-> Applied(hid)]
    <3>1. p \in HidPlan /\ p.before = hid /\ p.applied = Applied(p.before)
      BY <1>0, AppliedSettings DEF HidPlan
    <3>2. plan' = {p}
      BY <2>2
    <3> HIDE DEF p
    <3>3. ~HidApplying /\ ~HidApplying'
      BY <2>1, <2>2
    <3>4. HidTypeOK'
      BY <2>1, <2>2, <3>1, <3>2, GuardForgets
    <3>5. HidPlaces' /\ OneRecord' /\ GuardKnowsRecord'
      BY <2>1, <2>2, <3>1, <3>2
    <3>6. ApplyingIsRecorded' /\ NothingApplied' /\ EntriesAreKnown'
      BY <2>1, <2>2, <3>1, <3>2, <3>3
    <3>7. RestorerFollows' /\ WriterKnowsChoice'
      BY <2>1, <2>2, <3>1, <3>2, <3>3
    <3> QED
      BY <3>4, <3>5, <3>6, <3>7
  <2>3. CASE UNCHANGED <<plan, hidPhase, hidStep>>
    <3>1. HidTypeOK'
      BY <2>1, <2>3, GuardForgets
    <3>2. HidPlaces' /\ OneRecord' /\ GuardKnowsRecord'
      BY <2>1, <2>3
    <3>3. ApplyingIsRecorded' /\ NothingApplied' /\ EntriesAreKnown'
      BY <2>1, <2>3
    <3>4. RestorerFollows' /\ WriterKnowsChoice'
      BY <2>1, <2>3
    <3> QED
      BY <3>1, <3>2, <3>3, <3>4
  <2> QED
    BY <1>18, <2>2, <2>3 DEF PrepareHid
<1>19. CASE UNCHANGED hidVars
  BY <1>19 DEF hidVars
<1> QED
  BY <1>1, <1>2, <1>3, <1>4, <1>5, <1>6, <1>7, <1>8, <1>9, <1>10, <1>11, <1>12, <1>13,
     <1>14, <1>15, <1>16, <1>17, <1>18, <1>19
     DEF HidNext

LEMMA HidIsSafe == HidInv => HidTypeOK /\ SettingsAreSafe
<1> SUFFICES ASSUME HidInv PROVE HidTypeOK /\ SettingsAreSafe
  OBVIOUS
<1> USE DEF HidInv
<1>1. MutationIsRecoverable
  BY DEF ApplyingIsRecorded, NothingApplied, OneRecord, MutationIsRecoverable
<1>2. UserChangeKept
  BY DEF WriterKnowsChoice, UserChangeKept
<1>3. IdleIsUndone
  <2> SUFFICES ASSUME hidPhase = "Idle" PROVE ~HidApplying
    BY DEF NothingApplied, EntriesAreKnown, IdleIsUndone
  <2> QED
    BY DEF HidPlaces, HidApplying
<1>4. RestorerIsRight
  BY DEF RestorerFollows
<1> QED
  BY <1>1, <1>2, <1>3, <1>4 DEF SettingsAreSafe

(* Whichever call fails, writes half of the settings or is never reached   *)
(* because the host died: a change of the machine's settings has a durable *)
(* record that the watchdog's action resolves to, a session that ends as   *)
(* idle or a restorer that reports success has undone it, and an edit of   *)
(* the user is not taken back but in the moment of a write.                *)
THEOREM HidSafe == HidSpec => [](HidTypeOK /\ SettingsAreSafe)
BY HidStart, HidStepKeeps, HidIsSafe, PTL DEF HidSpec

-----------------------------------------------------------------------------
(* The game process and its input session.                                 *)

GateFrame == [sequence : 1..(MaxFrame + 1), kind : {"ack", "input", "control", "shutdown"}]

(* The pipe is a queue of frames, and the host has not used up its         *)
(* sequence numbers before it is active.                                   *)
GateShape ==
  /\ GateTypeOK
  /\ toBridge \in Seq(GateFrame)
  /\ hostSession \in {"attaching", "acknowledged"} => hostSequence = 1
  /\ hostSession = "active" => hostSequence \in 1..MaxFrame

(* The game is suspended until the host is active, which it is not before  *)
(* the worker has said hello; and the worker ends with the game.           *)
GameWaits ==
  /\ bridgeWorker \in {"start", "shim", "connect", "hello"} => toHost = "nothing"
  /\ toHost = "nothing" => game # "running" /\ hostSession \notin {"acknowledged", "active"}
  /\ hostSession \in {"attaching", "acknowledged"} => game # "running"
  /\ game = "dead" => bridgeWorker = "ended"

(* Calls are let in by an active shim only, and none is inside from the    *)
(* drain to the end of the worker.                                         *)
CallsAreServed ==
  /\ \A t \in GameThread : gameCalls[t] = "virtual" => game = "running" /\ adapter = "alive"
  /\ lifecycle = "Active" =>
       /\ adapter = "alive" /\ patched \cap ShimApi # {}
       /\ \/ bridgeWorker \in {"connect", "hello", "ack", "loop", "leaving"}
          \/ bridgeWorker = "ended" /\ game = "dead"
  /\ bridgeWorker = "shim" => adapter = "alive"
  /\ bridgeWorker \in {"restoring", "finishing", "returning"} => CallsAreOut

ImportedXInput == {api \in XInputApi : importCount[api] > 0}

(* What the session isolates stays patched until the worker restores it.   *)
ImportsAreHeld ==
  /\ (wantsXInput /\ bridgeWorker \in {"shim", "connect", "hello", "ack", "loop", "leaving",
                                      "draining", "restoring"})
       => ImportedXInput \subseteq patched
  /\ (DetectedMask # {} /\ bridgeWorker \in {"connect", "hello", "ack", "loop", "leaving",
                                              "draining", "restoring"})
       => DetectedMask \subseteq patched /\ lifecycle \in {"Active", "FailClosed"}

(* A worker that left its loop for a broken channel is on the way that     *)
(* ends the game.                                                          *)
BrokenIsEnding ==
  left = "broken" =>
    bridgeWorker \in {"leaving", "draining", "restoring", "finishing"} \/ game = "dead"

GateInv ==
  GateShape /\ GameWaits /\ CallsAreServed /\ ImportsAreHeld /\ BrokenIsEnding

LEMMA GateStart == GateInit => GateInv
<1> SUFFICES ASSUME GateInit PROVE GateInv
  OBVIOUS
<1>1. GateTypeOK
  BY GateCAssumption DEF GateInit, GateTypeOK, WorkerStage
<1>2. toBridge \in Seq(GateFrame)
  BY DEF GateInit
<1>3. GateShape
  BY <1>1, <1>2, GateCAssumption DEF GateShape, GateInit
<1>4. GameWaits /\ CallsAreServed /\ ImportsAreHeld /\ BrokenIsEnding
  BY DEF GateInit, GameWaits, CallsAreServed, CallsAreOut, ImportsAreHeld, BrokenIsEnding
<1> QED
  BY <1>3, <1>4 DEF GateInv

(* What is imported is fixed with the game's process.                      *)
LEMMA ImportsAreFixed ==
  ASSUME GateNext
  PROVE  UNCHANGED fixedVars /\ DetectedMask' = DetectedMask
         /\ ImportedXInput' = ImportedXInput
<1>1. UNCHANGED fixedVars
  <2>1. CASE WorkerNext
    BY <2>1 DEF WorkerNext, fixedVars, gateVars, InstallXInput, InstallShim, Connect, SayHello,
       TakeAck, GiveUp, Withdraw, LeaveBridge, TakeFrame, TimeOutWithFrame, NoticeDisconnect,
       MarkUnavailable, Drain, RestoreImports, Finish
  <2>2. CASE GameDies \/ Handshake \/ InitialControl \/ AttachFails \/ Resume \/ SendFails
    BY <2>2 DEF GameDies, Handshake, InitialControl, AttachFails, Resume, SendFails, fixedVars
  <2>3. CASE \/ \E kind \in {"input", "control"} : HostSends(kind)
             \/ \E written \in BOOLEAN : ShutdownSession(written)
    BY <2>3 DEF HostSends, ShutdownSession, fixedVars
  <2>4. CASE \E t \in GameThread :
               \/ \E api \in Api : CallFunction(t, api)
               \/ \E failed \in BOOLEAN : ReturnFromCall(t, failed)
    BY <2>4 DEF CallFunction, ReturnFromCall, fixedVars
  <2> QED
    BY <2>1, <2>2, <2>3, <2>4 DEF GateNext
<1> QED
  BY <1>1 DEF fixedVars, DetectedMask, Discovered, ImportedXInput

(* An installed shim has patched the whole mask; one that failed only      *)
(* functions of the shim.                                                  *)
LEMMA ShimOutcomesAreShims ==
  ASSUME NEW outcome \in ShimOutcomes
  PROVE  /\ outcome.done \in BOOLEAN /\ outcome.clean \in BOOLEAN
         /\ outcome.rest \subseteq ShimApi
         /\ outcome.done => outcome.rest = DetectedMask
<1>1. DetectedMask \subseteq ShimApi
  BY DEF DetectedMask
<1>2. ASSUME NEW functions \in SUBSET ShimApi, NEW o \in PatchOutcomes(functions)
      PROVE  o.done \in BOOLEAN /\ o.clean \in BOOLEAN /\ o.rest \subseteq ShimApi
  BY <1>2 DEF PatchOutcomes
<1>3. ASSUME NEW p \in PollingOutcomes
      PROVE  p.done \in BOOLEAN /\ p.clean \in BOOLEAN /\ p.rest \subseteq ShimApi
  BY <1>1, <1>2, <1>3 DEF PollingOutcomes
<1>4. ASSUME NEW p \in CursorOutcomes
      PROVE  p.done \in BOOLEAN /\ p.clean \in BOOLEAN /\ p.rest \subseteq ShimApi
  BY <1>1, <1>2, <1>4 DEF CursorOutcomes
<1>5. ASSUME NEW p \in RawOutcomes
      PROVE  p.done \in BOOLEAN /\ p.clean \in BOOLEAN /\ p.rest \subseteq ShimApi
  BY <1>1, <1>2, <1>5 DEF RawOutcomes
<1>6. CASE outcome \in {[done |-> FALSE, rest |-> p.rest, clean |-> p.clean] :
                          p \in {q \in PollingOutcomes : ~q.done}}
  <2>1. PICK p \in PollingOutcomes :
          outcome = [done |-> FALSE, rest |-> p.rest, clean |-> p.clean]
    BY <1>6
  <2> QED
    BY <1>3, <2>1
<1>7. CASE outcome \in {[done |-> FALSE, rest |-> c.rest \cup pollingRest,
                         clean |-> c.clean /\ pollingRest = {}] :
                          c \in {q \in CursorOutcomes : ~q.done},
                          pollingRest \in SUBSET (DetectedMask \cap PollingApi)}
  <2>1. PICK c \in CursorOutcomes, pollingRest \in SUBSET (DetectedMask \cap PollingApi) :
          outcome = [done |-> FALSE, rest |-> c.rest \cup pollingRest,
                     clean |-> c.clean /\ pollingRest = {}]
    BY <1>7
  <2>2. (c.clean /\ pollingRest = {}) \in BOOLEAN
    OBVIOUS
  <2> QED
    BY <1>1, <1>4, <2>1, <2>2
<1>8. CASE outcome \in {[done |-> FALSE, rest |-> r.rest \cup earlierRest,
                         clean |-> r.clean /\ earlierRest = {}] :
                          r \in {q \in RawOutcomes : ~q.done},
                          earlierRest \in SUBSET (DetectedMask \ RawApi)}
  <2>1. PICK r \in RawOutcomes, earlierRest \in SUBSET (DetectedMask \ RawApi) :
          outcome = [done |-> FALSE, rest |-> r.rest \cup earlierRest,
                     clean |-> r.clean /\ earlierRest = {}]
    BY <1>8
  <2>2. (r.clean /\ earlierRest = {}) \in BOOLEAN
    OBVIOUS
  <2> QED
    <3>1. /\ outcome.done = FALSE /\ outcome.rest = r.rest \cup earlierRest
          /\ outcome.clean = (r.clean /\ earlierRest = {})
      BY <2>1
    <3>2. r.rest \subseteq ShimApi /\ earlierRest \subseteq ShimApi
      BY <1>1, <1>5
    <3> QED
      BY <2>2, <3>1, <3>2
<1>9. CASE outcome \in {[done |-> TRUE, rest |-> DetectedMask, clean |-> TRUE]}
  <2>1. outcome.done = TRUE /\ outcome.clean = TRUE /\ outcome.rest = DetectedMask
    BY <1>9
  <2> QED
    BY <1>1, <2>1
<1> QED
  BY <1>6, <1>7, <1>8, <1>9 DEF ShimOutcomes

(* A frame that is written is appended to the queue of frames.             *)
LEMMA FramesAreQueued ==
  ASSUME toBridge \in Seq(GateFrame), hostSequence' \in 1..(MaxFrame + 1),
         NEW kind \in {"ack", "input", "control", "shutdown"},
         toBridge' = FrameWritten(kind)
  PROVE  /\ toBridge' \in Seq(GateFrame)
         /\ \A i \in DOMAIN toBridge' :
              toBridge'[i] \in [sequence : 1..(MaxFrame + 1),
                                kind : {"ack", "input", "control", "shutdown"}]
<1> DEFINE frame == [sequence |-> hostSequence', kind |-> kind]
<1>1. frame \in GateFrame
  BY DEF GateFrame
<1>2. toBridge' = Append(toBridge, frame)
  BY DEF FrameWritten
<1> HIDE DEF frame
<1>3. toBridge' \in Seq(GateFrame)
  BY <1>1, <1>2
<1>4. \A i \in DOMAIN toBridge' : toBridge'[i] \in GateFrame
  BY <1>3
<1> QED
  BY <1>3, <1>4 DEF GateFrame

(* The invariant of the session is kept by each step.                      *)
LEMMA GateStep == GateInv /\ [GateNext]_gateVars => GateInv'
<1> USE GateCAssumption
        DEF GateInv, GateShape, GateTypeOK, GameWaits, CallsAreServed, CallsAreOut,
        ImportsAreHeld, BrokenIsEnding, WorkerStage, pipeStateVars, hostVars, shimVars, fixedVars
<1> SUFFICES ASSUME GateInv, [GateNext]_gateVars PROVE GateInv'
  OBVIOUS
<1>0. CASE UNCHANGED gateVars
  <2>1. DetectedMask' = DetectedMask /\ ImportedXInput' = ImportedXInput
    BY <1>0 DEF gateVars, DetectedMask, Discovered, ImportedXInput
  <2> QED
    BY <1>0, <2>1 DEF gateVars
<1> SUFFICES ASSUME GateNext PROVE GateInv'
  BY <1>0
<1> DetectedMask' = DetectedMask /\ ImportedXInput' = ImportedXInput
  BY ImportsAreFixed
<1>1. CASE InstallXInput
  <2>1. game # "running" /\ lifecycle # "Active" /\ CallsAreOut
    BY <1>1 DEF InstallXInput
  <2>2. patched' = patched \/ patched' \subseteq XInputApi
    BY <1>1 DEF InstallXInput
  <2>3. patched' \subseteq Api
    BY <2>2 DEF Api
  <2>4. bridgeWorker' = "shim" /\ wantsXInput => ImportedXInput \subseteq patched'
    BY <1>1 DEF InstallXInput, ImportedXInput
  <2>5. bridgeWorker' \in {"shim", "ended"}
    BY <1>1 DEF InstallXInput
  <2> HIDE DEF CallsAreOut
  <2>6. CallsAreOut'
    BY <1>1, <2>1 DEF InstallXInput, CallsAreOut
  <2> QED
    BY <1>1, <2>1, <2>3, <2>4, <2>5, <2>6 DEF InstallXInput
<1>2. CASE InstallShim
  <2>1. /\ game # "running" /\ lifecycle # "Active" /\ toHost = "nothing"
        /\ \A t \in GameThread : gameCalls[t] # "virtual"
        /\ bridgeWorker = "shim" /\ game # "dead" /\ left # "broken"
    BY <1>2 DEF InstallShim
  <2>2. UNCHANGED <<fixedVars, gameCalls, left, lastSequence, pipeStateVars, hostVars, game>>
    BY <1>2 DEF InstallShim
  <2>3. CASE DetectedMask = {} /\ wantsXInput /\ bridgeWorker' = "connect"
             /\ UNCHANGED <<shimVars, adapter>>
    BY <2>1, <2>2, <2>3
  <2>4. CASE bridgeWorker' = "ended" /\ adapter' = "destroyed" /\ patched' = {}
             /\ UNCHANGED lifecycle
    BY <2>1, <2>2, <2>4
  <2>5. ASSUME NEW outcome \in ShimOutcomes, outcome.done, ShimAccepts(DetectedMask),
               bridgeWorker' = "connect", patched' = patched \cup outcome.rest,
               lifecycle' = "Active", UNCHANGED adapter
        PROVE  GateInv'
    <3>1. outcome.rest = DetectedMask /\ DetectedMask \subseteq ShimApi
      BY <2>5, ShimOutcomesAreShims DEF DetectedMask
    <3>2. patched' \subseteq Api /\ patched' \cap ShimApi # {} /\ DetectedMask \subseteq patched'
      BY <2>5, <3>1 DEF Api, ShimApi, ShimAccepts
    <3>3. adapter = "alive"
      BY <2>1
    <3> QED
      BY <2>1, <2>2, <2>5, <3>2, <3>3
  <2>6. ASSUME NEW outcome \in ShimOutcomes, bridgeWorker' = "ended", adapter' = "destroyed",
               patched' = outcome.rest, lifecycle' \in {"Inactive", "FailClosed"}
        PROVE  GateInv'
    <3>1. patched' \subseteq Api
      BY <2>6, ShimOutcomesAreShims DEF Api
    <3> QED
      BY <2>1, <2>2, <2>6, <3>1
  <2> QED
    BY <1>2, <2>3, <2>4, <2>5, <2>6 DEF InstallShim
<1>3. CASE Connect
  BY <1>3 DEF Connect
<1>4. CASE SayHello
  BY <1>4 DEF SayHello
<1>5. CASE TakeAck
  BY <1>5 DEF TakeAck
<1>6. CASE GiveUp
  BY <1>6 DEF GiveUp
<1>7. CASE Withdraw
  BY <1>7 DEF Withdraw
<1>8. CASE LeaveBridge
  BY <1>8 DEF LeaveBridge
<1>9. CASE TakeFrame
  BY <1>9 DEF TakeFrame
<1>10. CASE TimeOutWithFrame
  BY <1>10 DEF TimeOutWithFrame
<1>11. CASE NoticeDisconnect
  BY <1>11 DEF NoticeDisconnect
<1>12. CASE MarkUnavailable
  BY <1>12 DEF MarkUnavailable
<1>13. CASE Drain
  BY <1>13 DEF Drain
<1>14. CASE RestoreImports
  BY <1>14 DEF RestoreImports, RawRemains, CursorRemains, PollingRemains
<1>15. CASE Finish
  BY <1>15 DEF Finish
<1>16. CASE GameDies
  BY <1>16 DEF GameDies
<1>17. CASE Handshake
  <2>1. toBridge' = FrameWritten("ack") /\ hostSequence' \in 1..(MaxFrame + 1)
    BY <1>17 DEF Handshake
  <2>2. /\ toBridge' \in Seq(GateFrame)
        /\ \A i \in DOMAIN toBridge' :
             toBridge'[i] \in [sequence : 1..(MaxFrame + 1),
                               kind : {"ack", "input", "control", "shutdown"}]
    BY <2>1, FramesAreQueued
  <2> QED
    BY <1>17, <2>1, <2>2 DEF Handshake
<1>18. CASE InitialControl
  <2>1. toBridge' = FrameWritten("control") /\ hostSequence' \in 1..(MaxFrame + 1)
    BY <1>18 DEF InitialControl
  <2>2. /\ toBridge' \in Seq(GateFrame)
        /\ \A i \in DOMAIN toBridge' :
             toBridge'[i] \in [sequence : 1..(MaxFrame + 1),
                               kind : {"ack", "input", "control", "shutdown"}]
    BY <2>1, FramesAreQueued
  <2> QED
    BY <1>18, <2>1, <2>2 DEF InitialControl
<1>19. CASE AttachFails
  BY <1>19 DEF AttachFails
<1>20. CASE Resume
  BY <1>20 DEF Resume
<1>21. CASE SendFails
  BY <1>21 DEF SendFails
<1>22. ASSUME NEW kind \in {"input", "control"}, HostSends(kind)
  PROVE GateInv'
  <2>1. toBridge' = FrameWritten(kind) /\ hostSequence' \in 1..MaxFrame
    BY <1>22 DEF HostSends
  <2>2. /\ toBridge' \in Seq(GateFrame)
        /\ \A i \in DOMAIN toBridge' :
             toBridge'[i] \in [sequence : 1..(MaxFrame + 1),
                               kind : {"ack", "input", "control", "shutdown"}]
    BY <2>1, FramesAreQueued
  <2> QED
    BY <1>22, <2>1, <2>2 DEF HostSends
<1>23. ASSUME NEW written \in BOOLEAN, ShutdownSession(written)
  PROVE GateInv'
  <2>1. hostSequence' \in 1..(MaxFrame + 1)
    BY <1>23 DEF ShutdownSession
  <2>2. /\ toBridge' \in Seq(GateFrame)
        /\ \A i \in DOMAIN toBridge' :
             toBridge'[i] \in [sequence : 1..(MaxFrame + 1),
                               kind : {"ack", "input", "control", "shutdown"}]
    <3>1. CASE toBridge' = FrameWritten("shutdown")
      BY <2>1, <3>1, FramesAreQueued
    <3>2. CASE toBridge' = toBridge
      BY <3>2
    <3> QED
      BY <1>23, <3>1, <3>2 DEF ShutdownSession
  <2> QED
    BY <1>23, <2>1, <2>2 DEF ShutdownSession
<1>24. ASSUME NEW t \in GameThread, NEW api \in Api, CallFunction(t, api)
  PROVE GateInv'
  BY <1>24 DEF CallFunction
<1>25. ASSUME NEW t \in GameThread, NEW failed \in BOOLEAN, ReturnFromCall(t, failed)
  PROVE GateInv'
  BY <1>25 DEF ReturnFromCall
<1> QED
  BY <1>1, <1>2, <1>3, <1>4, <1>5, <1>6, <1>7, <1>8, <1>9, <1>10, <1>11, <1>12, <1>13,
     <1>14, <1>15, <1>16, <1>17, <1>18, <1>19,
     <1>20, <1>21, <1>22, <1>23, <1>24, <1>25
     DEF GateNext, WorkerNext

LEMMA GateIsSafe == GateInv => GateTypeOK /\ GateIsolates
<1> SUFFICES ASSUME GateInv PROVE GateTypeOK /\ GateIsolates
  OBVIOUS
<1>1. GateTypeOK
  BY DEF GateInv, GateShape
<1>2. AdapterOutlivesCalls
  BY <1>1 DEF GateInv, CallsAreServed, AdapterOutlivesCalls, CallsAreOut, GateTypeOK
<1>3. NoneGoesOnUnbridged
  BY DEF GateInv, BrokenIsEnding, NoneGoesOnUnbridged
<1>4. BridgeIsolates
  <2> SUFFICES ASSUME NEW api \in Api, game = "running", MachineAnswers(api), Isolated(api)
               PROVE  bridgeWorker \in {"withdrawing", "finishing", "returning", "ended"}
    BY DEF BridgeIsolates
  <2>1. bridgeWorker \in WorkerStage \ {"start", "shim", "connect", "hello"}
    BY <1>1 DEF GateInv, GameWaits, GateTypeOK
  <2>2. SUFFICES ASSUME bridgeWorker \in {"ack", "loop", "leaving", "draining", "restoring"}
                 PROVE  FALSE
    BY <2>1 DEF WorkerStage
  <2>3. CASE api \in ShimApi
    <3>1. api \in DetectedMask
      BY <2>3 DEF Isolated, DetectedMask
    <3>2. api \in patched /\ lifecycle \in {"Active", "FailClosed"}
      BY <2>2, <3>1 DEF GateInv, ImportsAreHeld
    <3> QED
      BY <3>2 DEF MachineAnswers
  <2>4. CASE api \notin ShimApi
    <3>1. wantsXInput /\ api \in ImportedXInput
      BY <2>4 DEF Isolated, MachineAnswers, ImportedXInput, Api
    <3>2. api \in patched
      BY <2>2, <3>1 DEF GateInv, ImportsAreHeld
    <3> QED
      BY <2>4, <3>2 DEF MachineAnswers, ShimApi
  <2> QED
    BY <2>3, <2>4
<1> QED
  BY <1>1, <1>2, <1>3, <1>4 DEF GateIsolates

(* No call is inside an adapter that is destroyed; as long as its worker   *)
(* has not left, the game hears nothing of the machine's devices through a *)
(* function the session isolates; and a game whose channel broke is ended  *)
(* with its worker: for every import table and every order of the calls,   *)
(* failures and messages.                                                  *)
THEOREM GateSafe == GateSpec => [](GateTypeOK /\ GateIsolates)
BY GateStart, GateStep, GateIsSafe, PTL DEF GateSpec

-----------------------------------------------------------------------------
(* The audio requests of the host.                                         *)

(* A Seat that holds a lease is in a numbered epoch.                       *)
EpochsNumbered == \A s \in Seat : Active(s) => generation[s] \in 1..MaxGeneration

AudioShape ==
  /\ audio \in [Caller -> AudioCall \cup {NONE}]
  /\ route \in [Process -> [AudioRole -> Endpoint \cup {NONE}]]
  /\ alive \subseteq Process
  /\ told \in [Process -> Endpoint \cup {NONE}]
  /\ unsure \subseteq Process

(* The audio mutex lets one caller into the lane.                          *)
OneInLane == \A c, d \in Caller : InLane(c) /\ InLane(d) => c = d

(* What the caller in the lane knows of the route of its process: still    *)
(* what was answered last, half at its target, or at its target.           *)
LaneKnowsRoute ==
  \A c \in Caller : audio[c] # NONE =>
    LET p == audio[c].process
        goal == audio[c].target
    IN /\ audio[c].step = "validate" /\ ~audio[c].undoing =>
            p \in unsure \/ \A role \in AudioRole : route[p][role] = told[p]
       /\ audio[c].step = "second" => route[p]["multimedia"] = goal
       /\ audio[c].step = "recheck" => \A role \in AudioRole : route[p][role] = goal

LaneInv == AudioShape /\ OneInLane /\ LaneKnowsRoute /\ AnswersAreTrue

AudioInv == AuthorityInv /\ EpochsNumbered /\ LaneInv

LEMMA AudioStart == AudioInit => AudioInv
<1> SUFFICES ASSUME AudioInit PROVE AudioInv
  OBVIOUS
<1>1. AuthorityInv
  BY InitEstablishes DEF AudioInit
<1>2. EpochsNumbered
  BY DEF AudioInit, AuthorityInit, EpochsNumbered, Active
<1>3. LaneInv
  BY DEF AudioInit, LaneInv, AudioShape, OneInLane, LaneKnowsRoute, AnswersAreTrue, InLane,
     NoRoute, AudioRole
<1> QED
  BY <1>1, <1>2, <1>3 DEF AudioInv

(* The first lease of an epoch numbers it; no other call opens one.        *)
LEMMA EpochsStayNumbered ==
  AuthorityInv /\ EpochsNumbered /\ [AuthorityNext]_authorityVars => EpochsNumbered'
<1> SUFFICES ASSUME AuthorityInv, EpochsNumbered, [AuthorityNext]_authorityVars
             PROVE  EpochsNumbered'
  OBVIOUS
<1> USE DEF AuthorityInv, EpochsNumbered, Active
<1>1. ASSUME NEW s \in Seat, NEW class \in LeaseClass, AcquireLease(s, class)
      PROVE  EpochsNumbered'
  <2>1. CASE UNCHANGED <<generation, process, window, binding>> /\ Active(s)
    BY <1>1, <2>1 DEF AcquireLease, AuthorityTypeOK
  <2>2. CASE generation[s] < MaxGeneration /\ generation' = [generation EXCEPT ![s] = @ + 1]
    BY <1>1, <2>2, AuthorityAssumption DEF AcquireLease, AuthorityTypeOK
  <2> QED
    BY <1>1, <2>1, <2>2 DEF AcquireLease
<1>2. ASSUME NEW t \in ActivationToken, ReleaseLease(t)
      PROVE  EpochsNumbered'
  BY <1>2 DEF ReleaseLease, AuthorityTypeOK
<1>3. CASE UNCHANGED <<generation, leases>>
  BY <1>3
<1> QED
  BY <1>1, <1>2, <1>3 DEF AuthorityNext, authorityVars, PublishProcess, BindTargetWindow,
     ClearTargetWindow, BindController, ClearController

(* A definite answer is true when both roles are at the endpoint.          *)
LEMMA PromiseIsTrue ==
  ASSUME LaneInv, NEW c \in Caller, InLane(c), NEW endpoint \in Endpoint \cup {NONE},
         \A role \in AudioRole : route[audio[c].process][role] = endpoint,
         Promise(c, endpoint), UNCHANGED <<route, alive>>
  PROVE  LaneInv'
<1> USE DEF LaneInv, AudioShape, InLane
<1>1. /\ audio' \in [Caller -> AudioCall \cup {NONE}] /\ audio'[c] = NONE
      /\ \A d \in Caller \ {c} : audio'[d] = audio[d]
      /\ audio[c].process \in Process
      /\ told' \in [Process -> Endpoint \cup {NONE}] /\ told'[audio[c].process] = endpoint
      /\ \A q \in Process \ {audio[c].process} : told'[q] = told[q]
      /\ unsure' = unsure \ {audio[c].process}
  BY DEF Promise, Answer, AudioCall
<1>2. \A d \in Caller \ {c} : ~InLane(d)
  BY DEF OneInLane
<1>3. \A d \in Caller : ~(audio'[d] # NONE /\ audio'[d].step # "lane")
  BY <1>1, <1>2
<1>4. OneInLane' /\ LaneKnowsRoute'
  BY <1>3 DEF OneInLane, LaneKnowsRoute
<1>5. AnswersAreTrue'
  BY <1>1, <1>2 DEF AnswersAreTrue
<1> QED
  BY <1>1, <1>4, <1>5

(* RoutingFailed promises nothing of the process it is about.              *)
LEMMA FailureIsUnsure ==
  ASSUME LaneInv, NEW c \in Caller, InLane(c), AnswerFailed(c), UNCHANGED alive,
         route' \in [Process -> [AudioRole -> Endpoint \cup {NONE}]],
         \A q \in Process \ {audio[c].process} : route'[q] = route[q]
  PROVE  LaneInv'
<1> USE DEF LaneInv, AudioShape, InLane
<1>1. /\ audio' \in [Caller -> AudioCall \cup {NONE}] /\ audio'[c] = NONE
      /\ \A d \in Caller \ {c} : audio'[d] = audio[d]
      /\ audio[c].process \in Process /\ told' = told
      /\ unsure' = unsure \cup {audio[c].process}
  BY DEF AnswerFailed, Answer, AudioCall
<1>2. \A d \in Caller \ {c} : ~InLane(d)
  BY DEF OneInLane
<1>3. \A d \in Caller : ~(audio'[d] # NONE /\ audio'[d].step # "lane")
  BY <1>1, <1>2
<1>4. OneInLane' /\ LaneKnowsRoute'
  BY <1>3 DEF OneInLane, LaneKnowsRoute
<1>5. AnswersAreTrue'
  BY <1>1, <1>2 DEF AnswersAreTrue
<1> QED
  BY <1>1, <1>4, <1>5

(* Who leaves without having written leaves the route as it was answered.  *)
LEMMA RefusalChangesNothing ==
  ASSUME LaneInv, NEW c \in Caller, audio[c] # NONE, Answer(c),
         UNCHANGED <<route, alive, told, unsure>>,
         InLane(c) => audio[c].step = "validate" /\ ~audio[c].undoing
  PROVE  LaneInv'
<1> USE DEF LaneInv, AudioShape, InLane
<1>1. /\ audio' \in [Caller -> AudioCall \cup {NONE}] /\ audio'[c] = NONE
      /\ \A d \in Caller \ {c} : audio'[d] = audio[d]
      /\ audio[c].process \in Process
  BY DEF Answer, AudioCall
<1>2. OneInLane' /\ LaneKnowsRoute'
  BY <1>1 DEF OneInLane, LaneKnowsRoute
<1>3. AnswersAreTrue'
  BY <1>1 DEF AnswersAreTrue, LaneKnowsRoute
<1> QED
  BY <1>1, <1>2, <1>3

(* A request that goes on is still one request in the lane.                *)
LEMMA LaneGoesOn ==
  ASSUME LaneInv, NEW c \in Caller, audio[c] # NONE, NEW inquiry \in AudioCall,
         audio' = [audio EXCEPT ![c] = inquiry],
         inquiry.process = audio[c].process, inquiry.step # "lane",
         \A d \in Caller \ {c} : ~InLane(d),
         route' \in [Process -> [AudioRole -> Endpoint \cup {NONE}]],
         \A q \in Process \ {inquiry.process} : route'[q] = route[q],
         UNCHANGED <<alive, told, unsure>>,
         inquiry.step = "validate" /\ ~inquiry.undoing =>
           \/ inquiry.process \in unsure
           \/ \A role \in AudioRole : route'[inquiry.process][role] = told[inquiry.process],
         inquiry.step = "second" => route'[inquiry.process]["multimedia"] = inquiry.target,
         inquiry.step = "recheck" =>
           \A role \in AudioRole : route'[inquiry.process][role] = inquiry.target
  PROVE  LaneInv'
<1> USE DEF LaneInv, AudioShape, InLane
<1>1. /\ audio' \in [Caller -> AudioCall \cup {NONE}] /\ audio'[c] = inquiry /\ inquiry # NONE
      /\ \A d \in Caller \ {c} : audio'[d] = audio[d]
      /\ inquiry.process \in Process
  BY AudioAssumption DEF AudioCall
<1>2. OneInLane'
  BY <1>1 DEF OneInLane
<1>3. LaneKnowsRoute'
  <2> SUFFICES ASSUME NEW d \in Caller, audio'[d] # NONE
               PROVE  LET p == audio'[d].process
                          goal == audio'[d].target
                      IN /\ audio'[d].step = "validate" /\ ~audio'[d].undoing =>
                              p \in unsure \/ \A role \in AudioRole : route'[p][role] = told[p]
                         /\ audio'[d].step = "second" => route'[p]["multimedia"] = goal
                         /\ audio'[d].step = "recheck" =>
                              \A role \in AudioRole : route'[p][role] = goal
    BY DEF LaneKnowsRoute
  <2>1. CASE d = c
    BY <1>1, <2>1
  <2>2. CASE d # c
    BY <1>1, <2>2
  <2> QED
    BY <2>1, <2>2
<1>4. AnswersAreTrue'
  <2> SUFFICES ASSUME NEW p \in Process \ unsure,
                      \A d \in Caller : InLane(d)' => audio'[d].process # p,
                      NEW role \in AudioRole
               PROVE  route'[p][role] = told[p]
    BY DEF AnswersAreTrue
  <2>1. p # inquiry.process
    BY <1>1
  <2>2. \A d \in Caller : InLane(d) => audio[d].process # p
    BY <2>1
  <2> QED
    BY <2>1, <2>2 DEF AnswersAreTrue
<1> QED
  BY <1>1, <1>2, <1>3, <1>4

LEMMA AskPreserves ==
  ASSUME AuthorityInv, EpochsNumbered, LaneInv, NEW c \in Caller, NEW s \in Seat,
         NEW p \in Process, NEW goal \in Endpoint \cup {NONE}, AskAudio(c, s, p, goal)
  PROVE  LaneInv'
<1> DEFINE inquiry == [seat |-> s, generation |-> generation[s], process |-> p,
                    target |-> goal, undoing |-> FALSE, step |-> "lane",
                    before |-> NoRoute]
<1>1. StillOwned(inquiry) /\ audio[c] = NONE /\ audio' = [audio EXCEPT ![c] = inquiry]
      /\ UNCHANGED <<route, alive, told, unsure>>
  BY DEF AskAudio
<1>2. Active(s)
  BY <1>1 DEF StillOwned, Active, LeaseClass
<1>3. generation[s] \in 1..MaxGeneration
  BY <1>2 DEF EpochsNumbered
<1>4. NoRoute \in [AudioRole -> Endpoint \cup {NONE}]
  BY DEF NoRoute
<1>5. inquiry \in AudioCall /\ inquiry.step = "lane"
  BY <1>3, <1>4 DEF AudioCall, AudioStep
<1> HIDE DEF inquiry
<1>6. /\ audio' \in [Caller -> AudioCall \cup {NONE}]
      /\ \A d \in Caller : audio'[d] = IF d = c THEN inquiry ELSE audio[d]
  BY <1>1, <1>5 DEF LaneInv, AudioShape
<1>7. \A d \in Caller : InLane(d)' <=> InLane(d)
  BY <1>1, <1>5, <1>6 DEF InLane
<1>8. AudioShape'
  BY <1>1, <1>6 DEF LaneInv, AudioShape
<1>9. OneInLane'
  BY <1>7 DEF LaneInv, OneInLane
<1>10. LaneKnowsRoute'
  BY <1>1, <1>5, <1>6 DEF LaneInv, LaneKnowsRoute
<1>11. AnswersAreTrue'
  <2>1. \A d \in Caller : InLane(d) => audio'[d] = audio[d]
    BY <1>1, <1>6 DEF InLane
  <2> QED
    BY <1>1, <1>7, <2>1 DEF LaneInv, AnswersAreTrue
<1> QED
  BY <1>8, <1>9, <1>10, <1>11 DEF LaneInv

LEMMA EnterPreserves ==
  ASSUME LaneInv, NEW c \in Caller, EnterLane(c)
  PROVE  LaneInv'
<1>1. /\ audio[c] \in AudioCall /\ audio[c] # NONE /\ ~InLane(c)
      /\ \A d \in Caller : ~InLane(d)
      /\ UNCHANGED <<route, alive, told, unsure>>
  BY DEF EnterLane, AtStep, InLane, LaneInv, AudioShape
<1>2. CASE Answer(c)
  BY <1>1, <1>2, RefusalChangesNothing
<1>3. CASE AudioGoesTo(c, "validate")
  <2> DEFINE inquiry == [audio[c] EXCEPT !.step = "validate"]
  <2>1. inquiry \in AudioCall /\ inquiry.process = audio[c].process /\ inquiry.step = "validate"
    BY <1>1 DEF AudioCall, AudioStep
  <2>2. audio' = [audio EXCEPT ![c] = inquiry]
    BY <1>3 DEF AudioGoesTo
  <2>3. audio[c].process \in Process
    BY <1>1 DEF AudioCall
  <2>4. \/ inquiry.process \in unsure
        \/ \A role \in AudioRole : route[inquiry.process][role] = told[inquiry.process]
    BY <1>1, <2>1, <2>3 DEF LaneInv, AnswersAreTrue
  <2>5. route' \in [Process -> [AudioRole -> Endpoint \cup {NONE}]] /\ route' = route
    BY <1>1 DEF LaneInv, AudioShape
  <2> HIDE DEF inquiry
  <2> QED
    BY <1>1, <2>1, <2>2, <2>4, <2>5, LaneGoesOn
<1> QED
  BY <1>2, <1>3 DEF EnterLane

(* What each step in the lane starts from.                                 *)
LEMMA LaneCaller ==
  ASSUME LaneInv, NEW c \in Caller, NEW step \in AudioStep \ {"lane"}, AtStep(c, step)
  PROVE  /\ audio[c] \in AudioCall /\ audio[c] # NONE /\ InLane(c)
         /\ audio[c].step = step /\ audio[c].process \in Process
         /\ audio[c].target \in Endpoint \cup {NONE}
         /\ \A d \in Caller \ {c} : ~InLane(d)
<1>1. audio[c] \in AudioCall /\ audio[c] # NONE /\ audio[c].step = step /\ InLane(c)
  BY DEF AtStep, InLane, LaneInv, AudioShape
<1> QED
  BY <1>1 DEF AudioCall, LaneInv, OneInLane

LEMMA ValidatePreserves ==
  ASSUME LaneInv, NEW c \in Caller, ValidateTarget(c)
  PROVE  LaneInv'
<1>1. AtStep(c, "validate") /\ UNCHANGED <<route, alive>>
  BY DEF ValidateTarget
<1>2. /\ audio[c] \in AudioCall /\ audio[c] # NONE /\ InLane(c)
      /\ audio[c].step = "validate" /\ audio[c].process \in Process
      /\ \A d \in Caller \ {c} : ~InLane(d)
  BY <1>1, LaneCaller DEF AudioStep
<1>3. route \in [Process -> [AudioRole -> Endpoint \cup {NONE}]]
  BY DEF LaneInv, AudioShape
<1>4. CASE /\ audio' = [audio EXCEPT ![c].step = "first",
                                     ![c].before = route[audio[c].process]]
           /\ UNCHANGED <<told, unsure>>
  <2> DEFINE inquiry == [audio[c] EXCEPT !.step = "first", !.before = route[audio[c].process]]
  <2>1. route[audio[c].process] \in [AudioRole -> Endpoint \cup {NONE}]
    BY <1>2, <1>3
  <2>2. inquiry \in AudioCall /\ inquiry.process = audio[c].process /\ inquiry.step = "first"
    BY <1>2, <2>1 DEF AudioCall, AudioStep
  <2>3. audio' = [audio EXCEPT ![c] = inquiry]
    BY <1>4
  <2> HIDE DEF inquiry
  <2> QED
    BY <1>1, <1>2, <1>3, <1>4, <2>2, <2>3, LaneGoesOn
<1>5. CASE AnswerFailed(c)
  BY <1>1, <1>2, <1>3, <1>5, FailureIsUnsure
<1>6. CASE ~audio[c].undoing /\ Answer(c) /\ UNCHANGED <<told, unsure>>
  BY <1>1, <1>2, <1>6, RefusalChangesNothing
<1> QED
  BY <1>4, <1>5, <1>6 DEF ValidateTarget

(* One role of the process' route is written.                              *)
LEMMA RoleIsWritten ==
  ASSUME LaneInv, NEW c \in Caller, audio[c].process \in Process, NEW role \in AudioRole,
         NEW endpoint \in Endpoint \cup {NONE}, route' = RouteWith(c, role, endpoint)
  PROVE  /\ route' \in [Process -> [AudioRole -> Endpoint \cup {NONE}]]
         /\ \A q \in Process \ {audio[c].process} : route'[q] = route[q]
         /\ route'[audio[c].process][role] = endpoint
         /\ \A other \in AudioRole \ {role} :
              route'[audio[c].process][other] = route[audio[c].process][other]
BY DEF LaneInv, AudioShape, RouteWith

LEMMA FirstPreserves ==
  ASSUME LaneInv, NEW c \in Caller, WriteFirstRole(c)
  PROVE  LaneInv'
<1>1. AtStep(c, "first") /\ UNCHANGED alive
  BY DEF WriteFirstRole
<1>2. /\ audio[c] \in AudioCall /\ audio[c] # NONE /\ InLane(c)
      /\ audio[c].process \in Process /\ audio[c].target \in Endpoint \cup {NONE}
      /\ \A d \in Caller \ {c} : ~InLane(d)
  BY <1>1, LaneCaller DEF AudioStep
<1>3. CASE /\ route' = RouteWith(c, "multimedia", audio[c].target)
           /\ AudioGoesTo(c, "second") /\ UNCHANGED <<told, unsure>>
  <2> DEFINE inquiry == [audio[c] EXCEPT !.step = "second"]
  <2>1. inquiry \in AudioCall /\ inquiry.process = audio[c].process /\ inquiry.step = "second"
        /\ inquiry.target = audio[c].target
    BY <1>2 DEF AudioCall, AudioStep
  <2>2. audio' = [audio EXCEPT ![c] = inquiry]
    BY <1>3 DEF AudioGoesTo
  <2>3. "multimedia" \in AudioRole
    BY DEF AudioRole
  <2>4. /\ route' \in [Process -> [AudioRole -> Endpoint \cup {NONE}]]
        /\ \A q \in Process \ {audio[c].process} : route'[q] = route[q]
        /\ route'[audio[c].process]["multimedia"] = audio[c].target
    BY <1>2, <1>3, <2>3, RoleIsWritten
  <2> HIDE DEF inquiry
  <2> QED
    BY <1>1, <1>2, <1>3, <2>1, <2>2, <2>4, LaneGoesOn
<1>4. CASE AnswerFailed(c) /\ UNCHANGED route
  <2>1. route' \in [Process -> [AudioRole -> Endpoint \cup {NONE}]] /\ route' = route
    BY <1>4 DEF LaneInv, AudioShape
  <2> QED
    BY <1>1, <1>2, <1>4, <2>1, FailureIsUnsure
<1> QED
  BY <1>3, <1>4 DEF WriteFirstRole

LEMMA SecondPreserves ==
  ASSUME LaneInv, NEW c \in Caller, WriteSecondRole(c)
  PROVE  LaneInv'
<1>1. AtStep(c, "second") /\ UNCHANGED alive
  BY DEF WriteSecondRole
<1>2. /\ audio[c] \in AudioCall /\ audio[c] # NONE /\ InLane(c) /\ audio[c].step = "second"
      /\ audio[c].process \in Process /\ audio[c].target \in Endpoint \cup {NONE}
      /\ \A d \in Caller \ {c} : ~InLane(d)
  BY <1>1, LaneCaller DEF AudioStep
<1>3. CASE /\ route' = RouteWith(c, "console", audio[c].target)
           /\ AudioGoesTo(c, "recheck") /\ UNCHANGED <<told, unsure>>
  <2> DEFINE inquiry == [audio[c] EXCEPT !.step = "recheck"]
  <2>1. inquiry \in AudioCall /\ inquiry.process = audio[c].process /\ inquiry.step = "recheck"
        /\ inquiry.target = audio[c].target
    BY <1>2 DEF AudioCall, AudioStep
  <2>2. audio' = [audio EXCEPT ![c] = inquiry]
    BY <1>3 DEF AudioGoesTo
  <2>3. "console" \in AudioRole /\ "multimedia" \in AudioRole \ {"console"}
    BY DEF AudioRole
  <2>4. /\ route' \in [Process -> [AudioRole -> Endpoint \cup {NONE}]]
        /\ \A q \in Process \ {audio[c].process} : route'[q] = route[q]
        /\ route'[audio[c].process]["console"] = audio[c].target
        /\ route'[audio[c].process]["multimedia"] = route[audio[c].process]["multimedia"]
    BY <1>2, <1>3, <2>3, RoleIsWritten
  <2>5. route[audio[c].process]["multimedia"] = audio[c].target
    BY <1>2 DEF LaneInv, LaneKnowsRoute
  <2>6. \A role \in AudioRole : route'[audio[c].process][role] = audio[c].target
    BY <2>4, <2>5 DEF AudioRole
  <2> HIDE DEF inquiry
  <2> QED
    BY <1>1, <1>2, <1>3, <2>1, <2>2, <2>4, <2>6, LaneGoesOn
<1>4. CASE /\ route' \in {RouteWith(c, "multimedia", audio[c].before["multimedia"]), route}
           /\ AnswerFailed(c)
  <2>1. "multimedia" \in AudioRole /\ audio[c].before["multimedia"] \in Endpoint \cup {NONE}
    BY <1>2 DEF AudioRole, AudioCall
  <2>2. /\ route' \in [Process -> [AudioRole -> Endpoint \cup {NONE}]]
        /\ \A q \in Process \ {audio[c].process} : route'[q] = route[q]
    <3>1. CASE route' = route
      BY <3>1 DEF LaneInv, AudioShape
    <3>2. CASE route' = RouteWith(c, "multimedia", audio[c].before["multimedia"])
      BY <1>2, <2>1, <3>2, RoleIsWritten
    <3> QED
      BY <1>4, <3>1, <3>2
  <2> QED
    BY <1>1, <1>2, <1>4, <2>2, FailureIsUnsure
<1> QED
  BY <1>3, <1>4 DEF WriteSecondRole

LEMMA RecheckPreserves ==
  ASSUME LaneInv, NEW c \in Caller, RecheckOwner(c)
  PROVE  LaneInv'
<1>1. AtStep(c, "recheck") /\ UNCHANGED <<route, alive>>
  BY DEF RecheckOwner
<1>2. /\ audio[c] \in AudioCall /\ audio[c] # NONE /\ InLane(c) /\ audio[c].step = "recheck"
      /\ audio[c].process \in Process /\ audio[c].target \in Endpoint \cup {NONE}
      /\ \A d \in Caller \ {c} : ~InLane(d)
  BY <1>1, LaneCaller DEF AudioStep
<1>3. route \in [Process -> [AudioRole -> Endpoint \cup {NONE}]]
      /\ \A role \in AudioRole : route[audio[c].process][role] = audio[c].target
  BY <1>2 DEF LaneInv, AudioShape, LaneKnowsRoute
<1>4. CASE Promise(c, audio[c].target)
  BY <1>1, <1>2, <1>3, <1>4, PromiseIsTrue
<1>5. CASE /\ audio' = [audio EXCEPT ![c].step = "validate",
                                     ![c].target = NONE, ![c].undoing = TRUE]
           /\ UNCHANGED <<told, unsure>>
  <2> DEFINE inquiry == [audio[c] EXCEPT !.step = "validate", !.target = NONE, !.undoing = TRUE]
  <2>1. inquiry \in AudioCall /\ inquiry.process = audio[c].process /\ inquiry.step = "validate"
        /\ inquiry.undoing
    BY <1>2 DEF AudioCall, AudioStep
  <2>2. audio' = [audio EXCEPT ![c] = inquiry]
    BY <1>5
  <2> HIDE DEF inquiry
  <2> QED
    BY <1>1, <1>2, <1>3, <1>5, <2>1, <2>2, LaneGoesOn
<1> QED
  BY <1>4, <1>5 DEF RecheckOwner

(* The invariant of the audio requests is kept by each step.               *)
LEMMA AudioStepKeeps == AudioInv /\ [AudioNext]_audioVars => AudioInv'
<1> SUFFICES ASSUME AudioInv, [AudioNext]_audioVars PROVE AudioInv'
  OBVIOUS
<1> USE DEF AudioInv
<1>1. ASSUME UNCHANGED audioOnlyVars PROVE LaneInv'
  BY <1>1 DEF audioOnlyVars, LaneInv, AudioShape, OneInLane, LaneKnowsRoute, AnswersAreTrue,
     InLane
<1>2. CASE AuthorityNext /\ UNCHANGED audioOnlyVars
  BY <1>1, <1>2, StepPreserves, EpochsStayNumbered
<1>3. CASE UNCHANGED audioVars
  BY <1>1, <1>3, StepPreserves, EpochsStayNumbered DEF audioVars
<1>4. ASSUME UNCHANGED authorityVars, LaneInv' PROVE AudioInv'
  BY <1>4, StepPreserves, EpochsStayNumbered
<1>5. ASSUME NEW c \in Caller, NEW s \in Seat, NEW p \in Process,
             NEW goal \in Endpoint \cup {NONE}, AskAudio(c, s, p, goal)
      PROVE  AudioInv'
  BY <1>4, <1>5, AskPreserves DEF AskAudio
<1>6. ASSUME NEW c \in Caller,
             EnterLane(c) \/ ValidateTarget(c) \/ WriteFirstRole(c) \/ WriteSecondRole(c)
               \/ RecheckOwner(c)
      PROVE  AudioInv'
  <2>1. UNCHANGED authorityVars
    BY <1>6 DEF EnterLane, ValidateTarget, WriteFirstRole, WriteSecondRole, RecheckOwner
  <2>2. LaneInv'
    BY <1>6, EnterPreserves, ValidatePreserves, FirstPreserves, SecondPreserves,
       RecheckPreserves
  <2> QED
    BY <1>4, <2>1, <2>2
<1>7. ASSUME NEW p \in alive, ProcessExits(p)
      PROVE  AudioInv'
  <2>1. LaneInv'
    BY <1>7 DEF ProcessExits, LaneInv, AudioShape, OneInLane, LaneKnowsRoute, AnswersAreTrue,
       InLane
  <2> QED
    BY <1>4, <1>7, <2>1 DEF ProcessExits
<1> QED
  BY <1>2, <1>3, <1>5, <1>6, <1>7 DEF AudioNext

(* Outside of a request both roles of a process are where the last answer  *)
(* about it said, unless that answer was RoutingFailed: in every           *)
(* interleaving of callers, leases that come and go and failing writes.    *)
THEOREM AudioSafe == AudioSpec => [](AudioTypeOK /\ AnswersAreTrue)
<1>1. AudioInv => AudioTypeOK /\ AnswersAreTrue
  BY DEF AudioInv, AuthorityInv, LaneInv, AudioShape, AudioTypeOK
<1> QED
  BY <1>1, AudioStart, AudioStepKeeps, PTL DEF AudioSpec

-----------------------------------------------------------------------------
(* Any one of them, the others at rest.                                    *)

ServicesInv ==
  /\ PipeInv /\ TransactionInv /\ WatchdogInv /\ HidInv /\ GateInv /\ LaneInv
  /\ focus = "audio" => AuthorityInv /\ EpochsNumbered

LEMMA ServicesStart == ServicesInit => ServicesInv
<1> SUFFICES ASSUME ServicesInit PROVE ServicesInv
  OBVIOUS
<1>1. PipeInv /\ TransactionInv /\ WatchdogInv /\ HidInv /\ GateInv
  BY PipeStart, TransactionStart, WatchdogStart, HidStart, GateStart DEF ServicesInit
<1>2. CASE focus = "audio" /\ AudioInit
  BY <1>1, <1>2, AudioStart DEF AudioInv, ServicesInv
<1>3. CASE focus # "audio" /\ IdleAudio
  <2>1. LaneInv
    BY <1>3 DEF IdleAudio, LaneInv, AudioShape, OneInLane, LaneKnowsRoute, AnswersAreTrue,
       InLane, NoRoute, AudioRole
  <2> QED
    BY <1>1, <1>3, <2>1 DEF ServicesInv
<1> QED
  BY <1>2, <1>3 DEF ServicesInit

(* The invariant of each service is kept by its own steps, and by those of *)
(* the others, which leave its state alone.                                *)
LEMMA ServicesStep == ServicesInv /\ [ServicesNext]_servicesVars => ServicesInv'
<1> SUFFICES ASSUME ServicesInv, [ServicesNext]_servicesVars PROVE ServicesInv'
  OBVIOUS
<1>1. [PipeNext]_pipeVars
  BY DEF ServicesNext, servicesVars, OthersStill
<1>2. [TransactionNext]_transactionVars
  BY DEF ServicesNext, servicesVars, OthersStill
<1>3. [WatchdogNext]_watchdogVars
  BY DEF ServicesNext, servicesVars, OthersStill
<1>4. [HidNext]_hidVars
  BY DEF ServicesNext, servicesVars, OthersStill
<1>5. [GateNext]_gateVars
  BY DEF ServicesNext, servicesVars, OthersStill
<1>6. PipeInv' /\ TransactionInv' /\ WatchdogInv' /\ HidInv' /\ GateInv'
  BY <1>1, <1>2, <1>3, <1>4, <1>5, PipeStep, TransactionStep, WatchdogStep, HidStepKeeps,
     GateStep DEF ServicesInv
<1>7. focus' = focus
  BY DEF ServicesNext, servicesVars, OthersStill
<1>8. CASE focus = "audio"
  <2>1. [AudioNext]_audioVars
    BY <1>8 DEF ServicesNext, servicesVars, audioVars
  <2>2. AudioInv'
    BY <1>8, <2>1, AudioStepKeeps DEF ServicesInv, AudioInv
  <2> QED
    BY <1>6, <2>2 DEF ServicesInv, AudioInv
<1>9. CASE focus # "audio"
  <2>1. UNCHANGED audioOnlyVars
    BY <1>9 DEF ServicesNext, servicesVars, OthersStill
  <2>2. LaneInv'
    BY <2>1 DEF ServicesInv, audioOnlyVars, LaneInv, AudioShape, OneInLane, LaneKnowsRoute,
       AnswersAreTrue, InLane
  <2> QED
    BY <1>6, <1>7, <1>9, <2>2 DEF ServicesInv
<1> QED
  BY <1>8, <1>9

LEMMA ServicesHold == ServicesSpec => []ServicesInv
BY ServicesStart, ServicesStep, PTL DEF ServicesSpec

(* The states of the services have their types.                            *)
THEOREM ServicesTypeCorrect == ServicesSpec => []ServicesTypeOK
<1>1. ServicesInv => ServicesTypeOK
  BY TransactionIsKnown, SuccessIsUndone, HidIsSafe, GateIsSafe
     DEF ServicesInv, PipeInv, ServicesTypeOK
<1> QED
  BY <1>1, ServicesHold, PTL

(* The host's answers about audio routes are true (see AudioSafe).         *)
THEOREM AudioAnswersAreTrue == ServicesSpec => []AnswersAreTrue
<1>1. ServicesInv => AnswersAreTrue
  BY DEF ServicesInv, LaneInv
<1> QED
  BY <1>1, ServicesHold, PTL

(* Audio mutations are remembered until undone, and the watchdog's success *)
(* means undone (see TransactionSafe and WatchdogSafe).                    *)
THEOREM UndoneAsReported == ServicesSpec => []UndoneExactly
<1>1. ServicesInv => UndoneExactly
  BY TransactionIsKnown, SuccessIsUndone DEF ServicesInv, UndoneExactly
<1> QED
  BY <1>1, ServicesHold, PTL

(* The machine's settings and the game's imports isolate the Seat (see     *)
(* HidSafe and GateSafe).                                                  *)
THEOREM SeatsAreIsolated == ServicesSpec => []SeatsStayIsolated
<1>1. ServicesInv => SeatsStayIsolated
  BY HidIsSafe, GateIsSafe DEF ServicesInv, SeatsStayIsolated
<1> QED
  BY <1>1, ServicesHold, PTL

-----------------------------------------------------------------------------
(***************************************************************************)
(* The shutdown of SeatWindowRuntime leaves nothing behind, for every set  *)
(* of windows and every interleaving of the two threads.                   *)
(*                                                                         *)
(* NothingOutlivesTheLease is not inductive: a handler that is under way   *)
(* when the lease ends would bind again.  WindowInv adds why there is none:*)
(* the tracker was joined before the lease is released, and the launching  *)
(* thread has returned from its own calls of the handler before it starts  *)
(* the shutdown.                                                           *)
(***************************************************************************)

USE AuthorityAssumption, BindingAssumption, WindowAssumption

(* Where the launching thread may be inside of the handler.                *)
LauncherCallsIn == {"resume", "publish"}

Joined == {"release", "done"}

(* A handler binds windows only, and clears only what it found bound.      *)
CallsSound ==
  \A t \in Thread : call[t] # NONE =>
    /\ call[t].pc \in {"load", "clear", "forget", "bind", "remember"} =>
         call[t].target \in Window
    /\ call[t].pc \in {"clear", "drop"} => call[t].previous \in Window

(* The worker is joined, and stays so; the launcher's own calls are over.  *)
ShutdownOrder ==
  /\ launcher.pc \in Joined => call["worker"] = NONE /\ ~tracking
  /\ call["launcher"] # NONE => launcher.pc \in LauncherCallsIn
  /\ "game" \notin leases[TheSeat] => launcher.pc = "done"

WindowInv == AuthorityInv /\ WindowTypeOK /\ CallsSound /\ ShutdownOrder

LEMMA TheSeatIsSeat == TheSeat \in Seat /\ Root \in Process
  BY DEF TheSeat, Root

LEMMA TokenIsToken ==
  Token \in ActivationToken /\ Token.seat = TheSeat /\ Token.class = "game"
  BY TheSeatIsSeat DEF Token, ActivationToken, LeaseClass

LEMMA WindowInitEstablishes == WindowInit => WindowInv
  <1> SUFFICES ASSUME WindowInit PROVE WindowInv
    OBVIOUS
  <1> USE TheSeatIsSeat DEF WindowInit
  <1>1. AuthorityTypeOK
    BY DEF AuthorityTypeOK, LeaseClass
  <1>2. AuthorityInv
    BY <1>1
    DEF AuthorityInv, NoOrphanAuthority, ExclusiveOwnership, Active
  <1>3. WindowTypeOK
    BY <1>1 DEF WindowTypeOK, Target, Thread, LauncherPc
  <1>4. CallsSound /\ ShutdownOrder
    BY DEF CallsSound, ShutdownOrder, Joined, LauncherCallsIn, Thread
  <1> QED BY <1>2, <1>3, <1>4 DEF WindowInv

(* Every step of the authority state is one of SessionController's; to     *)
(* clear a window moves no lease.                                          *)
LEMMA ClearAtHostPreserves ==
  ASSUME AuthorityInv, NEW w \in Window, ClearAtHost(w)
  PROVE  AuthorityInv' /\ leases' = leases
  <1>1. CASE ClearTargetWindow(Token, Root, w)
    BY <1>1, TheSeatIsSeat, TokenIsToken, ClearWindowPreserves
    DEF ClearTargetWindow
  <1>2. CASE UNCHANGED authorityVars
    BY <1>2, StepPreserves DEF authorityVars
  <1> QED BY <1>1, <1>2 DEF ClearAtHost

(* A step of the handler keeps the authority invariant and every lease.    *)
LEMMA HandlerAuthority ==
  ASSUME WindowInv, NEW t \in Thread, HandlerStep(t)
  PROVE  AuthorityInv' /\ leases' = leases
  <1> USE DEF WindowInv
  <1>1. CASE Enter(t) \/ Load(t) \/ Forget(t) \/ Remember(t) \/ Exchange(t)
    <2>1. UNCHANGED authorityVars
      BY <1>1 DEF Enter, Load, Forget, Remember, Exchange
    <2> QED BY <2>1, StepPreserves DEF authorityVars
  <1>2. CASE ClearPrevious(t) \/ Drop(t)
    <2>1. call[t].previous \in Window /\ ClearAtHost(call[t].previous)
      BY <1>2 DEF ClearPrevious, Drop, Handles, CallsSound
    <2> QED BY <2>1, ClearAtHostPreserves
  <1>3. CASE Bind(t)
    <2>1. CASE BindTargetWindow(Token, Root, call[t].target)
      <3>1. call[t].target \in Window
        BY <1>3 DEF Bind, Handles, CallsSound
      <3> QED
        BY <2>1, <3>1, TheSeatIsSeat, TokenIsToken, BindWindowPreserves
        DEF BindTargetWindow
    <2>2. CASE UNCHANGED authorityVars
      BY <2>2, StepPreserves DEF authorityVars
    <2> QED BY <1>3, <2>1, <2>2 DEF Bind
  <1> QED BY <1>1, <1>2, <1>3 DEF HandlerStep

(* ... and goes on to a step whose operands it has.                        *)
LEMMA HandlerCalls ==
  ASSUME WindowInv, NEW t \in Thread, HandlerStep(t)
  PROVE  /\ call' \in [Thread -> Handler \cup {NONE}]
         /\ boundHwnd' \in Window \cup {NONE}
         /\ CallsSound'
         /\ \A o \in Thread : call[o] = NONE => call'[o] = NONE
  <1> USE DEF WindowInv, WindowTypeOK, CallsSound, Handles, GoTo, Return
  <1>1. call \in [Thread -> Handler \cup {NONE}] /\ call[t] # NONE
    BY DEF HandlerStep, Enter, Load, ClearPrevious, Forget, Bind, Remember,
           Exchange, Drop
  <1>2. call[t] \in Handler
    BY <1>1
  <1>3. CASE Enter(t)
    BY <1>1, <1>2, <1>3 DEF Enter, Handler
  <1>4. CASE Load(t)
    BY <1>1, <1>2, <1>4 DEF Load, Handler
  <1>5. CASE ClearPrevious(t)
    BY <1>1, <1>2, <1>5 DEF ClearPrevious, Handler
  <1>6. CASE Forget(t)
    BY <1>1, <1>2, <1>6 DEF Forget, Handler
  <1>7. CASE Bind(t)
    BY <1>1, <1>2, <1>7 DEF Bind, Handler
  <1>8. CASE Remember(t)
    BY <1>1, <1>2, <1>8 DEF Remember, Handler
  <1>9. CASE Exchange(t)
    BY <1>1, <1>2, <1>9 DEF Exchange, Handler
  <1>10. CASE Drop(t)
    BY <1>1, <1>2, <1>10 DEF Drop, Handler
  <1> QED
    BY <1>3, <1>4, <1>5, <1>6, <1>7, <1>8, <1>9, <1>10 DEF HandlerStep

LEMMA HandlerPreserves ==
  ASSUME WindowInv, NEW t \in Thread, HandlerStep(t)
  PROVE  WindowInv'
  <1>1. AuthorityInv' /\ leases' = leases
    BY HandlerAuthority
  <1>2. WindowTypeOK'
    BY <1>1, HandlerCalls
    DEF WindowInv, WindowTypeOK, HandlerStep, AuthorityInv
  <1>3. ShutdownOrder'
    BY <1>1, HandlerCalls DEF WindowInv, ShutdownOrder, HandlerStep, Thread
  <1> QED BY <1>1, <1>2, <1>3, HandlerCalls DEF WindowInv

(* The worker calls only while it has not been joined.                     *)
LEMMA WorkerPreserves ==
  ASSUME WindowInv, (\E value \in Target : Retarget(value)) \/ Dispatch
  PROVE  WindowInv'
  <1> USE DEF WindowInv
  <1>1. UNCHANGED authorityVars /\ AuthorityInv'
    BY StepPreserves DEF Retarget, Dispatch
  <1>2. CASE \E value \in Target : Retarget(value)
    <2>1. PICK value \in Target : Retarget(value)
      BY <1>2
    <2>2. WindowTypeOK'
      BY <1>1, <2>1 DEF Retarget, WindowTypeOK, Handler, Thread, AuthorityInv
    <2>3. CallsSound'
      BY <2>1 DEF Retarget, WindowTypeOK, CallsSound, Thread
    <2>4. ShutdownOrder'
      BY <1>1, <2>1
      DEF Retarget, WindowTypeOK, ShutdownOrder, Thread, authorityVars
    <2> QED BY <1>1, <2>2, <2>3, <2>4
  <1>3. CASE Dispatch
    <2>1. call["worker"] \in Handler /\ "worker" \in Thread
      BY <1>3 DEF Dispatch, Handles, WindowTypeOK, Thread
    <2>2. WindowTypeOK'
      BY <1>1, <1>3, <2>1
      DEF Dispatch, GoTo, Return, WindowTypeOK, Handler, AuthorityInv
    <2>3. CallsSound'
      BY <1>3, <2>1 DEF Dispatch, GoTo, Return, WindowTypeOK, CallsSound, Handler
    <2>4. ShutdownOrder'
      BY <1>1, <1>3, <2>1
      DEF Dispatch, Handles, WindowTypeOK, ShutdownOrder, Thread, authorityVars,
          GoTo, Return
    <2> QED BY <1>1, <2>2, <2>3, <2>4
  <1> QED BY <1>2, <1>3

(* The launching thread up to the shutdown; it calls the handler itself.   *)
LaunchSteps ==
  RegisterObserver \/ SampleOnce \/ ResumeGame \/ AwaitTarget \/ Place
    \/ BeginShutdown

LEMMA LaunchPreserves ==
  ASSUME WindowInv, LaunchSteps
  PROVE  WindowInv'
  <1> USE DEF WindowInv, LaunchSteps, LauncherAt, LauncherGoes
  <1>1. UNCHANGED authorityVars /\ AuthorityInv'
    BY StepPreserves
    DEF RegisterObserver, SampleOnce, ResumeGame, AwaitTarget, Place,
        BeginShutdown
  <1>2. launcher.pc \notin Joined \cup LauncherCallsIn \/ call["launcher"] = NONE
    BY DEF RegisterObserver, SampleOnce, ResumeGame, AwaitTarget, Place,
           BeginShutdown, Joined
  <1>3. CASE SampleOnce \/ AwaitTarget
    <2>1. /\ call' = [call EXCEPT !["launcher"] = Called(target)]
          /\ Called(target) \in Handler
          /\ Called(target).pc = "enter"
      BY <1>3 DEF SampleOnce, AwaitTarget, Called, Handler, WindowTypeOK
    <2>2. /\ launcher.pc \in {"sample", "wait"}
          /\ launcher'.pc \in LauncherCallsIn
      BY <1>3 DEF SampleOnce, AwaitTarget, WindowTypeOK, LauncherCallsIn
    <2>3. WindowTypeOK'
      <3>1. call' \in [Thread -> Handler \cup {NONE}]
        BY <2>1 DEF WindowTypeOK
      <3>2. launcher' \in [pc : LauncherPc, placing : Window \cup {NONE}]
        BY <1>3 DEF SampleOnce, AwaitTarget, WindowTypeOK, LauncherPc
      <3> QED
        BY <1>1, <1>3, <3>1, <3>2
        DEF SampleOnce, AwaitTarget, WindowTypeOK, AuthorityInv
    <2>4. CallsSound'
      BY <2>1 DEF WindowTypeOK, CallsSound
    <2>5. ShutdownOrder'
      BY <1>1, <2>1, <2>2
      DEF ShutdownOrder, WindowTypeOK, Joined, LauncherCallsIn, authorityVars
    <2> QED BY <1>1, <2>3, <2>4, <2>5
  <1>4. CASE RegisterObserver \/ ResumeGame \/ Place \/ BeginShutdown
    <2>1. call' = call /\ call["launcher"] = NONE
      BY <1>4 DEF RegisterObserver, ResumeGame, Place, BeginShutdown
    <2>2. launcher.pc # "done" /\ launcher'.pc \notin Joined
      BY <1>4
      DEF RegisterObserver, ResumeGame, Place, BeginShutdown, WindowTypeOK, Joined
    <2>3. WindowTypeOK'
      BY <1>1, <1>4
      DEF RegisterObserver, ResumeGame, Place, BeginShutdown, WindowTypeOK,
          LauncherPc, AuthorityInv
    <2>4. CallsSound' /\ ShutdownOrder'
      BY <1>1, <2>1, <2>2 DEF CallsSound, ShutdownOrder, authorityVars
    <2> QED BY <1>1, <2>3, <2>4
  <1> QED BY <1>3, <1>4

(* The shutdown: the worker is joined before the lease is released.        *)
LEMMA ShutdownPreserves ==
  ASSUME WindowInv, Shutdown
  PROVE  WindowInv'
  <1> USE DEF WindowInv, LauncherAt, LauncherGoes
  <1>1. call' = call /\ call["launcher"] = NONE
    BY DEF Shutdown, RemoveObserver, TakeBound, ClearBound, StopTracker,
           EndSeatActivation
  <1>2. CASE RemoveObserver \/ TakeBound \/ ClearBound
    <2>1. AuthorityInv' /\ leases' = leases
      <3>1. CASE UNCHANGED authorityVars
        BY <3>1, StepPreserves DEF authorityVars
      <3>2. CASE ClearBound /\ launcher.placing # NONE
        BY <3>2, ClearAtHostPreserves DEF ClearBound, WindowTypeOK
      <3> QED BY <1>2, <3>1, <3>2 DEF RemoveObserver, TakeBound, ClearBound
    <2>2. WindowTypeOK'
      <3>1. launcher' \in [pc : LauncherPc, placing : Window \cup {NONE}]
        BY <1>2
        DEF RemoveObserver, TakeBound, ClearBound, WindowTypeOK, LauncherPc
      <3> QED
        BY <1>1, <1>2, <2>1, <3>1
        DEF RemoveObserver, TakeBound, ClearBound, WindowTypeOK, AuthorityInv
    <2>3. launcher.pc # "done" /\ launcher'.pc \notin Joined
      BY <1>2 DEF RemoveObserver, TakeBound, ClearBound, WindowTypeOK, Joined
    <2> QED BY <1>1, <2>1, <2>2, <2>3 DEF CallsSound, ShutdownOrder
  <1>3. CASE StopTracker
    <2>1. UNCHANGED authorityVars /\ AuthorityInv'
      BY <1>3, StepPreserves DEF StopTracker
    <2>2. WindowTypeOK'
      BY <1>1, <1>3, <2>1 DEF StopTracker, WindowTypeOK, LauncherPc, AuthorityInv
    <2> QED
      BY <1>1, <1>3, <2>1, <2>2
      DEF StopTracker, CallsSound, ShutdownOrder, WindowTypeOK, authorityVars
  <1>4. CASE EndSeatActivation
    <2>1. AuthorityInv'
      BY <1>4, TokenIsToken, ReleasePreserves DEF EndSeatActivation
    <2>2. WindowTypeOK'
      BY <1>1, <1>4, <2>1
      DEF EndSeatActivation, WindowTypeOK, LauncherPc, AuthorityInv
    <2> QED
      BY <1>1, <1>4, <2>1, <2>2
      DEF EndSeatActivation, CallsSound, ShutdownOrder, WindowTypeOK, Joined
  <1> QED BY <1>2, <1>3, <1>4 DEF Shutdown

LEMMA WindowStepPreserves == WindowInv /\ [WindowNext]_windowVars => WindowInv'
  <1> SUFFICES ASSUME WindowInv, [WindowNext]_windowVars PROVE WindowInv'
    OBVIOUS
  <1>1. CASE UNCHANGED windowVars
    <2>1. AuthorityInv'
      BY <1>1, StepPreserves DEF windowVars, WindowInv
    <2> QED
      BY <1>1, <2>1
      DEF windowVars, authorityVars, WindowInv, WindowTypeOK, CallsSound,
          ShutdownOrder, AuthorityInv
  <1>2. CASE WindowNext
    BY <1>2, HandlerPreserves, WorkerPreserves, LaunchPreserves,
       ShutdownPreserves
    DEF WindowNext, LaunchSteps
  <1> QED BY <1>1, <1>2

LEMMA WindowInvariance == WindowSpec => []WindowInv
  BY WindowInitEstablishes, WindowStepPreserves, PTL DEF WindowSpec

(* Type correctness of the window runtime and of the authority it acts on. *)
THEOREM WindowTypeCorrect == WindowSpec => []WindowTypeOK
  <1>1. WindowInv => WindowTypeOK
    BY DEF WindowInv
  <1> QED BY <1>1, WindowInvariance, PTL

(* After the release of the game lease no window is bound and no callback  *)
(* of the tracker runs or will run, whatever was under way at shutdown.    *)
THEOREM NothingLeftBehind == WindowSpec => []NothingOutlivesTheLease
  <1>1. WindowInv => NothingOutlivesTheLease
    BY TheSeatIsSeat
    DEF WindowInv, ShutdownOrder, Joined, NothingOutlivesTheLease, AuthorityInv,
        NoOrphanAuthority
  <1> QED BY <1>1, WindowInvariance, PTL
=============================================================================
