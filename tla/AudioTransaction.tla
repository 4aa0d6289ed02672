-------------------------- MODULE AudioTransaction --------------------------
(***************************************************************************)
(* RouteTransaction: moves the audio sessions of one owned process tree to *)
(* a target endpoint, and back, through a backend that may fail or lie.    *)
(*                                                                         *)
(* The transaction trusts only what it observes.  Sessions are identified  *)
(* by their exact process; between two steps they may appear, end, or be   *)
(* moved by the user, and the target endpoint may be unplugged.            *)
(***************************************************************************)
EXTENDS Naturals

CONSTANTS
  Session,           \* audio sessions of the owned process tree
  RouteTarget, RouteOther,     \* the requested render endpoint and another one
  NoCapture          \* nothing is captured

ASSUME SessionAssumption ==
  /\ RouteTarget # RouteOther /\ "none" \notin {RouteTarget, RouteOther}
  /\ NoCapture \notin [Session -> {RouteTarget, RouteOther, "none"}]

VARIABLES
  endpointOf,        \* world: endpoint of each session, "none" if it has none
  targetPresent,     \* world: the target endpoint is active
  routePhase, routeMutated, rollbackVerified,         \* status_
  routeBefore,       \* before_: what the backend captured
  beforeEvidence,    \* beforeEvidence_: what was observed
  routeStep,         \* the place in attempt() or rollback(), "idle" outside
  routeEvidence,     \* the observation the call works with
  movedByRoute,      \* ghost: sessions the backend has left on the target
  repeated,          \* ghost: attempt() was called with a mutation pending
  disturbed          \* ghost: the user moved a session during a call

transactionVars ==
  <<endpointOf, targetPresent, routePhase, routeMutated, rollbackVerified,
    routeBefore, beforeEvidence, routeStep, routeEvidence, movedByRoute,
    repeated, disturbed>>

routeStatusVars == <<routePhase, routeMutated, rollbackVerified>>
routeCaptureVars == <<routeBefore, beforeEvidence>>
routeWorldVars == <<endpointOf, targetPresent, movedByRoute>>
routeGhostVars == <<repeated, disturbed>>
routeKept == <<routeMutated, rollbackVerified, routeCaptureVars>>

RoutePlace == {RouteTarget, RouteOther, "none"}

RoutePhase == {"Unprepared", "WaitingForSession", "Ready", "Satisfied", "Applied",
               "Unsupported", "Failed", "RecoveryRequired"}

(* "undo" belongs to attempt(), "restore" to rollback().                   *)
RouteStep == {"idle", "capture", "apply", "verify", "undo", "verifyUndo",
              "restore", "verifyRestore"}

OwnedSessions(observation) == {s \in Session : observation[s] # "none"}

OnTarget(observation) ==
  /\ OwnedSessions(observation) # {}
  /\ \A s \in OwnedSessions(observation) : observation[s] = RouteTarget

TransactionInit ==
  /\ endpointOf \in [Session -> {RouteOther, "none"}]
  /\ targetPresent = TRUE
  /\ routePhase = "Unprepared" /\ routeMutated = FALSE /\ rollbackVerified = FALSE
  /\ routeBefore = NoCapture /\ beforeEvidence = NoCapture
  /\ routeStep = "idle"
  /\ routeEvidence = endpointOf
  /\ movedByRoute = {} /\ repeated = FALSE /\ disturbed = FALSE

ReturnRoute(p) == routeStep' = "idle" /\ routePhase' = p

ContinueRoute(s) == routeStep' = s /\ UNCHANGED routePhase

(* attempt() up to the choice of a capability.  The Seat, the tree and the *)
(* endpoint are validated and the sessions observed; an incomplete         *)
(* observation, an unverified PID match or duplicate sessions fail the     *)
(* call.  No session yet, or all on the target, ends it without mutation;  *)
(* so does a backend whose capability is "SatisfiedWithoutMutation", about *)
(* sessions that are elsewhere too.                                        *)
AttemptRoute ==
  /\ routeStep = "idle"
  /\ rollbackVerified' = FALSE
  /\ routeEvidence' = endpointOf
  /\ repeated' = (repeated \/ routeMutated)
  /\ \/ ReturnRoute("Failed") /\ UNCHANGED routeMutated
     \/ /\ targetPresent /\ OwnedSessions(endpointOf) = {}
        /\ ReturnRoute("WaitingForSession") /\ UNCHANGED routeMutated
     \/ /\ targetPresent /\ OwnedSessions(endpointOf) # {}
        /\ ReturnRoute("Satisfied") /\ routeMutated' = FALSE
     \/ /\ targetPresent /\ OwnedSessions(endpointOf) # {} /\ ~OnTarget(endpointOf)
        /\ ReturnRoute("Unsupported") \/ ContinueRoute("capture")
        /\ UNCHANGED routeMutated
  /\ UNCHANGED <<routeWorldVars, routeCaptureVars, disturbed>>

(* The backend captures where the sessions it is shown are now; once it is *)
(* asked to apply, a mutation is assumed.                                  *)
CaptureRoute ==
  /\ routeStep = "capture"
  /\ \/ /\ routeBefore' = [s \in Session |->
                          IF routeEvidence[s] = "none" THEN "none" ELSE endpointOf[s]]
        /\ beforeEvidence' = routeEvidence
        /\ routeMutated' = TRUE
        /\ ContinueRoute("apply")
     \/ ReturnRoute("Failed") /\ UNCHANGED <<routeMutated, routeCaptureVars>>
  /\ UNCHANGED <<routeWorldVars, rollbackVerified, routeEvidence, routeGhostVars>>

(* The backend moves any of the captured sessions, whatever it answers.    *)
MovingSessions(some, places) ==
  /\ some \subseteq OwnedSessions(endpointOf) \cap OwnedSessions(routeBefore)
  /\ endpointOf' = [s \in Session |-> IF s \in some THEN places[s] ELSE endpointOf[s]]
  /\ LET left == {s \in some : routeBefore[s] # RouteTarget /\ places[s] = RouteTarget}
         back == {s \in some : places[s] # RouteTarget}
     IN movedByRoute' = (movedByRoute \cup left) \ back

ApplyRoute ==
  /\ routeStep = "apply"
  /\ \E some \in SUBSET Session : MovingSessions(some, [s \in Session |-> RouteTarget])
  /\ ContinueRoute("verify") \/ ContinueRoute("undo")
  /\ UNCHANGED <<targetPresent, routeKept, routeEvidence, routeGhostVars>>

(* verifyApplied: every owned session is observed on the target.           *)
VerifyRoute ==
  /\ routeStep = "verify"
  /\ \/ OnTarget(endpointOf) /\ ReturnRoute("Applied")
     \/ ContinueRoute("undo")
  /\ UNCHANGED <<routeWorldVars, routeKept, routeEvidence, routeGhostVars>>

(* backend->rollback with the captured state, which may fail half way.     *)
UndoRoute ==
  /\ routeStep \in {"undo", "restore"}
  /\ \E some \in SUBSET Session : MovingSessions(some, routeBefore)
  /\ \/ ContinueRoute(IF routeStep = "undo" THEN "verifyUndo" ELSE "verifyRestore")
     \/ ReturnRoute("RecoveryRequired")
  /\ UNCHANGED <<targetPresent, routeKept, routeEvidence, routeGhostVars>>

(* Mutant of RouteRestored: a session that has disappeared ends the comparison. *)
RouteRestoredUnlessGone ==
  \/ \E s \in OwnedSessions(beforeEvidence) : endpointOf[s] = "none"
  \/ \A s \in OwnedSessions(beforeEvidence) : endpointOf[s] = beforeEvidence[s]

(* verifyCapturedEndpoints: every observed session is still there and back.*)
RouteRestored == \A s \in OwnedSessions(beforeEvidence) : endpointOf[s] = beforeEvidence[s]

(* Mutant of VerifyUndone: the capture is dropped before the comparison.   *)
VerifyUndoneDropped ==
  /\ routeStep \in {"verifyUndo", "verifyRestore"}
  /\ IF RouteRestored
       THEN ReturnRoute("Ready") /\ routeMutated' = FALSE /\ rollbackVerified' = TRUE
       ELSE ReturnRoute("RecoveryRequired") /\ UNCHANGED <<routeMutated, rollbackVerified>>
  /\ routeBefore' = NoCapture /\ beforeEvidence' = NoCapture
  /\ UNCHANGED <<routeWorldVars, routeEvidence, routeGhostVars>>

(* A verified undo ends attempt() as Failed, and rollback() as Ready with  *)
(* the capture dropped; any doubt is RecoveryRequired.                     *)
VerifyUndone ==
  /\ routeStep \in {"verifyUndo", "verifyRestore"}
  /\ \/ /\ RouteRestored
        /\ routeMutated' = FALSE /\ rollbackVerified' = TRUE
        /\ \/ routeStep = "verifyUndo" /\ ReturnRoute("Failed") /\ UNCHANGED routeCaptureVars
           \/ /\ routeStep = "verifyRestore" /\ ReturnRoute("Ready")
              /\ routeBefore' = NoCapture /\ beforeEvidence' = NoCapture
     \/ ReturnRoute("RecoveryRequired") /\ UNCHANGED routeKept
  /\ UNCHANGED <<routeWorldVars, routeEvidence, routeGhostVars>>

(* rollback() needs the target endpoint, and a mutation to take back.      *)
RollbackRoute ==
  /\ routeStep = "idle"
  /\ \/ ~targetPresent /\ ReturnRoute("RecoveryRequired")
     \/ targetPresent /\ ~routeMutated /\ ReturnRoute("Ready")
     \/ /\ targetPresent /\ routeMutated
        /\ IF routeBefore = NoCapture THEN ReturnRoute("RecoveryRequired")
                                      ELSE ContinueRoute("restore")
  /\ UNCHANGED <<routeWorldVars, routeKept, routeEvidence, routeGhostVars>>

(* The user moves a session, one ends or starts, or the target endpoint is *)
(* unplugged or plugged in.                                                *)
RouteWorldMoves ==
  /\ \/ \E s \in Session, place \in RoutePlace :
          /\ endpointOf' = [endpointOf EXCEPT ![s] = place]
          /\ movedByRoute' = movedByRoute \ {s}
          /\ disturbed' = (disturbed \/ (routeStep # "idle" /\ place # "none"))
          /\ UNCHANGED targetPresent
     \/ targetPresent' = ~targetPresent /\ UNCHANGED <<endpointOf, movedByRoute, disturbed>>
  /\ UNCHANGED <<routeStatusVars, routeCaptureVars, routeStep, routeEvidence, repeated>>

TransactionNext ==
  \/ AttemptRoute \/ CaptureRoute \/ ApplyRoute \/ VerifyRoute \/ UndoRoute \/ VerifyUndone
  \/ RollbackRoute \/ RouteWorldMoves

TransactionSpec == TransactionInit /\ [][TransactionNext]_transactionVars

-----------------------------------------------------------------------------
(* Type invariant of the transaction.                                      *)
TransactionTypeOK ==
  /\ {endpointOf, routeEvidence} \subseteq [Session -> RoutePlace]
  /\ {targetPresent, routeMutated, rollbackVerified} \subseteq BOOLEAN
  /\ routePhase \in RoutePhase /\ routeStep \in RouteStep
  /\ routeBefore \in [Session -> RoutePlace] \cup {NoCapture}
  /\ beforeEvidence \in [Session -> RoutePlace] \cup {NoCapture}
  /\ movedByRoute \subseteq Session /\ {repeated, disturbed} \subseteq BOOLEAN

(* "Once apply is invoked, assume mutation may have occurred until exact   *)
(* rollback is receiver-verified": between calls a transaction that says   *)
(* it has mutated nothing has left no session on the target.  The code     *)
(* does not keep this: a second attempt() that finds the sessions on the   *)
(* target answers Satisfied and forgets its own mutation.                  *)
MutationRemembered == routeStep = "idle" /\ ~routeMutated => movedByRoute = {}

(* The same for a transaction whose attempt() is not repeated while its    *)
(* mutation is pending and whose sessions the user leaves alone during a   *)
(* call, whichever sessions the backend moves and whatever it answers.     *)
UndoneOrRemembered == ~repeated /\ ~disturbed => MutationRemembered

(* The pending mutation can be taken back: what it needs was captured.     *)
MutationHasCapture == routeMutated => routeBefore # NoCapture /\ beforeEvidence # NoCapture

(* The safety of the transaction: what it has changed it knows of, and can *)
(* take back.                                                              *)
MutationIsKept == UndoneOrRemembered /\ MutationHasCapture
=============================================================================
