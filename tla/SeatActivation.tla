--------------------------- MODULE SeatActivation ---------------------------
(***************************************************************************)
(* The lifecycle of each Seat's game (SeatGameLifecycle) over the instance *)
(* that activates the resources of its launch plan one after the other and *)
(* takes them back in reverse order (PlannedSeatGameInstance).             *)
(*                                                                         *)
(* A command holds the lifecycle's lock, a second one is refused as Busy,  *)
(* and so is one with the correlation id of an earlier command; neither    *)
(* changes anything.  What a resource really is can differ from what its   *)
(* operations report; only verifySafe is trusted when it says yes.  The    *)
(* game's process may exit at any moment.                                  *)
(***************************************************************************)
EXTENDS Naturals, Sequences, FiniteSets

CONSTANTS
  GameSeat,          \* the Seats of this runtime, at most two
  PlanOrder,         \* the resources of a plan, in the order of activation
  MaxGames           \* bound of the model: games started on a Seat

ASSUME ActivationAssumption ==
  /\ PlanOrder \in Seq({"Recovery", "Process", "Window", "Display", "Input",
                        "Controller", "Audio"})
  /\ \E i \in 1..Len(PlanOrder) : PlanOrder[i] = "Process"
  /\ GameSeat # {} /\ MaxGames \in Nat

VARIABLES
  phase,             \* the phase of each Seat
  games,             \* its generation
  returnAsked,       \* wholeMachineReturnRequested_
  instance,          \* the retained instance of each Seat, {} without one
  activeNow,         \* what of each Seat's resources is really active
  filesChanged,      \* the compatibility transaction of each Seat is open
  command            \* what holds the lock, and where it is

activationVars ==
  <<phase, games, returnAsked, instance, activeNow, filesChanged, command>>

Phase == {"Idle", "Planning", "Starting", "Playing", "Stopping", "Degraded",
          "RecoveryRequired"}

(* The number of resources prepared so far.                                *)
Instance == [prepared : 0..Len(PlanOrder), started : BOOLEAN]
Fresh == [prepared |-> 0, started |-> FALSE]

(* seats: those to clean up yet; undone: the pass has found no failure.    *)
Command ==
  [op : {"none", "start", "stop", "exit", "crash", "reconcile", "emergency"},
   place : {"free", "hook", "prepare", "activate", "runtime", "rollback", "verify"},
   seat : GameSeat, rest : SUBSET GameSeat, at : 0..Len(PlanOrder) + 1,
   undone : BOOLEAN, first : BOOLEAN]

NoCommand == [op |-> "none", place |-> "free", seat |-> CHOOSE s \in GameSeat : TRUE,
              rest |-> {}, at |-> 0, undone |-> TRUE, first |-> FALSE]

ActivationInit ==
  /\ phase = [s \in GameSeat |-> "Idle"] /\ games = [s \in GameSeat |-> 0]
  /\ returnAsked = FALSE /\ instance = [s \in GameSeat |-> {}]
  /\ activeNow = [s \in GameSeat |-> {}]
  /\ filesChanged = [s \in GameSeat |-> FALSE] /\ command = NoCommand

-----------------------------------------------------------------------------
Unlocked == command.op = "none"
The(s) == CHOOSE i \in instance[s] : TRUE
Running(s) == \E i \in instance[s] : i.started /\ "Process" \in activeNow[s]

AllIdle(phases) == \A s \in GameSeat : phases[s] = "Idle"

(* updateReturnPolicyLocked                                                *)
Settle(s, newPhase) ==
  /\ phase' = [phase EXCEPT ![s] = newPhase]
  /\ returnAsked' = AllIdle(phase')

AssignGame(s) ==
  /\ Unlocked /\ phase[s] = "Idle"
  /\ phase' = [phase EXCEPT ![s] = "Planning"] /\ returnAsked' = FALSE
  /\ UNCHANGED <<games, instance, activeNow, filesChanged, command>>

Do(op, place, s, rest) ==
  command' = [NoCommand EXCEPT !.op = op, !.place = place, !.seat = s, !.rest = rest]

(* The factory makes an instance for this binding, or the plan is dropped. *)
StartGame(s) ==
  /\ Unlocked /\ phase[s] = "Planning" /\ games[s] < MaxGames
  /\ \/ Settle(s, "Idle") /\ UNCHANGED <<instance, command>>
     \/ /\ instance' = [instance EXCEPT ![s] = {Fresh}]
        /\ phase' = [phase EXCEPT ![s] = "Starting"]
        /\ Do("start", "hook", s, {}) /\ UNCHANGED returnAsked
  /\ UNCHANGED <<games, activeNow, filesChanged>>

(* One pass of rollbackActivation over what was prepared, and of           *)
(* verifySafeActivation after it.  The first pass is failAndRollback.      *)
RollBack(first) ==
  command' = [command EXCEPT !.place = "rollback", !.undone = TRUE, !.first = first,
                !.at = The(command.seat).prepared]

(* prepare() of the hook; when it fails start() ends, and stop() follows.  *)
PrepareHook ==
  LET s == command.seat IN
  /\ command.place = "hook"
  /\ filesChanged' \in {filesChanged, [filesChanged EXCEPT ![s] = TRUE]}
  /\ \/ filesChanged'[s] /\ command' = [command EXCEPT !.place = "prepare"]
     \/ RollBack(FALSE)
  /\ UNCHANGED <<phase, games, returnAsked, instance, activeNow>>

(* Creating or preparing a resource.                                       *)
PrepareResource ==
  LET s == command.seat  n == The(s).prepared IN
  /\ command.place = "prepare"
  /\ \/ /\ n < Len(PlanOrder)
        /\ instance' = [instance EXCEPT ![s] = {[The(s) EXCEPT !.prepared = n + 1]}]
        /\ UNCHANGED command
     \/ n < Len(PlanOrder) /\ RollBack(TRUE) /\ UNCHANGED instance
     \/ /\ n = Len(PlanOrder)
        /\ command' = [command EXCEPT !.place = "activate", !.at = 1]
        /\ UNCHANGED instance
  /\ UNCHANGED <<phase, games, returnAsked, activeNow, filesChanged>>

(* Activation with its verification, and the hook's boundaries around it.  *)
ActivateResource ==
  LET s == command.seat
      on == [activeNow EXCEPT ![s] = @ \cup {PlanOrder[command.at]}] IN
  /\ command.place = "activate"
  /\ \/ /\ activeNow' = on
        /\ command' = IF command.at = Len(PlanOrder)
                        THEN [command EXCEPT !.place = "runtime"]
                        ELSE [command EXCEPT !.at = @ + 1]
     \/ activeNow' \in {on, activeNow} /\ RollBack(TRUE)
  /\ UNCHANGED <<phase, games, returnAsked, instance, filesChanged>>

(* The last boundary; a process that is not running any more is a failure. *)
FinishStart ==
  LET s == command.seat
      started == [The(s) EXCEPT !.started = TRUE] IN
  /\ command.place = "runtime"
  /\ \/ /\ "Process" \in activeNow[s]
        /\ instance' = [instance EXCEPT ![s] = {started}]
        /\ phase' = [phase EXCEPT ![s] = "Playing"]
        /\ games' = [games EXCEPT ![s] = @ + 1]
        /\ returnAsked' = FALSE /\ command' = NoCommand
     \/ /\ "Process" \notin activeNow[s]
        /\ instance' = [instance EXCEPT ![s] = {started}]
        /\ RollBack(FALSE) /\ UNCHANGED <<phase, games, returnAsked>>
     \/ RollBack(TRUE) /\ UNCHANGED <<phase, games, returnAsked, instance>>
  /\ UNCHANGED <<activeNow, filesChanged>>

-----------------------------------------------------------------------------
(* rollbackLifecycle: before the Recovery resource, which is the outermost *)
(* one, or at the end when there is none; the files of a game are restored *)
(* by it.                                                                  *)
HookTurn(s) ==
  IF command.at = 0 THEN "Recovery" \notin {PlanOrder[i] : i \in 1..The(s).prepared}
                    ELSE PlanOrder[command.at] = "Recovery"

(* One resource; a failure does not keep the others from being tried.      *)
RollbackResource ==
  LET s == command.seat  at == command.at IN
  /\ command.place = "rollback"
  /\ \E undone \in BOOLEAN, files \in BOOLEAN :
       /\ files => filesChanged[s]
       /\ HookTurn(s) \/ files = filesChanged[s]
       /\ activeNow' \in {activeNow,
            IF at = 0 THEN activeNow ELSE [activeNow EXCEPT ![s] = @ \ {PlanOrder[at]}]}
       /\ filesChanged' = [filesChanged EXCEPT ![s] = files]
       /\ command' = [command EXCEPT !.undone = @ /\ undone,
                        !.place = IF at = 0 THEN "verify" ELSE "rollback",
                        !.at = IF at = 0 THEN 0 ELSE at - 1]
  /\ UNCHANGED <<phase, games, returnAsked, instance>>

(* Everything prepared is verified to be safe, the hook included.          *)
SafeFor(s) ==
  activeNow[s] \cap {PlanOrder[i] : i \in 1..The(s).prepared} = {} /\ ~filesChanged[s]

(* After the last Seat the command is over.                                *)
NextSeat ==
  IF command.rest = {} THEN command' = NoCommand
  ELSE LET s == CHOOSE t \in command.rest : TRUE IN
       command' = [command EXCEPT !.seat = s, !.rest = @ \ {s}, !.place = "rollback",
                     !.undone = TRUE, !.first = FALSE, !.at = The(s).prepared]

Cleaned ==
  IF command.op = "crash" THEN "Degraded" ELSE "Idle"

(* Mutant of VerifyCleanup: a failed cleanup drops the instance.           *)
VerifyCleanupDrops ==
  LET s == command.seat IN
  /\ command.place = "verify" /\ ~command.first
  /\ \/ SafeFor(s) /\ command.undone /\ Settle(s, Cleaned)
     \/ phase' = [phase EXCEPT ![s] = "RecoveryRequired"] /\ UNCHANGED returnAsked
  /\ instance' = [instance EXCEPT ![s] = {}]
  /\ NextSeat
  /\ UNCHANGED <<games, activeNow, filesChanged>>

(* verifySafeActivation may fail for any reason.  After the pass that is   *)
(* part of start() the lifecycle stops the instance once more; after that  *)
(* an instance that is not clean is retained.  An emergency asks for the   *)
(* return only when every Seat was cleaned.                                *)
VerifyCleanup ==
  LET s == command.seat IN
  /\ command.place = "verify"
  /\ \/ /\ SafeFor(s) /\ command.undone /\ command.first
        /\ instance' = [instance EXCEPT ![s] = {[The(s) EXCEPT !.prepared = 0]}]
        /\ command' = [command EXCEPT !.place = "rollback", !.first = FALSE, !.at = 0]
        /\ UNCHANGED <<phase, returnAsked>>
     \/ /\ command.first /\ RollBack(FALSE)
        /\ UNCHANGED <<phase, returnAsked, instance>>
     \/ /\ SafeFor(s) /\ command.undone /\ ~command.first
        /\ instance' = [instance EXCEPT ![s] = {}]
        /\ Settle(s, Cleaned) /\ NextSeat
     \/ /\ ~command.first
        /\ instance' = [instance EXCEPT ![s] = {[The(s) EXCEPT !.started = FALSE]}]
        /\ phase' = [phase EXCEPT ![s] = "RecoveryRequired"]
        /\ returnAsked' = (IF command.op = "stop" THEN returnAsked ELSE FALSE)
        /\ NextSeat
  /\ UNCHANGED <<games, activeNow, filesChanged>>

-----------------------------------------------------------------------------
CleanUp(op, seats) ==
  LET s == CHOOSE t \in seats : TRUE IN
  command' = [NoCommand EXCEPT !.op = op, !.place = "rollback", !.seat = s,
                !.rest = seats \ {s}, !.at = The(s).prepared]

(* A planned game is cancelled, an exited one acknowledged, a stopped one  *)
(* satisfied; any other is stopped, again and again if it has to be.       *)
StopGame(s) ==
  /\ Unlocked
  /\ \/ /\ phase[s] \in {"Idle", "Planning", "Degraded"}
        /\ Settle(s, "Idle") /\ UNCHANGED command
     \/ /\ phase[s] \notin {"Idle", "Planning", "Degraded"} /\ instance[s] # {}
        /\ phase' = [phase EXCEPT ![s] = "Stopping"]
        /\ CleanUp("stop", {s}) /\ UNCHANGED returnAsked
  /\ UNCHANGED <<games, instance, activeNow, filesChanged>>

(* Mutant of ObserveTargetExit: the exit of the process is the cleanup.    *)
ObserveTargetExitOnly(s) ==
  /\ Unlocked /\ phase[s] = "Playing" /\ instance[s] # {} /\ ~Running(s)
  /\ instance' = [instance EXCEPT ![s] = {}] /\ Settle(s, "Idle")
  /\ UNCHANGED <<games, activeNow, filesChanged, command>>

(* The exit of a process does not prove that anything else was restored.   *)
ObserveTargetExit(s) ==
  /\ Unlocked /\ phase[s] = "Playing" /\ instance[s] # {} /\ ~Running(s)
  /\ CleanUp("exit", {s}) \/ CleanUp("crash", {s})
  /\ UNCHANGED <<phase, games, returnAsked, instance, activeNow, filesChanged>>

Reconcile ==
  LET exited == {s \in GameSeat :
                   phase[s] = "Playing" /\ instance[s] # {} /\ ~Running(s)} IN
  /\ Unlocked
  /\ IF exited = {} THEN returnAsked' = AllIdle(phase) /\ UNCHANGED command
                    ELSE CleanUp("reconcile", exited) /\ UNCHANGED returnAsked
  /\ UNCHANGED <<phase, games, instance, activeNow, filesChanged>>

(* Seats without an instance are Idle at once.                             *)
EmergencyStopAll ==
  LET held == {s \in GameSeat : instance[s] # {}} IN
  /\ Unlocked
  /\ phase' = [s \in GameSeat |-> IF s \in held THEN phase[s] ELSE "Idle"]
  /\ IF held = {} THEN returnAsked' = TRUE /\ UNCHANGED command
                  ELSE CleanUp("emergency", held) /\ UNCHANGED returnAsked
  /\ UNCHANGED <<games, instance, activeNow, filesChanged>>

ProcessExits(s) ==
  /\ "Process" \in activeNow[s]
  /\ activeNow' = [activeNow EXCEPT ![s] = @ \ {"Process"}]
  /\ UNCHANGED <<phase, games, returnAsked, instance, filesChanged, command>>

ActivationNext ==
  \/ \E s \in GameSeat :
       \/ AssignGame(s) \/ StartGame(s) \/ StopGame(s) \/ ObserveTargetExit(s)
       \/ ProcessExits(s)
  \/ PrepareHook \/ PrepareResource \/ ActivateResource \/ FinishStart
  \/ RollbackResource \/ VerifyCleanup \/ Reconcile \/ EmergencyStopAll

ActivationSpec == ActivationInit /\ [][ActivationNext]_activationVars

-----------------------------------------------------------------------------
(* Type invariant of the Seats' activations.                               *)
ActivationTypeOK ==
  /\ phase \in [GameSeat -> Phase] /\ games \in [GameSeat -> 0..MaxGames]
  /\ returnAsked \in BOOLEAN
  /\ \A s \in GameSeat : instance[s] \subseteq Instance /\ Cardinality(instance[s]) <= 1
  /\ activeNow \in [GameSeat -> SUBSET {PlanOrder[i] : i \in 1..Len(PlanOrder)}]
  /\ filesChanged \in [GameSeat -> BOOLEAN] /\ command \in Command

(* A Seat that may be given a game, or be left, has nothing active of an   *)
(* earlier one, whichever operations of its resources failed or lied.      *)
RestingSeatIsClean ==
  \A s \in GameSeat :
    phase[s] \in {"Idle", "Planning", "Degraded"} =>
      activeNow[s] = {} /\ ~filesChanged[s]

(* Something active is held by an instance that can be stopped again.      *)
ActiveIsHeld ==
  \A s \in GameSeat :
    activeNow[s] # {} \/ filesChanged[s] =>
      \E i \in instance[s] :
        activeNow[s] \subseteq {PlanOrder[k] : k \in 1..i.prepared}

(* The return to the ordinary desktop is asked for only when every Seat is *)
(* at rest.                                                                *)
ReturnIsSafe == returnAsked /\ Unlocked => AllIdle(phase)

SeatsAreCleaned == RestingSeatIsClean /\ ActiveIsHeld /\ ReturnIsSafe
=============================================================================
