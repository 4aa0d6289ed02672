----------------------------- MODULE GameLauncher -----------------------------
(***************************************************************************)
(* GameLauncher: the process tree of each Seat's game, from the suspended  *)
(* root to the verified stop.                                              *)
(*                                                                         *)
(* A launch, a stop and the routing of an input event each run under the   *)
(* launcher's mutex from beginning to end.  A launch is a chain of steps,  *)
(* each of which may fail; while it runs the created process may die, UI   *)
(* clients take and give back their lease, and the host may die.  The      *)
(* authority state and its steps are SeatAuthority's.                      *)
(*                                                                         *)
(* Simplifications: descendants of a root are one flag; window placement   *)
(* is a step that succeeds or fails; what the Seat's configuration asks    *)
(* for (input isolation, a window on an assigned display) is chosen at the *)
(* launch, a controller is asked for when the Seat has a binding.          *)
(***************************************************************************)
EXTENDS SeatAuthority

CONSTANTS
  StopFails,         \* what may fail of a Seat's stop: "terminate", "verify"
  KillFails          \* killing a process outside of any Job may fail

ASSUME LauncherAssumption ==
  /\ StopFails \in [Seat -> SUBSET {"terminate", "verify"}]
  /\ KillFails \in BOOLEAN

VARIABLES
  tree,              \* the process trees, named by their exact root process
  seatProcess,       \* seatProcesses_
  launch             \* the launch that holds processMutex_, or NONE

launcherVars == <<authorityVars, tree, seatProcess, launch>>

(* A terminated process may linger: it runs no more, but still exists.     *)
Life == {"suspended", "running", "terminated", "gone"}

Tree ==
  [seat : Seat \cup {NONE}, root : Life, children : Life \ {"suspended"},
   inJob : BOOLEAN]

NotCreated ==
  [seat |-> NONE, root |-> "gone", children |-> "gone", inJob |-> FALSE]

(* What the configuration of the Seat asks of a launch.                    *)
Plan == [input : BOOLEAN, xinput : BOOLEAN, display : BOOLEAN]

Launch ==
  [seat : Seat, token : ActivationToken, plan : Plan,
   process : Process \cup {NONE},
   step : {"activated", "prepared", "created", "recorded", "published",
           "tracked", "isolated", "resumed"}]

(* inputSession: none yet, working, or unable to deliver.                  *)
SeatProcess ==
  [token : ActivationToken, plan : Plan, process : Process,
   input : {"none", "active", "broken"}]

ASSUME AbsenceAssumption ==
  NONE \notin Seat /\ NONE \notin SeatProcess /\ NONE \notin Launch

Empty(t) == t.root = "gone" /\ t.children = "gone"

Running(t) == "running" \in {t.root, t.children}

(* TerminateJobObject reaches every process of the Job.                    *)
Doomed(life) == IF life = "gone" THEN "gone" ELSE "terminated"

Terminated(t) == [t EXCEPT !.root = Doomed(@), !.children = Doomed(@)]

Stopped(t) == [t EXCEPT !.root = "gone", !.children = "gone"]

LauncherInit ==
  /\ AuthorityInit
  /\ tree = [p \in Process |-> NotCreated]
  /\ seatProcess = [s \in Seat |-> NONE]
  /\ launch = NONE

-----------------------------------------------------------------------------
(* stopWorkspaceGame.                                                      *)

(* Mutant of StopVerified: the lease ends once the Job was told to stop.   *)
StopUnverified(s) ==
  /\ ReleaseLease(seatProcess[s].token)
  /\ tree' = [tree EXCEPT ![seatProcess[s].process] = Terminated(@)]
  /\ seatProcess' = [seatProcess EXCEPT ![s] = NONE]

(* The Job was seen empty and the root process has ended: the helpers go,  *)
(* then the lease, then the record.                                        *)
StopVerified(s) ==
  /\ ReleaseLease(seatProcess[s].token)
  /\ tree' = [tree EXCEPT ![seatProcess[s].process] = Stopped(@)]
  /\ seatProcess' = [seatProcess EXCEPT ![s] = NONE]

(* The Job cannot be queried or terminated, or it was terminated but does  *)
(* not become empty in time.                                               *)
TreeAfterGivingUp(s) ==
  \/ "terminate" \in StopFails[s] /\ UNCHANGED tree
  \/ /\ "verify" \in StopFails[s]
     /\ tree' = [tree EXCEPT ![seatProcess[s].process] = Terminated(@)]

(* Record, helpers and lease then stay.                                    *)
StopGivesUp(s) ==
  /\ TreeAfterGivingUp(s)
  /\ UNCHANGED <<authorityVars, seatProcess>>

StopWorkspaceGame(s) ==
  /\ launch = NONE
  /\ seatProcess[s] # NONE
  /\ StopVerified(s) \/ StopGivesUp(s)
  /\ UNCHANGED launch

(* Mutant of ReapExitedGame: the record stays after the lease has ended.   *)
ReapKeepsRecord(s) ==
  /\ launch = NONE
  /\ seatProcess[s] # NONE
  /\ Empty(tree[seatProcess[s].process])
  /\ ReleaseLease(seatProcess[s].token)
  /\ UNCHANGED <<tree, seatProcess, launch>>

(* reapExitedGames, on every request that finds the mutex free: a Seat     *)
(* whose Job is empty gets its helpers, lease and record removed.          *)
ReapExitedGame(s) ==
  /\ launch = NONE
  /\ seatProcess[s] # NONE
  /\ Empty(tree[seatProcess[s].process])
  /\ ReleaseLease(seatProcess[s].token)
  /\ seatProcess' = [seatProcess EXCEPT ![s] = NONE]
  /\ UNCHANGED <<tree, launch>>

(* Mutant of RoutePhysicalInput: the failure is reported, nothing stopped. *)
RouteReportsOnly(s) ==
  /\ launch = NONE
  /\ seatProcess[s] # NONE
  /\ seatProcess[s].input = "active"
  /\ seatProcess' = [seatProcess EXCEPT ![s].input = "broken"]
  /\ UNCHANGED <<authorityVars, tree, launch>>

(* routePhysicalInput, when the event cannot be delivered: the Seat is     *)
(* stopped at once.  A delivered event changes nothing here.               *)
RoutePhysicalInput(s) ==
  /\ launch = NONE
  /\ seatProcess[s] # NONE
  /\ seatProcess[s].input = "active"
  /\ \/ StopVerified(s)
     \/ /\ TreeAfterGivingUp(s)
        /\ seatProcess' = [seatProcess EXCEPT ![s].input = "broken"]
        /\ UNCHANGED authorityVars
  /\ UNCHANGED launch

-----------------------------------------------------------------------------
(* launchGameForWorkspaceImpl.                                             *)

At(step) == launch # NONE /\ launch.step = step

Advance(step) == launch' = [launch EXCEPT !.step = step]

BeginLaunch(s, plan) ==
  /\ launch = NONE
  /\ seatProcess[s] = NONE
  /\ plan.xinput = (binding[s] # NONE)
  /\ AcquireLease(s, "game")
  /\ launch' = [seat |-> s, plan |-> plan, process |-> NONE,
                step |-> "activated",
                token |-> [seat |-> s, generation |-> generation'[s],
                           class |-> "game"]]
  /\ UNCHANGED <<tree, seatProcess>>

(* The binding is taken over under the game's own token, revalidated       *)
(* against the scan of this launch, and its virtual controller prepared.   *)
PrepareController ==
  /\ At("activated")
  /\ IF launch.plan.xinput
       THEN \E inventory \in ScanResults :
              BindController(launch.token, binding[launch.seat], inventory)
       ELSE UNCHANGED authorityVars
  /\ Advance("prepared")
  /\ UNCHANGED <<tree, seatProcess>>

(* endActivation: nothing was created yet.                                 *)
EndActivation ==
  /\ (At("activated") /\ launch.plan.xinput) \/ At("prepared")
  /\ ReleaseLease(launch.token)
  /\ launch' = NONE
  /\ UNCHANGED <<tree, seatProcess>>

CreateSuspended(p) ==
  /\ At("prepared")
  /\ tree[p].seat = NONE
  /\ tree' = [tree EXCEPT ![p] = [NotCreated EXCEPT !.seat = launch.seat,
                                                    !.root = "suspended"]]
  /\ launch' = [launch EXCEPT !.step = "created", !.process = p]
  /\ UNCHANGED <<authorityVars, seatProcess>>

(* terminateCreatedProcess neither reports nor checks its result.          *)
AfterKill(life) == {"gone"} \cup {l \in {life, Doomed(life)} : KillFails}

(* The Job cannot be created, or the process not be assigned to it.        *)
JobFails ==
  /\ At("created")
  /\ \E life \in AfterKill(tree[launch.process].root) :
       tree' = [tree EXCEPT ![launch.process].root = life]
  /\ ReleaseLease(launch.token)
  /\ launch' = NONE
  /\ UNCHANGED seatProcess

AssignToJob ==
  /\ At("created")
  /\ tree' = [tree EXCEPT ![launch.process].inJob = TRUE]
  /\ seatProcess' = [seatProcess EXCEPT ![launch.seat] =
       [token |-> launch.token, plan |-> launch.plan,
        process |-> launch.process, input |-> "none"]]
  /\ Advance("recorded")
  /\ UNCHANGED authorityVars

PublishIdentity ==
  /\ At("recorded")
  /\ PublishProcess(launch.token, launch.process)
  /\ Advance("published")
  /\ UNCHANGED <<tree, seatProcess>>

(* The window tracker starts, if the Seat has an assigned display.         *)
TrackWindow ==
  /\ At("published")
  /\ Advance("tracked")
  /\ UNCHANGED <<authorityVars, tree, seatProcess>>

WantsIsolation(plan) == plan.input \/ plan.xinput

(* Mutant of IsolateInput: a controller alone asks for no redirection.     *)
IsolateKeyboardAndMouse ==
  /\ At("tracked")
  /\ seatProcess' = IF launch.plan.input
                      THEN [seatProcess EXCEPT ![launch.seat].input = "active"]
                      ELSE seatProcess
  /\ Advance("isolated")
  /\ UNCHANGED <<authorityVars, tree>>

(* ExternalInputSession::attach, while the root is suspended.              *)
IsolateInput ==
  /\ At("tracked")
  /\ seatProcess' = IF WantsIsolation(launch.plan)
                      THEN [seatProcess EXCEPT ![launch.seat].input = "active"]
                      ELSE seatProcess
  /\ Advance("isolated")
  /\ UNCHANGED <<authorityVars, tree>>

(* ResumeThread does nothing to a process that died in the meantime.       *)
Resume ==
  /\ At("isolated")
  /\ tree' = [tree EXCEPT ![launch.process].root =
       IF @ = "suspended" THEN "running" ELSE @]
  /\ Advance("resumed")
  /\ UNCHANGED <<authorityVars, seatProcess>>

(* The first window is on its display, or none was asked for.              *)
FinishLaunch ==
  /\ At("resumed")
  /\ launch' = NONE
  /\ UNCHANGED <<authorityVars, tree, seatProcess>>

(* A step after the record was made fails: the launch stops its own Seat   *)
(* and ignores whether that worked.                                        *)
RollBackLaunch ==
  /\ \/ At("recorded") \/ At("isolated")
     \/ At("published") /\ launch.plan.display
     \/ At("tracked") /\ WantsIsolation(launch.plan)
     \/ At("resumed") /\ launch.plan.display
  /\ StopVerified(launch.seat) \/ StopGivesUp(launch.seat)
  /\ launch' = NONE

-----------------------------------------------------------------------------
(* The processes themselves, and the death of the host.                    *)

(* A process ends, by itself, by another hand, or as it was told to.       *)
ProcessEnds(p) ==
  /\ \/ /\ tree[p].root # "gone"
        /\ tree' = [tree EXCEPT ![p].root = "gone"]
     \/ /\ tree[p].children # "gone"
        /\ tree' = [tree EXCEPT ![p].children = "gone"]
  /\ UNCHANGED <<authorityVars, seatProcess, launch>>

(* A launcher hands over to the game: descendants stay in the Job.         *)
Spawn(p) ==
  /\ tree[p].root = "running"
  /\ tree[p].children = "gone"
  /\ tree' = [tree EXCEPT ![p].children = "running"]
  /\ UNCHANGED <<authorityVars, seatProcess, launch>>

(* Mutant of KilledOnClose: the limit is not set on the Job.               *)
SurvivesClose(t) == t

(* The last handle of a strict Seat Job is closed.                         *)
KilledOnClose(t) == IF t.inJob THEN Terminated(t) ELSE t

(* The host ends, orderly or not, and its Job handles are closed; a new    *)
(* host starts from nothing.                                               *)
HostEnds ==
  /\ tree' = [p \in Process |-> KilledOnClose(tree[p])]
  /\ seatProcess' = [s \in Seat |-> NONE]
  /\ launch' = NONE
  /\ generation' = [s \in Seat |-> 0]
  /\ leases' = [s \in Seat |-> {}]
  /\ process' = [s \in Seat |-> NONE]
  /\ window' = [s \in Seat |-> NONE]
  /\ binding' = [s \in Seat |-> NONE]

(* UI clients, who act on the host without the launcher's mutex.           *)
Configure ==
  /\ \E s \in Seat :
       LET token == [seat |-> s, generation |-> generation[s], class |-> "ui"]
       IN \/ AcquireLease(s, "ui")
          \/ ReleaseLease(token)
          \/ ClearController(token)
          \/ \E b \in SeatBinding, inventory \in ScanResults :
               BindController(token, b, inventory)
  /\ UNCHANGED <<tree, seatProcess, launch>>

LaunchStep ==
  \/ PrepareController
  \/ EndActivation
  \/ \E p \in Process : CreateSuspended(p)
  \/ JobFails
  \/ AssignToJob
  \/ PublishIdentity
  \/ TrackWindow
  \/ IsolateInput
  \/ Resume
  \/ FinishLaunch
  \/ RollBackLaunch

LauncherNext ==
  \/ \E s \in Seat :
       \/ \E plan \in Plan : BeginLaunch(s, plan)
       \/ StopWorkspaceGame(s)
       \/ ReapExitedGame(s)
       \/ RoutePhysicalInput(s)
  \/ LaunchStep
  \/ \E p \in Process : ProcessEnds(p) \/ Spawn(p)
  \/ HostEnds
  \/ Configure

LauncherSpec == LauncherInit /\ [][LauncherNext]_launcherVars

(* A launch goes on, every wait of it being bounded.  Requests keep coming:*)
(* the UI polls the host, and each poll reaps.                             *)
FairLauncherSpec ==
  /\ LauncherSpec
  /\ WF_launcherVars(LaunchStep)
  /\ \A s \in Seat : SF_launcherVars(ReapExitedGame(s))

-----------------------------------------------------------------------------
(* Type invariant of the launcher.                                         *)
LauncherTypeOK ==
  /\ AuthorityTypeOK
  /\ tree \in [Process -> Tree]
  /\ seatProcess \in [Seat -> SeatProcess \cup {NONE}]
  /\ launch \in Launch \cup {NONE}

(* Whatever runs belongs to a Seat: it is in the strict Job the launcher   *)
(* has on record, under a current game lease, and published as that Seat's *)
(* process.  This covers failed launches, stops that gave up, and the      *)
(* death of the host at any point.                                         *)
RunningTreeIsOwned ==
  \A p \in Process : Running(tree[p]) =>
    LET s == tree[p].seat
    IN /\ tree[p].inJob
       /\ seatProcess[s] # NONE
       /\ seatProcess[s].process = p
       /\ OwnsGameToken(seatProcess[s].token)
       /\ process[s] = p

(* "Establish every process-local input boundary while the target's        *)
(* primary thread is still suspended": a tree that runs, from its first    *)
(* instruction to its last, has the isolation its Seat asks for; a stop    *)
(* that gives up does not take it away.                                    *)
RunsIsolated ==
  \A s \in Seat :
    /\ seatProcess[s] # NONE
    /\ Running(tree[seatProcess[s].process])
    /\ WantsIsolation(seatProcess[s].plan)
    => seatProcess[s].input # "none"

(* The process the Seat's launch created, recorded already or not.         *)
Launched(s) ==
  (IF seatProcess[s] # NONE THEN {seatProcess[s].process} ELSE {})
  \cup (IF launch # NONE /\ launch.seat = s THEN {launch.process} \ {NONE}
                                           ELSE {})

(* The launcher "ends the GameProcess lease only after the exact owned     *)
(* Job/process has been stopped and verified safe" (ARCHITECTURE.md).      *)
LeaseEndsAfterStop ==
  [][\A s \in Seat :
       /\ "game" \in leases[s]
       /\ "game" \notin leases'[s]
       /\ generation'[s] = generation[s]
       => \A p \in Launched(s) : Empty(tree'[p])]_launcherVars

(* Input that cannot be delivered ends the game: no tree goes on running   *)
(* behind a broken bridge, whether or not its end could be verified in     *)
(* time; only a Job that refuses to be terminated defeats this.            *)
BrokenInputStopsTree ==
  \A s \in Seat :
    /\ seatProcess[s] # NONE
    /\ seatProcess[s].input = "broken"
    /\ "terminate" \notin StopFails[s]
    => ~Running(tree[seatProcess[s].process])

(* A game that ended, however it ended, gives its Seat back.               *)
EndedGameFreesSeat ==
  \A s \in Seat :
    (seatProcess[s] # NONE /\ Empty(tree[seatProcess[s].process]))
      ~> (seatProcess[s] = NONE /\ "game" \notin leases[s])
=============================================================================
