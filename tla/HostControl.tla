----------------------------- MODULE HostControl -----------------------------
(***************************************************************************)
(* hydra_host: RuntimeHost and the HostConnectionSessions that drive it.   *)
(*                                                                         *)
(* Every client connection has a worker thread and a session that keeps    *)
(* the UI leases acquired over it.  A session handles one frame at a time, *)
(* but a handler is not one step: it reads the hardware or the controller  *)
(* inventory before it takes the host mutex, and a launch runs under the   *)
(* launcher's mutex, not the host's.  A handler that does so is split at   *)
(* those points and keeps what it read in `request'.                       *)
(*                                                                         *)
(* The authority state and its steps are SeatAuthority's.                  *)
(*                                                                         *)
(* Abstractions: display, keyboard and mouse assignments obey one rule, so *)
(* a Seat has one `device'; read-only requests are left out, but for the   *)
(* reaping of exited games that precedes each of them; a launch is its     *)
(* three authority steps (the GameLauncher module has the rest).           *)
(***************************************************************************)
EXTENDS SeatAuthority

CONSTANTS
  Conn,              \* client connections (an ended one may be reused)
  Role,              \* roles clients ask for: "observer", "control"
  Device,            \* display, keyboard and mouse identities
  UnprovenDevice,    \* those listed only after physical activity
  Title,             \* titles of games
  MaxRevision        \* UINT64_MAX in the code: the revision saturates

ASSUME HostAssumption ==
  /\ UnprovenDevice \subseteq Device
  /\ MaxRevision \in Nat
  /\ Role \subseteq {"observer", "control"}
  /\ InventorySnapshot \subseteq ScanResults
  /\ NONE \notin Device \cup Title \cup Conn

VARIABLES
  hostState,         \* hydra_host: "running", "stopping" or "down"
  config,            \* hardwareConfigurations_
  disk,              \* seat-config.json
  confirmed,         \* confirmedKeyboardIds_ and confirmedMouseIds_
  tracker,           \* the per-slot memory of controllerInventory_
  presentation,      \* seatRuntimeInfo_: the title shown for each Seat
  revision,          \* authorityRevision_
  session,           \* what each connection may do: its role once greeted
  held,              \* uiLeases_: the generation of each held UI lease, or 0
  request,           \* what the handler of each connection has read so far
  client,            \* is the client at the other end still there
  launching,         \* the connection that holds the launcher's mutex
  game,              \* seatProcesses_ of the launcher
  attached,          \* devices and ...
  pads,              \* ... controllers the operating system lists
  live               \* XInput slots that answer

hostVars == <<hostState, config, disk, confirmed, tracker, presentation,
              revision>>
sessionVars == <<session, held, request, client>>
gameVars == <<launching, game>>
worldVars == <<attached, pads, live>>
controlVars == <<authorityVars, hostVars, sessionVars, gameVars, worldVars>>

Hardware == [device : Device \cup {NONE}, controller : Controller \cup {NONE}]

NoHardware == [device |-> NONE, controller |-> NONE]

(* previousConnected_ and generations_; a slot not yet seen has no edge.   *)
SlotMemory == [seen : BOOLEAN, connected : BOOLEAN, generation : SourceGeneration]

UnseenSlot == [seen |-> FALSE, connected |-> FALSE, generation |-> 0]

Game == [token : ActivationToken, title : Title, exited : BOOLEAN]

ConfigureRequest ==
  [kind : {"configure"}, seat : Seat, hardware : Hardware,
   attached : SUBSET Device, pads : SUBSET Controller]

PairRequest ==
  [kind : {"pair"}, seat : Seat, controller : Controller, slot : Slot,
   scan : InventorySnapshot]

LaunchRequest ==
  [kind : {"launch", "present"}, seat : Seat, title : Title]

Request == ConfigureRequest \cup PairRequest \cup LaunchRequest

ASSUME AbsentRequest == NONE \notin Request \cup Game

HeldToken(c, s) == [seat |-> s, generation |-> held[c][s], class |-> "ui"]

GameToken(s) == [seat |-> s, generation |-> generation[s], class |-> "game"]

(* The revision counts accepted mutations and never wraps.                 *)
NoteMutation ==
  revision' = IF revision = MaxRevision THEN revision ELSE revision + 1

-----------------------------------------------------------------------------
(* ControllerInventory::scan: every slot whose connection changed since    *)
(* the last scan enters a new generation.                                  *)
ScannedSlot(slot) ==
  LET old == tracker[slot]
      now == slot \in live
  IN [seen |-> TRUE, connected |-> now,
      generation |-> CASE ~old.seen -> IF now THEN 1 ELSE 0
                       [] old.seen /\ old.connected # now -> old.generation + 1
                       [] OTHER -> old.generation]

CanScan == \A slot \in Slot : ScannedSlot(slot).generation \in SourceGeneration

Scanned ==
  [authoritative |-> TRUE,
   sources  |-> [slot \in Slot |->
                  [connected |-> ScannedSlot(slot).connected,
                   generation |-> ScannedSlot(slot).generation]],
   physical |-> [p \in Controller |-> IF p \in pads THEN 1 ELSE 0]]

Scan == CanScan /\ tracker' = [slot \in Slot |-> ScannedSlot(slot)]

-----------------------------------------------------------------------------
ControlInit ==
  /\ AuthorityInit
  /\ hostState = "running"
  /\ config = [s \in Seat |-> NoHardware]
  /\ disk = [s \in Seat |-> NoHardware]
  /\ confirmed = {}
  /\ tracker = [slot \in Slot |-> UnseenSlot]
  /\ presentation = [s \in Seat |-> NONE]
  /\ revision = IF MaxRevision = 0 THEN 0 ELSE 1
  /\ session = [c \in Conn |-> "none"]
  /\ held = [c \in Conn |-> [s \in Seat |-> 0]]
  /\ request = [c \in Conn |-> NONE]
  /\ client = [c \in Conn |-> FALSE]
  /\ launching = NONE
  /\ game = [s \in Seat |-> NONE]
  /\ attached = Device
  /\ pads = Controller
  /\ live = Slot

(* A client connects; the hello of the handshake fixes the role.           *)
Connect(c, role) ==
  /\ hostState = "running"
  /\ session[c] = "none"
  /\ session' = [session EXCEPT ![c] = role]
  /\ client' = [client EXCEPT ![c] = TRUE]
  /\ UNCHANGED <<authorityVars, hostVars, held, request, gameVars, worldVars>>

ClientDies(c) ==
  /\ client[c]
  /\ client' = [client EXCEPT ![c] = FALSE]
  /\ UNCHANGED <<authorityVars, hostVars, session, held, request, gameVars,
                 worldVars>>

(* A mutating frame is handled for a Control client whose session is idle. *)
Accepts(c) ==
  /\ hostState = "running"
  /\ session[c] = "control"
  /\ client[c]
  /\ request[c] = NONE

(* The frame also needs the Seat's UI lease held by this connection.       *)
AcceptsFor(c, s) == Accepts(c) /\ held[c][s] # 0

HandleAcquireUiLease(c, s) ==
  /\ Accepts(c)
  /\ held[c][s] = 0
  /\ AcquireLease(s, "ui")
  /\ held' = [held EXCEPT ![c][s] = generation'[s]]
  /\ NoteMutation
  /\ UNCHANGED <<hostState, config, disk, confirmed, tracker, presentation,
                 session, request, client, gameVars, worldVars>>

(* Mutant of DropLease: the snapshot changes under the same revision.      *)
DropLeaseQuietly(c, s) ==
  /\ ReleaseLease(HeldToken(c, s))
  /\ held' = [held EXCEPT ![c][s] = 0]
  /\ UNCHANGED <<hostVars, session, request, client, gameVars, worldVars>>

DropLease(c, s) ==
  /\ ReleaseLease(HeldToken(c, s))
  /\ held' = [held EXCEPT ![c][s] = 0]
  /\ NoteMutation
  /\ UNCHANGED <<hostState, config, disk, confirmed, tracker, presentation,
                 session, request, client, gameVars, worldVars>>

HandleReleaseUiLease(c, s) == AcceptsFor(c, s) /\ DropLease(c, s)

(* Mutants of Ending: a worker that learns of only one of the two.         *)
EndingWithHost(c) ==
  session[c] # "none" /\ request[c] = NONE /\ hostState = "stopping"

EndingWithClient(c) ==
  session[c] # "none" /\ request[c] = NONE /\ ~client[c]

(* The worker notices the end of its client, or the stop of the host, when *)
(* no frame is being handled; the session's destructor then gives every    *)
(* held lease back, one host call each, and the connection is gone.        *)
Ending(c) ==
  /\ session[c] # "none"
  /\ request[c] = NONE
  /\ ~client[c] \/ hostState = "stopping"

ReleaseOnDisconnect(c, s) == Ending(c) /\ held[c][s] # 0 /\ DropLease(c, s)

(* Mutant of CloseSession: the session goes without giving leases back.    *)
CloseSessionLeaks(c) ==
  /\ Ending(c)
  /\ session' = [session EXCEPT ![c] = "none"]
  /\ client' = [client EXCEPT ![c] = FALSE]
  /\ held' = [held EXCEPT ![c] = [s \in Seat |-> 0]]
  /\ UNCHANGED <<authorityVars, hostVars, request, gameVars, worldVars>>

CloseSession(c) ==
  /\ Ending(c)
  /\ \A s \in Seat : held[c][s] = 0
  /\ session' = [session EXCEPT ![c] = "none"]
  /\ client' = [client EXCEPT ![c] = FALSE]
  /\ UNCHANGED <<authorityVars, hostVars, held, request, gameVars, worldVars>>

-----------------------------------------------------------------------------
(* configureSeatHardware: the devices are enumerated before the mutex.     *)
ReadHardware(c, s, hardware) ==
  /\ AcceptsFor(c, s)
  /\ request' = [request EXCEPT ![c] =
       [kind |-> "configure", seat |-> s, hardware |-> hardware,
        attached |-> attached, pads |-> pads]]
  /\ UNCHANGED <<authorityVars, hostVars, session, held, client, gameVars,
                 worldVars>>

(* The lease of the request is still the open epoch's, and no game runs.   *)
ConfigurationOpen(c, s) ==
  OwnsToken(HeldToken(c, s)) /\ "game" \notin leases[s]

(* The enumeration taken earlier lists the device, and one that must prove *)
(* itself by activity has done so or is the one already assigned.          *)
Selectable(r) ==
  /\ \/ r.hardware.device = NONE
     \/ /\ r.hardware.device \in r.attached
        /\ r.hardware.device \in UnprovenDevice =>
             r.hardware.device \in confirmed \cup {config[r.seat].device}
  /\ r.hardware.controller \in r.pads \cup {NONE}

(* Mutant of FreeOfOthers: controllers are not compared.                   *)
FreeOfOthersDevices(s, hardware) ==
  \A o \in Others(s) :
    hardware.device # NONE => hardware.device # config[o].device

FreeOfOthers(s, hardware) ==
  \A o \in Others(s) :
    /\ hardware.device # NONE => hardware.device # config[o].device
    /\ hardware.controller # NONE => hardware.controller # config[o].controller

Assignable(c) ==
  LET r == request[c]
  IN /\ ConfigurationOpen(c, r.seat)
     /\ Selectable(r)
     /\ FreeOfOthers(r.seat, r.hardware)

Idle(c) == request' = [request EXCEPT ![c] = NONE]

Handling(c, kind) == request[c] # NONE /\ request[c].kind = kind

(* Under the mutex: the file is replaced first; a runtime binding to the   *)
(* previous controller is dropped before the new assignment is published.  *)
AssignHardware(c) ==
  LET s == request[c].seat
      hardware == request[c].hardware
  IN /\ Handling(c, "configure")
     /\ Assignable(c)
     /\ hardware # config[s]
     /\ disk' = [config EXCEPT ![s] = hardware]
     /\ config' = [config EXCEPT ![s] = hardware]
     /\ IF hardware.controller # config[s].controller
          THEN ClearController(HeldToken(c, s))
          ELSE UNCHANGED authorityVars
     /\ NoteMutation
     /\ Idle(c)
     /\ UNCHANGED <<hostState, confirmed, tracker, presentation, session, held,
                    client, gameVars, worldVars>>

(* Mutant of AssignNothing: what could not be saved is published.          *)
AssignUnsaved(c) ==
  /\ Handling(c, "configure")
  /\ config' = IF Assignable(c)
                 THEN [config EXCEPT ![request[c].seat] = request[c].hardware]
                 ELSE config
  /\ Idle(c)
  /\ UNCHANGED <<authorityVars, hostState, disk, confirmed, tracker,
                 presentation, revision, session, held, client, gameVars,
                 worldVars>>

(* The request is refused, asks for nothing new, or its save fails.        *)
AssignNothing(c) ==
  /\ Handling(c, "configure")
  /\ Idle(c)
  /\ UNCHANGED <<authorityVars, hostVars, session, held, client, gameVars,
                 worldVars>>

-----------------------------------------------------------------------------
(* pairController: the inventory is scanned before the host mutex.         *)
ScanForPairing(c, s, controller, slot) ==
  /\ AcceptsFor(c, s)
  /\ Scan
  /\ request' = [request EXCEPT ![c] =
       [kind |-> "pair", seat |-> s, controller |-> controller, slot |-> slot,
        scan |-> Scanned]]
  /\ UNCHANGED <<authorityVars, hostState, config, disk, confirmed,
                 presentation, revision, session, held, client, gameVars,
                 worldVars>>

(* The physical enumeration fails: the scan has counted the slots, but no  *)
(* pairing follows from it.                                                *)
ScanFails(c, s) ==
  /\ AcceptsFor(c, s)
  /\ Scan
  /\ UNCHANGED <<authorityVars, hostState, config, disk, confirmed,
                 presentation, revision, sessionVars, gameVars, worldVars>>

(* Mutant of Pairs: the assignment is not consulted again.                 *)
PairsAnyController(c) ==
  LET r == request[c]
  IN ConfigurationOpen(c, r.seat) /\ Pairable(r.controller, r.slot, r.scan)

(* Under the mutex: only the controller assigned to the Seat may be paired.*)
Pairs(c) ==
  LET r == request[c]
  IN /\ ConfigurationOpen(c, r.seat)
     /\ config[r.seat].controller = r.controller
     /\ Pairable(r.controller, r.slot, r.scan)

Paired(r) == PairedBinding(r.seat, r.controller, r.slot, r.scan)

CommitPairing(c) ==
  LET r == request[c]
  IN /\ Handling(c, "pair")
     /\ Pairs(c)
     /\ BindController(HeldToken(c, r.seat), Paired(r), r.scan)
     /\ NoteMutation
     /\ Idle(c)
     /\ UNCHANGED <<hostState, config, disk, confirmed, tracker, presentation,
                    session, held, client, gameVars, worldVars>>

RefusePairing(c) ==
  /\ Handling(c, "pair")
  /\ ~(Pairs(c) /\ Bindable(HeldToken(c, request[c].seat), Paired(request[c]),
                           request[c].scan))
  /\ Idle(c)
  /\ UNCHANGED <<authorityVars, hostVars, session, held, client, gameVars,
                 worldVars>>

-----------------------------------------------------------------------------
(* Mutant of ControllerReady: only an existing binding is examined.        *)
ControllerReadyIfBound(s, scan) ==
  binding[s] # NONE => BindingMatchesInventory(binding[s], scan)

(* LaunchGame.  A Seat with an assigned controller needs a binding to it   *)
(* that a fresh scan confirms; then the launcher takes the game lease.     *)
ControllerReady(s, scan) ==
  config[s].controller # NONE =>
    /\ binding[s] # NONE
    /\ binding[s].controller = config[s].controller
    /\ BindingMatchesInventory(binding[s], scan)

HandleLaunchGame(c, s, title) ==
  /\ AcceptsFor(c, s)
  /\ launching = NONE
  /\ game[s] = NONE
  /\ IF config[s].controller = NONE THEN UNCHANGED tracker ELSE Scan
  /\ ControllerReady(s, Scanned)
  /\ AcquireLease(s, "game")
  /\ launching' = c
  /\ request' = [request EXCEPT ![c] =
       [kind |-> "launch", seat |-> s, title |-> title]]
  /\ NoteMutation
  /\ UNCHANGED <<hostState, config, disk, confirmed, presentation, session,
                 held, client, game, worldVars>>

PublishGame(c, p) ==
  LET s == request[c].seat
  IN /\ Handling(c, "launch")
     /\ PublishProcess(GameToken(s), p)
     /\ game' = [game EXCEPT ![s] =
          [token |-> GameToken(s), title |-> request[c].title, exited |-> FALSE]]
     /\ request' = [request EXCEPT ![c].kind = "present"]
     /\ launching' = NONE
     /\ NoteMutation
     /\ UNCHANGED <<hostState, config, disk, confirmed, tracker, presentation,
                    session, held, client, worldVars>>

(* Mutant of LaunchFails: an early return keeps the activation.            *)
LaunchFailsHeld(c) ==
  /\ Handling(c, "launch")
  /\ launching' = NONE
  /\ Idle(c)
  /\ UNCHANGED <<authorityVars, hostVars, session, held, client, game, worldVars>>

LaunchFails(c) ==
  LET s == request[c].seat
  IN /\ Handling(c, "launch")
     /\ ReleaseLease(GameToken(s))
     /\ presentation' = [presentation EXCEPT ![s] = NONE]
     /\ launching' = NONE
     /\ Idle(c)
     /\ NoteMutation
     /\ UNCHANGED <<hostState, config, disk, confirmed, tracker, session, held,
                    client, game, worldVars>>

(* Mutant of SetPresentation: the game is taken to be running still.       *)
SetPresentationUnchecked(c) ==
  LET s == request[c].seat
  IN /\ Handling(c, "present")
     /\ presentation' = [presentation EXCEPT ![s] = request[c].title]
     /\ NoteMutation
     /\ Idle(c)
     /\ UNCHANGED <<authorityVars, hostState, config, disk, confirmed, tracker,
                    session, held, client, gameVars, worldVars>>

(* setSeatGamePresentation, called once the launcher's mutex is free again.*)
SetPresentation(c) ==
  LET s == request[c].seat
      running == "game" \in leases[s] /\ process[s] # NONE
  IN /\ Handling(c, "present")
     /\ IF running
          THEN NoteMutation /\ presentation' =
                 [presentation EXCEPT ![s] = request[c].title]
          ELSE UNCHANGED <<revision, presentation>>
     /\ Idle(c)
     /\ UNCHANGED <<authorityVars, hostState, config, disk, confirmed, tracker,
                    session, held, client, gameVars, worldVars>>

(* endSeatActivation, called by the launcher with the game's own token.    *)
EndGame(s) ==
  /\ launching = NONE
  /\ game[s] # NONE
  /\ ReleaseLease(game[s].token)
  /\ game' = [game EXCEPT ![s] = NONE]
  /\ presentation' = [presentation EXCEPT ![s] = NONE]
  /\ NoteMutation
  /\ UNCHANGED <<hostState, config, disk, confirmed, tracker, sessionVars,
                 launching, worldVars>>

HandleStopGame(c, s) == AcceptsFor(c, s) /\ EndGame(s)

(* Any request of any greeted client first reaps the games that exited.    *)
ReapBeforeRequest(c, s) ==
  /\ session[c] # "none"
  /\ client[c]
  /\ request[c] = NONE
  /\ game[s] # NONE /\ game[s].exited
  /\ EndGame(s)

GameExits(s) ==
  /\ game[s] # NONE /\ ~game[s].exited
  /\ game' = [game EXCEPT ![s].exited = TRUE]
  /\ UNCHANGED <<authorityVars, hostVars, sessionVars, launching, worldVars>>

-----------------------------------------------------------------------------
(* Raw input from a device: activity proves the device once.               *)
ObservePhysicalInput(d) ==
  /\ hostState = "running"
  /\ d \in attached \ confirmed
  /\ confirmed' = confirmed \cup {d}
  /\ NoteMutation
  /\ UNCHANGED <<authorityVars, hostState, config, disk, tracker, presentation,
                 sessionVars, gameVars, worldVars>>

(* Devices and controllers come and go without the host's knowledge.       *)
Toggle(set, x) == IF x \in set THEN set \ {x} ELSE set \cup {x}

WorldChanges ==
  /\ \/ \E d \in Device : attached' = Toggle(attached, d) /\ UNCHANGED <<pads, live>>
     \/ \E p \in Controller : pads' = Toggle(pads, p) /\ UNCHANGED <<attached, live>>
     \/ \E slot \in Slot : live' = Toggle(live, slot) /\ UNCHANGED <<attached, pads>>
  /\ UNCHANGED <<authorityVars, hostVars, sessionVars, gameVars>>

(* The host process is gone, with everything it kept in memory; its games  *)
(* die with it, being in kill-on-close jobs.                               *)
Forget ==
  /\ generation' = [s \in Seat |-> 0]
  /\ leases' = [s \in Seat |-> {}]
  /\ process' = [s \in Seat |-> NONE]
  /\ window' = [s \in Seat |-> NONE]
  /\ binding' = [s \in Seat |-> NONE]
  /\ hostState' = "down"
  /\ config' = [s \in Seat |-> NoHardware]
  /\ confirmed' = {}
  /\ tracker' = [slot \in Slot |-> UnseenSlot]
  /\ presentation' = [s \in Seat |-> NONE]
  /\ revision' = 0
  /\ session' = [c \in Conn |-> "none"]
  /\ held' = [c \in Conn |-> [s \in Seat |-> 0]]
  /\ request' = [c \in Conn |-> NONE]
  /\ client' = [c \in Conn |-> FALSE]
  /\ launching' = NONE
  /\ game' = [s \in Seat |-> NONE]
  /\ UNCHANGED worldVars

HostCrash == hostState # "down" /\ Forget /\ UNCHANGED disk

(* ... after it has replaced the file, before it publishes the change.     *)
HostCrashAfterSave(c) ==
  /\ Handling(c, "configure")
  /\ Assignable(c)
  /\ disk' = [config EXCEPT ![request[c].seat] = request[c].hardware]
  /\ Forget

RequestStop ==
  /\ hostState = "running"
  /\ hostState' = "stopping"
  /\ UNCHANGED <<authorityVars, config, disk, confirmed, tracker, presentation,
                 revision, sessionVars, gameVars, worldVars>>

(* The server returns when every connection worker has been joined.        *)
HostStops ==
  /\ hostState = "stopping"
  /\ \A c \in Conn : session[c] = "none"
  /\ Forget
  /\ UNCHANGED disk

(* A start refuses a file that gives one device to both Seats.             *)
Exclusive(configuration) ==
  \A s, o \in Seat : s # o =>
    /\ configuration[s].device # NONE =>
         configuration[s].device # configuration[o].device
    /\ configuration[s].controller # NONE =>
         configuration[s].controller # configuration[o].controller

HostStarts ==
  /\ hostState = "down"
  /\ Exclusive(disk)
  /\ hostState' = "running"
  /\ config' = disk
  /\ revision' = IF MaxRevision = 0 THEN 0 ELSE 1
  /\ UNCHANGED <<authorityVars, disk, confirmed, tracker, presentation,
                 sessionVars, gameVars, worldVars>>

-----------------------------------------------------------------------------
(* The second half of a handler: what follows from what it has read.       *)
Finish(c) ==
  \/ AssignHardware(c) \/ AssignNothing(c)
  \/ CommitPairing(c) \/ RefusePairing(c)
  \/ (\E p \in Process : PublishGame(c, p)) \/ LaunchFails(c)
  \/ SetPresentation(c)

EndConnection(c) ==
  (\E s \in Seat : ReleaseOnDisconnect(c, s)) \/ CloseSession(c)

ControlNext ==
  \/ \E c \in Conn :
       \/ \E role \in Role : Connect(c, role)
       \/ ClientDies(c)
       \/ EndConnection(c)
       \/ Finish(c)
       \/ HostCrashAfterSave(c)
       \/ \E s \in Seat :
            \/ HandleAcquireUiLease(c, s) \/ HandleReleaseUiLease(c, s)
            \/ \E hardware \in Hardware : ReadHardware(c, s, hardware)
            \/ \E p \in Controller, slot \in Slot : ScanForPairing(c, s, p, slot)
            \/ ScanFails(c, s)
            \/ \E title \in Title : HandleLaunchGame(c, s, title)
            \/ HandleStopGame(c, s) \/ ReapBeforeRequest(c, s)
  \/ \E s \in Seat : GameExits(s)
  \/ \E d \in Device : ObservePhysicalInput(d)
  \/ WorldChanges
  \/ HostCrash \/ RequestStop \/ HostStops \/ HostStarts

ControlSpec == ControlInit /\ [][ControlNext]_controlVars

(* A handler returns: what it waits for is other handlers and bounded      *)
(* system calls.  A worker whose pipe is broken or cancelled gets an error *)
(* from its pending read.  The server joins workers that have finished.    *)
FairControlSpec ==
  /\ ControlSpec
  /\ \A c \in Conn : WF_controlVars(Finish(c)) /\ WF_controlVars(EndConnection(c))
  /\ WF_controlVars(HostStops)

-----------------------------------------------------------------------------
(* Type invariant of the host.                                             *)
ControlTypeOK ==
  /\ AuthorityTypeOK
  /\ hostState \in {"running", "stopping", "down"}
  /\ config \in [Seat -> Hardware]
  /\ disk \in [Seat -> Hardware]
  /\ confirmed \subseteq Device
  /\ tracker \in [Slot -> SlotMemory]
  /\ presentation \in [Seat -> Title \cup {NONE}]
  /\ revision \in 0..MaxRevision
  /\ session \in [Conn -> Role \cup {"none"}]
  /\ held \in [Conn -> [Seat -> 0..MaxGeneration]]
  /\ request \in [Conn -> Request \cup {NONE}]
  /\ client \in [Conn -> BOOLEAN]
  /\ launching \in Conn \cup {NONE}
  /\ game \in [Seat -> Game \cup {NONE}]
  /\ attached \subseteq Device /\ pads \subseteq Controller /\ live \subseteq Slot

(* Every UI lease is held by exactly one connection, and every token a     *)
(* connection keeps is current: no lease survives its connection, none is  *)
(* lost while its connection lives, and no client can act for another.     *)
LeaseBelongsToOneConnection ==
  \A s \in Seat :
    /\ \A c \in Conn : held[c][s] # 0 =>
         session[c] = "control" /\ OwnsToken(HeldToken(c, s))
    /\ \A c, d \in Conn : held[c][s] # 0 /\ held[d][s] # 0 => c = d
    /\ "ui" \in leases[s] => \E c \in Conn : held[c][s] # 0

(* No device or controller is assigned to two Seats, in memory or in the   *)
(* file, and while the host runs the two agree: a start is never refused.  *)
AssignmentsExclusiveAndDurable ==
  /\ Exclusive(disk)
  /\ hostState # "down" => config = disk

(* A runtime binding is always to the controller the Seat is assigned:     *)
(* reassigning drops it and a pairing that lost the race is refused.       *)
BindingFollowsAssignment ==
  \A s \in Seat :
    binding[s] # NONE =>
      binding[s].controller # NONE /\ binding[s].controller = config[s].controller

(* A Seat with an assigned controller plays with that controller bound.    *)
GameHasItsController ==
  \A s \in Seat :
    "game" \in leases[s] /\ config[s].controller # NONE =>
      binding[s] # NONE /\ binding[s].controller = config[s].controller

(* The title shown for a Seat is that of the game running there, although  *)
(* it is set after the launcher's mutex was released.                      *)
TitleOfRunningGame ==
  \A s \in Seat :
    presentation[s] # NONE => game[s] # NONE /\ presentation[s] = game[s].title

(* The launcher's record and the game lease agree outside of a launch.     *)
LauncherOwnsGameLease ==
  \A s \in Seat :
    IF game[s] # NONE
      THEN OwnsToken(game[s].token) /\ game[s].token.seat = s /\ process[s] # NONE
      ELSE "game" \in leases[s] =>
             launching # NONE /\ Handling(launching, "launch")
               /\ request[launching].seat = s

(* A client that polls with the revision misses no change of authority,    *)
(* assignment or presentation.                                             *)
RevisionCoversEveryChange ==
  [][/\ hostState # "down" /\ hostState' # "down"
     /\ revision < MaxRevision
     /\ <<leases, process, window, binding, config, presentation>>'
          # <<leases, process, window, binding, config, presentation>>
     => revision' = revision + 1]_controlVars

(* The leases of a client that is gone are given back.                     *)
DeadClientLosesItsLeases ==
  \A c \in Conn, s \in Seat :
    (~client[c] /\ held[c][s] # 0) ~> (held[c][s] = 0)

(* A host asked to stop stops, whatever its clients are doing.             *)
StopCompletes == (hostState = "stopping") ~> (hostState = "down")

(* Every lease has exactly one owner, a live connection or the launcher.   *)
LeasesHaveOneOwner == LeaseBelongsToOneConnection /\ LauncherOwnsGameLease
=============================================================================
