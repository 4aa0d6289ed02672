----------------------------- MODULE GateCSession -----------------------------
(***************************************************************************)
(* One game process and its Seat's keyboard, mouse and controller: the     *)
(* host's ExternalInputSession, the bridge's worker thread inside the      *)
(* game, the shim that patches the game's import table, and the game's own *)
(* threads that call the patched functions.  The host and the worker talk  *)
(* over a message pipe; a frame is its sequence number and its kind.       *)
(*                                                                         *)
(* The game is created suspended and resumed when the session is active.   *)
(* A function imported by name once can be patched; the code finds it only *)
(* then, and leaves out of its mask one that is imported twice.            *)
(***************************************************************************)
EXTENDS Naturals, Sequences, FiniteSets

CONSTANTS
  PollingApi, CursorApi, RawApi,  \* the functions of the three patch sets
  XInputApi,                      \* the functions of the XInput redirect
  GameThread,
  MaxFrame                        \* bound of the model: frames of the host

ASSUME GateCAssumption == MaxFrame \in Nat \ {0, 1}

ShimApi == PollingApi \cup CursorApi \cup RawApi
Api == ShimApi \cup XInputApi

VARIABLES
  importCount,  \* how often the executable imports each function by name
  wantsXInput,  \* enableXInputRedirect
  patched,      \* the functions whose imports hold the replacement
  lifecycle,    \* of the shim
  adapter,      \* the adapter's handle
  gameCalls,    \* the game's threads: out, or in a hook that uses the adapter
  bridgeWorker,       \* where the bridge's worker is
  left,         \* why it left: "graceful" or "broken", once it did
  lastSequence, \* the last frame the worker took
  toBridge,     \* frames in the pipe
  toHost,       \* the bridge's handshake
  bridgeEnd, hostEnd,  \* the pipe's ends
  hostSession, hostSequence,
  game

gateVars ==
  <<importCount, wantsXInput, patched, lifecycle, adapter, gameCalls, bridgeWorker,
    left, lastSequence, toBridge, toHost, bridgeEnd, hostEnd, hostSession,
    hostSequence, game>>

shimVars == <<patched, lifecycle>>
pipeStateVars == <<toBridge, toHost, bridgeEnd, hostEnd>>
hostVars == <<hostSession, hostSequence>>
fixedVars == <<importCount, wantsXInput>>

WorkerStage == {"start", "shim", "connect", "hello", "ack", "loop", "leaving",
                "withdrawing", "draining", "restoring", "finishing", "returning", "ended"}

GateInit ==
  /\ importCount \in [Api -> 0..2] /\ wantsXInput \in BOOLEAN
  /\ patched = {} /\ lifecycle = "Inactive" /\ adapter = "none"
  /\ gameCalls = [t \in GameThread |-> "out"]
  /\ bridgeWorker = "start" /\ left = "no" /\ lastSequence = 0
  /\ toBridge = <<>> /\ toHost = "nothing" /\ bridgeEnd = "none" /\ hostEnd = "open"
  /\ hostSession = "attaching" /\ hostSequence = 1
  /\ game = "suspended"

-----------------------------------------------------------------------------
(* The patch sets.                                                         *)

(* discoverCurrentProcess...Imports, function by function as               *)
(* detectSupportedApiMask calls it.                                        *)
Discovered(api) == importCount[api] = 1
DetectedMask == {api \in ShimApi : Discovered(api)}

(* installProfiled: all of the functions, or none, or those whose rollback *)
(* failed; a page protection that was not restored is not clean either.    *)
PatchOutcomes(functions) ==
  {outcome \in [done : BOOLEAN, rest : SUBSET functions, clean : BOOLEAN] :
     /\ outcome.done => outcome.rest = functions /\ outcome.clean
     /\ ~outcome.done => (outcome.clean => outcome.rest = {})}

PollingOutcomes == PatchOutcomes(DetectedMask \cap PollingApi)

(* A family that is not enabled has nothing to patch.                      *)
CursorOutcomes == PatchOutcomes(DetectedMask \cap CursorApi)
RawOutcomes == PatchOutcomes(DetectedMask \cap RawApi)

(* uninstall: what cannot be written back stays patched, and is recorded.  *)
PollingRemains == SUBSET (patched \cap PollingApi)
CursorRemains == SUBSET (patched \cap CursorApi)
RawRemains == SUBSET (patched \cap RawApi)

(* hydra_gate_c_shim_install_v3 with the detected mask: the families in    *)
(* turn, each undoing the earlier ones when it fails.                      *)
ShimOutcomes ==
  {[done |-> FALSE, rest |-> p.rest, clean |-> p.clean] :
     p \in {q \in PollingOutcomes : ~q.done}}
  \cup {[done |-> FALSE, rest |-> c.rest \cup pollingRest,
         clean |-> c.clean /\ pollingRest = {}] :
          c \in {q \in CursorOutcomes : ~q.done},
          pollingRest \in SUBSET (DetectedMask \cap PollingApi)}
  \cup {[done |-> FALSE, rest |-> r.rest \cup earlierRest,
         clean |-> r.clean /\ earlierRest = {}] :
          r \in {q \in RawOutcomes : ~q.done},
          earlierRest \in SUBSET (DetectedMask \ RawApi)}
  \cup {[done |-> TRUE, rest |-> DetectedMask, clean |-> TRUE]}

(* The mask hydra_gate_c_shim_install_v3 takes.                            *)
ShimAccepts(mask) == mask \cap PollingApi # {}

(* validProfiledShimMask, the mask the bridge takes.                       *)
BridgeAccepts(mask) == mask \cap (PollingApi \cup RawApi) # {}

-----------------------------------------------------------------------------
(* The worker's way to its loop.                                           *)
CallsAreOut == \A t \in GameThread : gameCalls[t] = "out"

(* XInputIatRedirect::install; a redirect that fails ends the worker, and  *)
(* its destructor restores what it can.                                    *)
InstallXInput ==
  LET imported == {api \in XInputApi : importCount[api] > 0} IN
  /\ bridgeWorker = "start" /\ adapter' = "alive"
  /\ \/ ~wantsXInput /\ bridgeWorker' = "shim" /\ UNCHANGED patched
     \/ wantsXInput /\ imported # {} /\ bridgeWorker' = "shim" /\ patched' = imported
     \/ /\ wantsXInput /\ bridgeWorker' = "ended"
        /\ patched' \in SUBSET imported
  /\ UNCHANGED <<fixedVars, lifecycle, gameCalls, left, lastSequence, pipeStateVars,
                 hostVars, game>>

InstallShim ==
  LET only == DetectedMask = {} /\ wantsXInput IN
  /\ bridgeWorker = "shim"
  /\ \/ only /\ bridgeWorker' = "connect" /\ UNCHANGED <<shimVars, adapter>>
     \/ /\ ~only /\ ~(BridgeAccepts(DetectedMask) /\ ShimAccepts(DetectedMask))
        /\ bridgeWorker' = "ended" /\ adapter' = "destroyed"
        /\ patched' = {} /\ UNCHANGED lifecycle
     \/ /\ ~only /\ BridgeAccepts(DetectedMask) /\ ShimAccepts(DetectedMask)
        /\ \E outcome \in ShimOutcomes :
             IF outcome.done
               THEN /\ bridgeWorker' = "connect" /\ patched' = patched \cup outcome.rest
                    /\ lifecycle' = "Active" /\ UNCHANGED adapter
               ELSE /\ bridgeWorker' = "ended" /\ adapter' = "destroyed"
                    /\ patched' = outcome.rest
                    /\ lifecycle' = IF outcome.clean THEN "Inactive" ELSE "FailClosed"
  /\ UNCHANGED <<fixedVars, gameCalls, left, lastSequence, pipeStateVars, hostVars,
                 game>>

Connect ==
  /\ bridgeWorker = "connect" /\ hostEnd = "open"
  /\ bridgeWorker' = "hello" /\ bridgeEnd' = "open"
  /\ UNCHANGED <<fixedVars, shimVars, adapter, gameCalls, left, lastSequence, toBridge,
                 toHost, hostEnd, hostVars, game>>

(* Mutant of SayHello: before the shim is in place.                        *)
SayHelloFirst ==
  /\ bridgeWorker \in {"start", "shim"} /\ toHost = "nothing"
  /\ toHost' = "hello" /\ bridgeWorker' = "ack" /\ bridgeEnd' = "open" /\ adapter' = "alive"
  /\ UNCHANGED <<fixedVars, shimVars, gameCalls, left, lastSequence, toBridge,
                 hostEnd, hostVars, game>>

SayHello ==
  /\ bridgeWorker = "hello" /\ hostEnd = "open"
  /\ toHost' = "hello" /\ bridgeWorker' = "ack"
  /\ UNCHANGED <<fixedVars, shimVars, adapter, gameCalls, left, lastSequence, toBridge,
                 bridgeEnd, hostEnd, hostVars, game>>

TakeAck ==
  /\ bridgeWorker = "ack" /\ toBridge # <<>>
  /\ toBridge' = Tail(toBridge) /\ lastSequence' = Head(toBridge).sequence
  /\ bridgeWorker' = "loop"
  /\ UNCHANGED <<fixedVars, shimVars, adapter, gameCalls, left, toHost, bridgeEnd,
                 hostEnd, hostVars, game>>

(* No connection, or no acknowledgement within five seconds: the worker    *)
(* uninstalls the shim.  No new call is virtual, and those that are finish *)
(* first: until then the polling and cursor functions are the original     *)
(* ones, while the Raw Input functions fail closed.                        *)
GiveUp ==
  /\ bridgeWorker \in {"connect", "hello", "ack"} /\ bridgeWorker' = "withdrawing"
  /\ lifecycle' = IF patched \cap ShimApi = {} THEN lifecycle ELSE "Uninstalling"
  /\ UNCHANGED <<fixedVars, patched, adapter, gameCalls, left, lastSequence,
                 pipeStateVars, hostVars, game>>

(* Mutant of Withdraw: the adapter goes while calls are inside.            *)
WithdrawAtOnce ==
  /\ bridgeWorker = "withdrawing" /\ bridgeWorker' = "returning" /\ adapter' = "destroyed"
  /\ patched' = patched \cap XInputApi /\ lifecycle' = "Inactive"
  /\ UNCHANGED <<fixedVars, gameCalls, left, lastSequence, pipeStateVars, hostVars,
                 game>>

Withdraw ==
  /\ bridgeWorker = "withdrawing" /\ CallsAreOut
  /\ bridgeWorker' = "returning" /\ adapter' = "destroyed"
  /\ \E rest \in SUBSET (patched \cap ShimApi) :
       /\ patched' = rest \cup (patched \cap XInputApi)
       /\ lifecycle' = IF rest = {} THEN "Inactive" ELSE "FailClosed"
  /\ UNCHANGED <<fixedVars, gameCalls, left, lastSequence, pipeStateVars, hostVars,
                 game>>

(* The worker's objects: the channel, then the XInput redirect.            *)
LeaveBridge ==
  /\ bridgeWorker = "returning" /\ bridgeWorker' = "ended" /\ bridgeEnd' = "closed"
  /\ \E rest \in SUBSET (patched \cap XInputApi) :
       patched' = rest \cup (patched \cap ShimApi)
  /\ UNCHANGED <<fixedVars, lifecycle, adapter, gameCalls, left, lastSequence,
                 toBridge, toHost, hostEnd, hostVars, game>>

-----------------------------------------------------------------------------
(* The worker's loop.  Applying an input fails when the adapter refuses it *)
(* (a full handle table is one reason), or when the shim no longer works.  *)
TakeFrame ==
  LET frame == Head(toBridge)
      leave(why) == bridgeWorker' = "leaving" /\ left' = why
      stay == bridgeWorker' = "loop" /\ UNCHANGED left IN
  /\ bridgeWorker = "loop" /\ toBridge # <<>>
  /\ toBridge' = Tail(toBridge)
  /\ IF frame.sequence <= lastSequence
       THEN leave("broken") /\ UNCHANGED lastSequence
       ELSE /\ lastSequence' = frame.sequence
            /\ \/ frame.kind = "shutdown" /\ leave("graceful")
               \/ frame.kind # "shutdown" /\ leave("broken")
               \/ /\ frame.kind = "input" /\ stay
                  /\ DetectedMask \cap RawApi # {} => lifecycle = "Active"
               \/ frame.kind = "control" /\ stay
  /\ UNCHANGED <<fixedVars, shimVars, adapter, gameCalls, toHost, bridgeEnd, hostEnd,
                 hostVars, game>>

(* A read that times out may have taken a frame: waitForOverlapped cancels *)
(* it and does not look whether it had completed.                          *)
TimeOutWithFrame ==
  /\ bridgeWorker = "loop" /\ toBridge # <<>> /\ toBridge' = Tail(toBridge)
  /\ UNCHANGED <<fixedVars, shimVars, adapter, gameCalls, bridgeWorker, left, lastSequence,
                 toHost, bridgeEnd, hostEnd, hostVars, game>>

(* Mutant of NoticeDisconnect: as if the read had timed out.               *)
NoticeDisconnectAsTimeout ==
  bridgeWorker = "loop" /\ toBridge = <<>> /\ hostEnd = "closed" /\ UNCHANGED gateVars

NoticeDisconnect ==
  /\ bridgeWorker = "loop" /\ toBridge = <<>> /\ hostEnd = "closed"
  /\ bridgeWorker' = "leaving" /\ left' = "broken"
  /\ UNCHANGED <<fixedVars, shimVars, adapter, gameCalls, lastSequence, pipeStateVars,
                 hostVars, game>>

(* hydra_gate_c_shim_mark_adapter_unavailable: no new call uses the        *)
(* adapter, and the worker waits for those that do.                        *)
MarkUnavailable ==
  /\ bridgeWorker = "leaving" /\ bridgeWorker' = "draining"
  /\ lifecycle' = IF lifecycle = "Active" THEN "FailClosed" ELSE lifecycle
  /\ UNCHANGED <<fixedVars, patched, adapter, gameCalls, left, lastSequence,
                 pipeStateVars, hostVars, game>>

Drain ==
  /\ bridgeWorker = "draining" /\ CallsAreOut /\ bridgeWorker' = "restoring"
  /\ UNCHANGED <<fixedVars, shimVars, adapter, gameCalls, left, lastSequence,
                 pipeStateVars, hostVars, game>>

(* hydra_gate_c_shim_uninstall under the shim's mutex, then the XInput     *)
(* redirect.                                                               *)
RestoreImports ==
  /\ bridgeWorker = "restoring" /\ bridgeWorker' = "finishing"
  /\ \E raw \in RawRemains, cursor \in CursorRemains, polling \in PollingRemains,
        xinput \in SUBSET (patched \cap XInputApi) :
       /\ patched' = raw \cup cursor \cup polling \cup xinput
       /\ lifecycle' = IF raw \cup cursor \cup polling = {} THEN "Inactive"
                                                           ELSE "FailClosed"
  /\ UNCHANGED <<fixedVars, adapter, gameCalls, left, lastSequence, pipeStateVars,
                 hostVars, game>>

(* The end of the worker; without a graceful shutdown also of the game.    *)
Finish ==
  /\ bridgeWorker = "finishing" /\ bridgeWorker' = "ended"
  /\ adapter' = "destroyed" /\ bridgeEnd' = "closed"
  /\ game' = IF left = "graceful" THEN game ELSE "dead"
  /\ UNCHANGED <<fixedVars, shimVars, gameCalls, left, lastSequence, toBridge, toHost,
                 hostEnd, hostVars>>

-----------------------------------------------------------------------------
(* The game's threads.                                                     *)

(* beginHook: a patched function uses the adapter, or answers neutrally    *)
(* when the shim has failed closed; without a lifecycle it is the original *)
(* function again, like an import that is not patched.                     *)
MachineAnswers(api) ==
  /\ importCount[api] > 0
  /\ \/ api \notin patched
     \/ api \in ShimApi /\ lifecycle = "Inactive"
     \/ api \in PollingApi \cup CursorApi /\ lifecycle = "Uninstalling"

(* Mutant of CallFunction: the shim takes calls as long as it has an       *)
(* adapter.                                                                *)
CallFunctionWithAdapter(t, api) ==
  /\ game = "running" /\ gameCalls[t] = "out" /\ importCount[api] > 0
  /\ api \in patched \cap ShimApi /\ adapter = "alive"
  /\ gameCalls' = [gameCalls EXCEPT ![t] = "virtual"]
  /\ UNCHANGED <<fixedVars, shimVars, adapter, bridgeWorker, left, lastSequence,
                 pipeStateVars, hostVars, game>>

CallFunction(t, api) ==
  /\ game = "running" /\ gameCalls[t] = "out" /\ importCount[api] > 0
  /\ api \in patched \cap ShimApi /\ lifecycle = "Active"
  /\ gameCalls' = [gameCalls EXCEPT ![t] = "virtual"]
  /\ UNCHANGED <<fixedVars, shimVars, adapter, bridgeWorker, left, lastSequence,
                 pipeStateVars, hostVars, game>>

(* finishHook: a failure of the adapter ends the virtual answers.          *)
ReturnFromCall(t, failed) ==
  /\ gameCalls[t] = "virtual" /\ gameCalls' = [gameCalls EXCEPT ![t] = "out"]
  /\ lifecycle' = IF failed /\ lifecycle = "Active" THEN "FailClosed" ELSE lifecycle
  /\ UNCHANGED <<fixedVars, patched, adapter, bridgeWorker, left, lastSequence,
                 pipeStateVars, hostVars, game>>

GameDies ==
  /\ game # "dead" /\ game' = "dead" /\ bridgeWorker' = "ended" /\ bridgeEnd' = "closed"
  /\ gameCalls' = [t \in GameThread |-> "out"]
  /\ UNCHANGED <<fixedVars, shimVars, adapter, left, lastSequence, toBridge, toHost,
                 hostEnd, hostVars>>

-----------------------------------------------------------------------------
(* The host.  A write succeeds as long as the other end is open; it may    *)
(* also time out.                                                          *)
FrameWritten(kind) == Append(toBridge, [sequence |-> hostSequence', kind |-> kind])

Handshake ==
  /\ hostSession = "attaching" /\ toHost = "hello" /\ bridgeEnd = "open"
  /\ hostSession' = "acknowledged" /\ UNCHANGED hostSequence
  /\ toBridge' = FrameWritten("ack")
  /\ UNCHANGED <<fixedVars, shimVars, adapter, gameCalls, bridgeWorker, left, lastSequence,
                 toHost, bridgeEnd, hostEnd, game>>

InitialControl ==
  /\ hostSession = "acknowledged" /\ bridgeEnd = "open"
  /\ hostSession' = "active" /\ hostSequence' = hostSequence + 1
  /\ toBridge' = FrameWritten("control")
  /\ UNCHANGED <<fixedVars, shimVars, adapter, gameCalls, bridgeWorker, left, lastSequence,
                 toHost, bridgeEnd, hostEnd, game>>

(* Any step of attach() fails: the launcher ends the suspended game.       *)
AttachFails ==
  /\ hostSession \in {"attaching", "acknowledged"} /\ game # "dead"
  /\ hostSession' = "closed" /\ hostEnd' = "closed"
  /\ game' = "dead" /\ bridgeWorker' = "ended" /\ bridgeEnd' = "closed"
  /\ UNCHANGED <<fixedVars, shimVars, adapter, gameCalls, left, lastSequence, toBridge,
                 toHost, hostSequence>>

Resume ==
  /\ hostSession = "active" /\ game = "suspended" /\ game' = "running"
  /\ UNCHANGED <<fixedVars, shimVars, adapter, gameCalls, bridgeWorker, left, lastSequence,
                 pipeStateVars, hostVars>>

HostSends(kind) ==
  /\ hostSession = "active" /\ hostSequence < MaxFrame /\ bridgeEnd = "open"
  /\ hostSequence' = hostSequence + 1 /\ toBridge' = FrameWritten(kind)
  /\ UNCHANGED <<fixedVars, shimVars, adapter, gameCalls, bridgeWorker, left, lastSequence,
                 toHost, bridgeEnd, hostEnd, hostSession, game>>

SendFails ==
  /\ hostSession = "active" /\ hostSession' = "closed" /\ hostEnd' = "closed"
  /\ UNCHANGED <<fixedVars, shimVars, adapter, gameCalls, bridgeWorker, left, lastSequence,
                 toBridge, toHost, bridgeEnd, hostSequence, game>>

(* ExternalInputSession::shutdown; the last frame may not be written.      *)
ShutdownSession(written) ==
  /\ hostSession = "active" /\ hostSession' = "closed" /\ hostEnd' = "closed"
  /\ hostSequence' = hostSequence + 1
  /\ toBridge' = IF written /\ bridgeEnd = "open" THEN FrameWritten("shutdown") ELSE toBridge
  /\ UNCHANGED <<fixedVars, shimVars, adapter, gameCalls, bridgeWorker, left, lastSequence,
                 toHost, bridgeEnd, game>>

-----------------------------------------------------------------------------
WorkerNext ==
  \/ InstallXInput \/ InstallShim \/ Connect \/ SayHello \/ TakeAck \/ GiveUp \/ Withdraw \/ LeaveBridge
  \/ TakeFrame \/ TimeOutWithFrame \/ NoticeDisconnect \/ MarkUnavailable \/ Drain
  \/ RestoreImports \/ Finish

GateNext ==
  \/ WorkerNext \/ GameDies
  \/ Handshake \/ InitialControl \/ AttachFails \/ Resume \/ SendFails
  \/ \E kind \in {"input", "control"} : HostSends(kind)
  \/ \E written \in BOOLEAN : ShutdownSession(written)
  \/ \E t \in GameThread :
       \/ \E api \in Api : CallFunction(t, api)
       \/ \E failed \in BOOLEAN : ReturnFromCall(t, failed)

(* The worker runs as long as the game's process does; a call into the     *)
(* adapter returns.                                                        *)
GateSpec ==
  /\ GateInit /\ [][GateNext]_gateVars
  /\ WF_gateVars(WorkerNext)
  /\ \A t \in GameThread : WF_gateVars(\E failed \in BOOLEAN : ReturnFromCall(t, failed))

-----------------------------------------------------------------------------
(* Type invariant of the session.                                          *)
GateTypeOK ==
  /\ importCount \in [Api -> 0..2] /\ wantsXInput \in BOOLEAN
  /\ patched \subseteq Api /\ lifecycle \in {"Inactive", "Active", "FailClosed", "Uninstalling"}
  /\ adapter \in {"none", "alive", "destroyed"}
  /\ gameCalls \in [GameThread -> {"out", "virtual"}]
  /\ bridgeWorker \in WorkerStage /\ left \in {"no", "graceful", "broken"}
  /\ lastSequence \in 0..(MaxFrame + 1) /\ hostSequence \in 1..(MaxFrame + 1)
  /\ \A i \in DOMAIN toBridge :
       toBridge[i] \in [sequence : 1..(MaxFrame + 1),
                        kind : {"ack", "input", "control", "shutdown"}]
  /\ toHost \in {"nothing", "hello"}
  /\ bridgeEnd \in {"none", "open", "closed"} /\ hostEnd \in {"open", "closed"}
  /\ hostSession \in {"attaching", "acknowledged", "active", "closed"}
  /\ game \in {"suspended", "running", "dead"}

(* What the session is there to isolate.                                   *)
Isolated(api) ==
  IF api \in ShimApi THEN Discovered(api) ELSE wantsXInput

(* No thread of the game is inside the adapter when the worker destroys    *)
(* it.                                                                     *)
AdapterOutlivesCalls == CallsAreOut \/ adapter = "alive"

(* As long as the worker has not left, the game hears nothing of the       *)
(* machine's devices through a function the session isolates.              *)
BridgeIsolates ==
  \A api \in Api :
    game = "running" /\ MachineAnswers(api) /\ Isolated(api) =>
      bridgeWorker \in {"withdrawing", "finishing", "returning", "ended"}

(* A game that left its session without a shutdown does not go on.         *)
NoneGoesOnUnbridged ==
  bridgeWorker = "ended" /\ left = "broken" => game = "dead"

GateIsolates == AdapterOutlivesCalls /\ BridgeIsolates /\ NoneGoesOnUnbridged

(* A game whose channel breaks is ended, or was told to shut down: it does *)
(* not play on with input nobody can prove.                                *)
BrokenChannelEnds ==
  bridgeWorker = "loop" /\ hostEnd = "closed" ~> game = "dead" \/ left = "graceful"

(* A game that uses Raw Input alone is not turned away: the mask the bridge *)
(* takes is one the shim installs.                                         *)
RawOnlyTargetsAttach ==
  bridgeWorker = "shim" /\ BridgeAccepts(DetectedMask) => ShimAccepts(DetectedMask)

(* While its session is active the machine answers none of the functions   *)
(* the session isolates.                                                   *)
ActiveSessionIsolates ==
  hostSession = "active" /\ game = "running" =>
    \A api \in Api : MachineAnswers(api) => ~Isolated(api)
=============================================================================
