----------------------------- MODULE MCServices -----------------------------
(* Small instances of the components that run beside a session, and of the *)
(* two users of the Seats' authority that call it without its mutex.  They *)
(* share no state here: `focus' is the one that runs, the others stay in   *)
(* one initial state.                                                      *)
EXTENDS SeatWindow, AudioRouting, AudioTransaction, HostPipeServer, Watchdog,
        HidHideSession, GateCSession

VARIABLE focus

windowOnlyVars == <<target, tracking, observed, boundHwnd, shuttingDown, call, launcher>>

servicesVars ==
  <<authorityVars, windowOnlyVars, audioOnlyVars, transactionVars, pipeVars,
    watchdogVars, hidVars, gateVars, focus>>

IdleWindow ==
  /\ target = NONE /\ tracking = FALSE /\ observed = FALSE /\ boundHwnd = NONE
  /\ shuttingDown = FALSE /\ call = [t \in Thread |-> NONE]
  /\ launcher = [pc |-> "done", placing |-> NONE]

IdleAudio ==
  /\ audio = [c \in Caller |-> NONE] /\ route = [p \in Process |-> NoRoute]
  /\ alive = Process /\ told = [p \in Process |-> NONE] /\ unsure = {}

(* Who is not in focus stands still.                                       *)
OthersStill ==
  /\ UNCHANGED focus
  /\ focus \notin {"window", "audio"} => UNCHANGED authorityVars
  /\ focus # "window" => UNCHANGED windowOnlyVars
  /\ focus # "audio" => UNCHANGED audioOnlyVars
  /\ focus # "transaction" => UNCHANGED transactionVars
  /\ focus # "pipe" => UNCHANGED pipeVars
  /\ focus # "watchdog" => UNCHANGED watchdogVars
  /\ focus # "hidhide" => UNCHANGED hidVars
  /\ focus # "gate" => UNCHANGED gateVars

ServicesInit ==
  /\ \/ focus = "window" /\ WindowInit /\ IdleAudio
     \/ focus = "audio" /\ AudioInit /\ IdleWindow
     \/ /\ focus \in {"transaction", "pipe", "watchdog", "hidhide", "gate"}
        /\ AuthorityInit /\ IdleWindow /\ IdleAudio
  /\ TransactionInit /\ PipeInit /\ WatchdogInit /\ HidInit /\ GateInit
  /\ focus # "transaction" => endpointOf = [s \in Session |-> RouteOther]
  /\ focus # "hidhide" => hid = CHOOSE settings \in Settings : settings.hydra = "no"
  /\ focus # "gate" => ~wantsXInput /\ importCount = [api \in Api |-> 0]

ServicesNext ==
  \/ focus = "window" /\ WindowNext /\ OthersStill
  \/ focus = "audio" /\ AudioNext /\ OthersStill
  \/ focus = "transaction" /\ TransactionNext /\ OthersStill
  \/ focus = "pipe" /\ PipeNext /\ OthersStill
  \/ focus = "watchdog" /\ WatchdogNext /\ OthersStill
  \/ focus = "hidhide" /\ HidNext /\ OthersStill
  \/ focus = "gate" /\ GateNext /\ OthersStill

(* The fairness of FairWindowSpec, PipeSpec, WatchdogSpec and GateSpec, for *)
(* the one that runs.                                                      *)
ServicesSpec ==
  /\ ServicesInit /\ [][ServicesNext]_servicesVars
  /\ \A t \in Thread : WF_windowVars(focus = "window" /\ HandlerStep(t))
  /\ WF_windowVars(focus = "window" /\ Dispatch)
  /\ SF_windowVars(focus = "window" /\ Shutdown)
  /\ WF_pipeVars(focus = "pipe" /\ AcceptorNext)
  /\ \A c \in PipeClient : WF_pipeVars(focus = "pipe" /\ WorkerRuns(c))
  /\ WF_pipeVars(focus = "pipe" /\ stopper = "cancel" /\ RequestServerStop)
  /\ WF_watchdogVars(focus = "watchdog" /\ DogSteps)
  /\ WF_watchdogVars(focus = "watchdog" /\ Tick)
  /\ WF_gateVars(focus = "gate" /\ WorkerNext)
  /\ \A t \in GameThread :
       WF_gateVars(focus = "gate" /\ \E failed \in BOOLEAN : ReturnFromCall(t, failed))

(* What has to end ends: the pipe server with every worker it started, the *)
(* watchdog, and a game whose channel to the host is broken.               *)
ServicesEnd ==
  ServeReturns /\ []WorkersEndWithServer /\ WatchEnds /\ BrokenChannelEnds

(* What a session did to audio is remembered until it is undone, and what the *)
(* watchdog reports as rolled back is undone, and nobody else's.             *)
UndoneExactly == MutationIsKept /\ RollbackIsExact

(* What isolates a Seat holds: the machine's HidHide settings are the      *)
(* user's or a session's, and a game's imports are the shim's.             *)
SeatsStayIsolated == SettingsAreSafe /\ GateIsolates

(* The type invariants of the services.                                    *)
ServicesTypeOK ==
  TransactionTypeOK /\ PipeTypeOK /\ WatchdogTypeOK /\ HidTypeOK
  /\ GateTypeOK
=============================================================================
