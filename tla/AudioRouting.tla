---------------------------- MODULE AudioRouting ----------------------------
(***************************************************************************)
(* Audio requests of the host: RuntimeHost::routeAudio and resetAudio over *)
(* the authority of the Seats, and the router that writes the two roles of *)
(* a process' persisted endpoint.                                          *)
(*                                                                         *)
(* The authority mutex is taken for each look at the Seat only; the audio  *)
(* mutex is held from the second look to the answer.  Between any two      *)
(* steps leases may come and go and the process may exit.                  *)
(***************************************************************************)
EXTENDS SeatAuthority

CONSTANTS
  Caller,            \* connection workers that ask for audio changes
  Endpoint           \* render endpoints

VARIABLES
  audio,             \* the request each caller is in, NONE outside
  route,             \* the endpoint Windows keeps per process and role
  alive,             \* processes that exist
  told,              \* the route the last definite answer promised
  unsure             \* processes whose last answer was RoutingFailed

audioOnlyVars == <<audio, route, alive, told, unsure>>

audioVars == <<authorityVars, audioOnlyVars>>

AudioRole == {"multimedia", "console"}

AudioStep == {"lane", "validate", "first", "second", "recheck"}

AudioCall ==
  [seat : Seat, generation : 1..MaxGeneration, process : Process,
   target : Endpoint \cup {NONE},       \* NONE: clearAssignment
   undoing : BOOLEAN, step : AudioStep, before : [AudioRole -> Endpoint \cup {NONE}]]

ASSUME AudioAssumption == NONE \notin Endpoint \cup AudioCall

NoRoute == [role \in AudioRole |-> NONE]

AudioInit ==
  /\ AuthorityInit
  /\ audio = [c \in Caller |-> NONE]
  /\ route = [p \in Process |-> NoRoute]
  /\ alive = Process
  /\ told = [p \in Process |-> NONE]
  /\ unsure = {}

-----------------------------------------------------------------------------
(* The UI lease of the request is current and the exact process is the one *)
(* the Seat's game has published.                                          *)
StillOwned(call) ==
  /\ leases[call.seat] = LeaseClass
  /\ generation[call.seat] = call.generation
  /\ process[call.seat] = call.process

AtStep(c, step) == audio[c] # NONE /\ audio[c].step = step

InLane(c) == audio[c] # NONE /\ audio[c].step # "lane"

AudioGoesTo(c, step) == audio' = [audio EXCEPT ![c].step = step]

Answer(c) == audio' = [audio EXCEPT ![c] = NONE]

(* A definite answer: both roles are now at the endpoint.                  *)
Promise(c, endpoint) ==
  /\ Answer(c)
  /\ told' = [told EXCEPT ![audio[c].process] = endpoint]
  /\ unsure' = unsure \ {audio[c].process}

(* RoutingFailed: the state of the process' route is not known.            *)
AnswerFailed(c) ==
  /\ Answer(c)
  /\ unsure' = unsure \cup {audio[c].process}
  /\ UNCHANGED told

AskAudio(c, s, p, target) ==
  LET call == [seat |-> s, generation |-> generation[s], process |-> p,
               target |-> target, undoing |-> FALSE, step |-> "lane",
               before |-> NoRoute]
  IN /\ audio[c] = NONE
     /\ StillOwned(call)
     /\ audio' = [audio EXCEPT ![c] = call]
     /\ UNCHANGED <<authorityVars, route, alive, told, unsure>>

EnterLane(c) ==
  /\ AtStep(c, "lane")
  /\ \A d \in Caller : ~InLane(d)
  /\ IF StillOwned(audio[c]) THEN AudioGoesTo(c, "validate") ELSE Answer(c)
  /\ UNCHANGED <<authorityVars, route, alive, told, unsure>>

(* The router refuses a process that is gone, has no audio session of its  *)
(* exact identity, or an endpoint that is not active; refusing to undo is  *)
(* a failed undo.  Both roles are read before either is written.           *)
ValidateTarget(c) ==
  /\ AtStep(c, "validate")
  /\ \/ /\ audio[c].process \in alive
        /\ audio' = [audio EXCEPT ![c].step = "first",
                                  ![c].before = route[audio[c].process]]
        /\ UNCHANGED <<told, unsure>>
     \/ IF audio[c].undoing
          THEN AnswerFailed(c)
          ELSE Answer(c) /\ UNCHANGED <<told, unsure>>
  /\ UNCHANGED <<authorityVars, route, alive>>

RouteWith(c, role, endpoint) == [route EXCEPT ![audio[c].process][role] = endpoint]

WriteFirstRole(c) ==
  /\ AtStep(c, "first")
  /\ \/ /\ route' = RouteWith(c, "multimedia", audio[c].target)
        /\ AudioGoesTo(c, "second")
        /\ UNCHANGED <<told, unsure>>
     \/ AnswerFailed(c) /\ UNCHANGED route
  /\ UNCHANGED <<authorityVars, alive>>

(* When the second write fails the captured roles are written back, and    *)
(* each of these writes may fail as well.                                  *)
WriteSecondRole(c) ==
  /\ AtStep(c, "second")
  /\ \/ /\ route' = RouteWith(c, "console", audio[c].target)
        /\ AudioGoesTo(c, "recheck")
        /\ UNCHANGED <<told, unsure>>
     \/ /\ route' \in {RouteWith(c, "multimedia", audio[c].before["multimedia"]), route}
        /\ AnswerFailed(c)
  /\ UNCHANGED <<authorityVars, alive>>

(* Mutant of RecheckOwner: IdentityMismatch is answered, nothing undone.   *)
RecheckOwnerOnly(c) ==
  /\ AtStep(c, "recheck")
  /\ Promise(c, IF StillOwned(audio[c]) THEN audio[c].target ELSE NONE)
  /\ UNCHANGED <<authorityVars, route, alive>>

(* The third look: an assignment whose Seat has gone is cleared again, and *)
(* only a cleared one is answered IdentityMismatch.                        *)
RecheckOwner(c) ==
  /\ AtStep(c, "recheck")
  /\ IF audio[c].target = NONE \/ StillOwned(audio[c])
       THEN Promise(c, audio[c].target)
       ELSE /\ audio' = [audio EXCEPT ![c].step = "validate",
                                      ![c].target = NONE, ![c].undoing = TRUE]
            /\ UNCHANGED <<told, unsure>>
  /\ UNCHANGED <<authorityVars, route, alive>>

ProcessExits(p) ==
  /\ alive' = alive \ {p}
  /\ UNCHANGED <<authorityVars, audio, route, told, unsure>>

AudioNext ==
  \/ AuthorityNext /\ UNCHANGED audioOnlyVars
  \/ \E c \in Caller :
       \/ \E s \in Seat, p \in Process, target \in Endpoint \cup {NONE} :
            AskAudio(c, s, p, target)
       \/ EnterLane(c) \/ ValidateTarget(c)
       \/ WriteFirstRole(c) \/ WriteSecondRole(c) \/ RecheckOwner(c)
  \/ \E p \in alive : ProcessExits(p)

AudioSpec == AudioInit /\ [][AudioNext]_audioVars

-----------------------------------------------------------------------------
(* Type invariant of the audio requests.                                   *)
AudioTypeOK ==
  /\ AuthorityTypeOK
  /\ audio \in [Caller -> AudioCall \cup {NONE}]
  /\ route \in [Process -> [AudioRole -> Endpoint \cup {NONE}]]
  /\ alive \subseteq Process
  /\ told \in [Process -> Endpoint \cup {NONE}]
  /\ unsure \subseteq Process

(* Outside of a request both roles of a process are where the last answer  *)
(* about it said, unless that answer was RoutingFailed: also when the Seat *)
(* lost the process during the call, one write of two failed, or requests  *)
(* about the process overlapped.                                           *)
AnswersAreTrue ==
  \A p \in Process \ unsure :
    (\A c \in Caller : InLane(c) => audio[c].process # p)
      => \A role \in AudioRole : route[p][role] = told[p]
=============================================================================
