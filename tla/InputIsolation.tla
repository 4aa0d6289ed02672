--------------------------- MODULE InputIsolation ---------------------------
(* What keeps one Seat's input from the other's game: the planner that picks  *)
(* backends for a profile (input_isolation.cpp), the routing policy, the      *)
(* Seats' workspaces and the Raw Input router.                              *)
EXTENDS Naturals, FiniteSets, FiniteSetsExt, Sequences

CONSTANTS
  Device,          \* physical keyboards and mice, by normalised id
  TargetWindow     \* windows of the Seats' games

VARIABLES
  planFor,         \* the profile and the environment a plan is made for
  plan,            \* what is selected so far, and for which wish
  seats,           \* WorkspaceManager: Seat -> a device assigned to it
  routes,          \* SeatRoutingPolicy: owners of devices, windows of Seats
  decided          \* the last decision on an event, and what it rested on

isolationVars == <<planFor, plan, seats, routes, decided>>

Observation ==
  {"RawInputObservation", "StablePhysicalDeviceIdentity",
   "SeatOwnershipResolution", "InputDiagnostics"}
PhysicalControl == {"PhysicalDeviceCloaking", "PhysicalInputSuppression"}

-----------------------------------------------------------------------------
(* The built-in backends.                                                   *)
ShimSees ==
  {"RawInputRegistrationInterposition", "RawInputDataVirtualization",
   "KeyboardAsyncStateVirtualization", "CursorPositionVirtualization",
   "CursorClipVirtualization", "CaptureVirtualization",
   "ForegroundQueryVirtualization", "FocusMessageSynthesis"}

Backend(capabilities, risk, priority, marks) ==
  [capabilities |-> capabilities, risk |-> risk, priority |-> priority, marks |-> marks]
Injected == {"injection", "antiCheat"}

Backends ==
  [raw     |-> Backend(Observation, 0, 100, {}),
   proto   |-> Backend(ShimSees \cup
                 {"WindowMessageFiltering", "KeyboardStateArrayVirtualization",
                  "MouseButtonStateVirtualization", "CursorVisibilityVirtualization",
                  "FocusMutationVirtualization", "WindowPlacementControl",
                  "WindowStyleControl", "XInputSlotRemapping",
                  "VirtualInputInjection", "NamedObjectIsolation"}, 2, 80, Injected),
   hidhide |-> Backend({"PhysicalDeviceCloaking"}, 2, 70,
                 {"administrator", "driver", "antiCheat", "guard"}),
   direct  |-> Backend({"DirectInputVisibility", "DirectInputOrdering"}, 1, 50, Injected),
   xinput  |-> Backend({"XInputSlotRemapping"}, 0, 90, {}),
   shim    |-> Backend(ShimSees \cup {"ProcessLifecycleTracking"}, 2, 95,
                 Injected \cup {"guard"})]
BackendId == DOMAIN Backends
(* The order of their names.                                                *)
NameOrder == <<"hidhide", "proto", "shim", "xinput", "direct", "raw">>

(* The profiles HydraSeat brings along.                                     *)
Profile(required, optional, injection, driver, antiCheat, recovery, marks, preferred) ==
  [required |-> required, optional |-> optional, injection |-> injection,
   driver |-> driver, antiCheat |-> antiCheat, recovery |-> recovery,
   marks |-> marks, preferred |-> preferred]

ObservationProfile ==
  Profile(Observation, {}, "Forbidden", "Forbidden", "DenyInvasiveBackends",
          "NotApplicable", {}, <<>>)
RawProfile(required, optional, preferred) ==
  Profile(Observation \cup required, optional, "UserApproved", "InstalledOnly",
          "DenyInvasiveBackends", "Required", {"suppression", "zeroBleed"}, preferred)
RawNeeds ==
  {"RawInputRegistrationInterposition", "RawInputDataVirtualization"} \cup PhysicalControl
RawPreferred == <<"proto", "hidhide", "raw">>

Templates ==
  { ObservationProfile,
    RawProfile(RawNeeds, {"WindowMessageFiltering"}, RawPreferred),
    RawProfile(RawNeeds \cup
      {"KeyboardAsyncStateVirtualization", "KeyboardStateArrayVirtualization",
       "MouseButtonStateVirtualization", "CursorPositionVirtualization",
       "ForegroundQueryVirtualization"}, {"WindowMessageFiltering"}, RawPreferred),
    RawProfile(RawNeeds \cup
      {"CursorPositionVirtualization", "CursorClipVirtualization",
       "CursorVisibilityVirtualization", "CaptureVirtualization",
       "ForegroundQueryVirtualization", "FocusMutationVirtualization"},
      {"WindowMessageFiltering", "FocusMessageSynthesis"}, RawPreferred),
    RawProfile({"XInputSlotRemapping", "PhysicalInputSuppression"},
      {"WindowMessageFiltering"}, <<"xinput", "proto", "raw">>),
    RawProfile({"DirectInputVisibility", "DirectInputOrdering",
      "PhysicalInputSuppression"}, {"WindowMessageFiltering"}, <<"direct", "hidhide", "raw">>),
    Profile(ShimSees \cup {"ProcessLifecycleTracking"}, {}, "Required", "Forbidden",
      "DenyInvasiveBackends", "Required", {}, <<"shim">>),
    [ObservationProfile EXCEPT !.antiCheat = "ObservationOnly", !.marks = {"antiCheat"}] }

(* Profiles of one's own: a controller game whose backends lie at hand, under *)
(* each policy.                                                             *)
ProfileChoice ==
  [more : {{}, {"PhysicalDeviceCloaking"}},
   injection : {"Forbidden", "UserApproved", "Required"},
   driver : {"Forbidden", "InstalledOnly", "UserApprovedInstallation"},
   antiCheat : {"DenyInvasiveBackends", "ExplicitExperimentalOverride"},
   recovery : {"Required", "Recommended"},
   marks : {{}, {"antiCheat", "suppression"}}]
OwnProfiles ==
  { Profile({"XInputSlotRemapping"} \cup c.more, {"CursorClipVirtualization"}, c.injection,
            c.driver, c.antiCheat, c.recovery, c.marks, <<>>) : c \in ProfileChoice }

(* BackendEnvironment: what is approved and at hand.                         *)
Approval == {"injection", "driver", "administrator", "guard"}
Optional == BackendId \ {"raw"}
Environments ==
  { [approved |-> Approval \ lacking, available |-> {"raw"} \cup there] :
      lacking \in {{}, Approval} \cup { {a} : a \in Approval },
      there \in {{}, Optional} \cup { Optional \ {b} : b \in Optional } }

-----------------------------------------------------------------------------
(* rejectBackend(): the policies, one by one.                               *)
Invasive(b) == Backends[b].marks \cap {"antiCheat", "injection", "driver"} # {}

Rejected(b, p, env) ==
  LET m == Backends[b].marks
      control == Backends[b].capabilities \cap PhysicalControl # {}
  IN \/ b \notin env.available
     \/ "injection" \in m /\ (p.injection = "Forbidden" \/ "injection" \notin env.approved)
     \/ "driver" \in m /\ p.driver = "Forbidden"
     \/ "driver" \in m /\ p.driver = "UserApprovedInstallation" /\ "driver" \notin env.approved
     \/ "administrator" \in m /\ "administrator" \notin env.approved
     \/ "antiCheat" \in p.marks /\ p.antiCheat # "ExplicitExperimentalOverride" /\ Invasive(b)
     \/ p.antiCheat = "ObservationOnly" /\ ~(Backends[b].capabilities \subseteq Observation)
     \/ ("guard" \in m \/ control) /\ "guard" \notin env.approved
     \/ control /\ "suppression" \notin p.marks

Needed(p) ==
  p.required \cup (IF "zeroBleed" \in p.marks THEN {"PhysicalInputSuppression"} ELSE {})
Requested(p) == Needed(p) \cup p.optional

Candidates ==
  { b \in BackendId : /\ Backends[b].capabilities \cap Requested(planFor.profile) # {}
                      /\ ~Rejected(b, planFor.profile, planFor.environment) }

(* The rank of a candidate for what is not covered yet; the least is taken.  *)
PositionOf(s, x) == IF \E i \in DOMAIN s : s[i] = x
               THEN CHOOSE i \in DOMAIN s : s[i] = x ELSE Len(s) + 1
Rank(b, uncovered) ==
  <<PositionOf(planFor.profile.preferred, b),
    Cardinality(uncovered) - Cardinality(Backends[b].capabilities \cap uncovered),
    Backends[b].risk, 100 - Backends[b].priority, PositionOf(NameOrder, b)>>
Before(r, s) ==
  \E k \in DOMAIN r : r[k] < s[k] /\ \A j \in 1..(k - 1) : r[j] = s[j]

Wished(p, optional) == IF optional THEN p.optional ELSE Needed(p)

(* Those that add something; a wish that is optional takes no risk.          *)
Helpful(optional, uncovered) ==
  { b \in Candidates \ plan.selected :
      /\ Backends[b].capabilities \cap uncovered # {}
      /\ optional => Backends[b].risk = 0 }

PlanStart == [optional |-> FALSE, selected |-> {}, assigned |-> [b \in BackendId |-> {}],
           covered |-> {}, status |-> "none"]

(* One round of selectFor().                                                *)
SelectBackend ==
  /\ plan.status = "none"
  /\ LET p == planFor.profile
         uncovered == Wished(p, plan.optional) \ plan.covered
         useful == Helpful(plan.optional, uncovered)
     IN \E best \in useful :
          /\ \A c \in useful \ {best} : Before(Rank(best, uncovered), Rank(c, uncovered))
          /\ plan' = [plan EXCEPT !.selected = @ \cup {best},
                        !.assigned[best] = Backends[best].capabilities
                                           \cap (Requested(p) \ plan.covered),
                        !.covered = @ \cup (Backends[best].capabilities \cap Requested(p))]
  /\ UNCHANGED <<planFor, seats, routes, decided>>

SelectOptional ==
  /\ plan.status = "none" /\ ~plan.optional
  /\ Helpful(FALSE, Needed(planFor.profile) \ plan.covered) = {}
  /\ plan' = [plan EXCEPT !.optional = TRUE]
  /\ UNCHANGED <<planFor, seats, routes, decided>>

Elevated(b) ==
  Backends[b].risk # 0 \/ Backends[b].marks \cap {"injection", "driver", "administrator"} # {}

PolicyFails(p, env, selected) ==
  \/ p.injection = "Required" /\ \A b \in selected : "injection" \notin Backends[b].marks
  \/ p.recovery = "Required" /\ "guard" \notin env.approved /\ ~(Needed(p) \subseteq Observation)

Warned(p, env, selected) ==
  \/ p.recovery = "Recommended" /\ "guard" \notin env.approved
     /\ ~(Needed(p) \subseteq Observation)
  \/ \E b \in selected : Elevated(b)
  \/ "antiCheat" \in p.marks /\ p.antiCheat = "ExplicitExperimentalOverride"

FinishPlan ==
  /\ plan.status = "none" /\ plan.optional
  /\ Helpful(TRUE, planFor.profile.optional \ plan.covered) = {}
  /\ LET p == planFor.profile
         env == planFor.environment
     IN plan' = [plan EXCEPT !.status =
          IF PolicyFails(p, env, plan.selected) \/ ~(Needed(p) \subseteq plan.covered)
          THEN "Unsupported"
          ELSE IF p.antiCheat = "ObservationOnly" \/ Needed(p) \subseteq Observation
          THEN "ObservationOnly"
          ELSE IF Warned(p, env, plan.selected) THEN "SupportedWithWarnings"
          ELSE "Supported"]
  /\ UNCHANGED <<planFor, seats, routes, decided>>

-----------------------------------------------------------------------------
(* WorkspaceManager, SeatRoutingPolicy and what the router delivers.         *)
Workspace == {1, 2}
NoDevice == [none |-> TRUE]
EmptyWorkspace == NoDevice

CreateWorkspace ==
  /\ Workspace \ DOMAIN seats # {}
  /\ seats' = [s \in DOMAIN seats \cup {Min(Workspace \ DOMAIN seats)} |->
                 IF s \in DOMAIN seats THEN seats[s] ELSE EmptyWorkspace]
  /\ UNCHANGED <<planFor, plan, routes, decided>>

RemoveWorkspace(s) ==
  /\ s \in DOMAIN seats
  /\ seats' = [t \in DOMAIN seats \ {s} |-> seats[t]]
  /\ UNCHANGED <<planFor, plan, routes, decided>>

(* A display, keyboard, mouse or controller; two Seats may be given the same. *)
AssignDevice(s, d) ==
  /\ s \in DOMAIN seats
  /\ seats' = [seats EXCEPT ![s] = d]
  /\ UNCHANGED <<planFor, plan, routes, decided>>

BindDevice(d, s) ==
  /\ routes' = [routes EXCEPT !.owner[d] = s]
  /\ UNCHANGED <<planFor, plan, seats, decided>>

UnbindDevice(d) ==
  /\ routes' = [routes EXCEPT !.owner[d] = 0]
  /\ UNCHANGED <<planFor, plan, seats, decided>>

BindTargetWindow(s, w) ==
  /\ routes' = [routes EXCEPT !.target[s] = w]
  /\ UNCHANGED <<planFor, plan, seats, decided>>

ClearSeat(s) ==
  /\ routes' = [routes EXCEPT !.owner = [d \in Device |-> IF routes.owner[d] = s THEN 0 ELSE routes.owner[d]],
                              !.target[s] = 0]
  /\ UNCHANGED <<planFor, plan, seats, decided>>

NoDecision == [device |-> NoDevice, seat |-> 0, target |-> 0, consume |-> FALSE]

(* initialize() and stop() of the router, which registers for keyboards and   *)
(* mice; reports of other devices do not come, or are left alone.            *)
StartRouter ==
  /\ ~routes.listening
  /\ routes' = [routes EXCEPT !.listening = TRUE]
  /\ UNCHANGED <<planFor, plan, seats, decided>>

StopRouter ==
  /\ routes.listening
  /\ routes' = [routes EXCEPT !.listening = FALSE]
  /\ UNCHANGED <<planFor, plan, seats, decided>>

(* The name of the device is looked up for every report and may not be had    *)
(* (the touchpad's reports come without a device): then no Seat owns it.      *)
NamelessEvent ==
  /\ routes.listening /\ decided' = NoDecision
  /\ UNCHANGED <<planFor, plan, seats, routes>>

(* route(): to the Seat that owns the device, if that Seat is there.          *)
RouteEvent(d, isolating) ==
  /\ routes.listening
  /\ LET s == routes.owner[d]
     IN decided' = IF s = 0 \/ s \notin DOMAIN seats
                   THEN [NoDecision EXCEPT !.device = d]
                   ELSE [device |-> d, seat |-> s, target |-> routes.target[s],
                         consume |-> isolating]
  /\ UNCHANGED <<planFor, plan, seats, routes>>

-----------------------------------------------------------------------------
IsolationInit ==
  /\ planFor \in [profile : Templates \cup OwnProfiles, environment : Environments]
  /\ plan = PlanStart
  /\ seats = [s \in {} |-> EmptyWorkspace]
  /\ routes = [owner |-> [d \in Device |-> 0], target |-> [s \in Workspace |-> 0],
               listening |-> FALSE]
  /\ decided = NoDecision

PlanNext == SelectBackend \/ SelectOptional \/ FinishPlan

RoutingNext ==
  \/ CreateWorkspace \/ StartRouter \/ StopRouter \/ NamelessEvent
  \/ \E s \in Workspace :
       \/ RemoveWorkspace(s) \/ ClearSeat(s)
       \/ \E d \in Device : AssignDevice(s, d)
       \/ \E d \in Device : BindDevice(d, s)
       \/ \E w \in TargetWindow \cup {0} : BindTargetWindow(s, w)
  \/ \E d \in Device : UnbindDevice(d)
  \/ \E d \in Device, isolating \in BOOLEAN : RouteEvent(d, isolating)

-----------------------------------------------------------------------------
(* Type invariant of planning and routing.                                  *)
IsolationTypeOK ==
  /\ plan.selected \subseteq BackendId
  /\ plan.status \in {"none", "Supported", "SupportedWithWarnings", "ObservationOnly",
                      "Unsupported"}
  /\ DOMAIN seats \subseteq Workspace
  /\ routes.owner \in [Device -> Workspace \cup {0}]

(* A plan takes only backends that every policy permits, gives each wished    *)
(* capability to exactly one of them, and calls a profile supported only when *)
(* all it needs is covered; without the recovery guard nothing that changes   *)
(* what a game sees is planned for a profile that requires it.  A profile     *)
(* that must keep out all foreign input has no supported plan: no backend     *)
(* suppresses physical input.                                               *)
PlansArePermitted ==
  LET p == planFor.profile
      env == planFor.environment
      good == plan.status \notin {"none", "Unsupported"}
  IN /\ \A b \in plan.selected : ~Rejected(b, p, env)
     /\ \A b, c \in plan.selected : b # c => plan.assigned[b] \cap plan.assigned[c] = {}
     /\ UNION { plan.assigned[b] : b \in plan.selected } = plan.covered
     /\ good => Needed(p) \subseteq plan.covered
     /\ good /\ p.recovery = "Required" => "guard" \in env.approved
     /\ "antiCheat" \in p.marks /\ p.antiCheat # "ExplicitExperimentalOverride" =>
          \A b \in plan.selected : ~Invasive(b)
     /\ "zeroBleed" \in p.marks => ~good
     /\ plan.status = "Supported" => \A b \in plan.selected : ~Elevated(b)

(* An event goes to a Seat only when that Seat owned the device; what nobody  *)
(* owns stays with Windows.                                                  *)
RoutesFollowOwners ==
  [][decided' # decided =>
       LET s == decided'.seat
       IN IF s = 0 THEN ~decided'.consume
          ELSE s \in DOMAIN seats /\ routes.owner[decided'.device] = s]_isolationVars
=============================================================================
