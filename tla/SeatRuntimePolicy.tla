-------------------------- MODULE SeatRuntimePolicy --------------------------
(***************************************************************************)
(* The displays of the Seats and the windows that are kept on them.        *)
(***************************************************************************)
EXTENDS Integers, FiniteSets, Sequences, TLC

(***************************************************************************)
(* The displays of the machine, the groups of displays the Seats get and   *)
(* the recovery when displays come, go or move: a query of the topology    *)
(* gets a generation, its callbacks arrive late and in any order, a        *)
(* debouncer accepts the newest after a quiet time and the layout of each  *)
(* Seat is planned again.  Desktop coordinates are those of one axis.      *)
(***************************************************************************)

CONSTANTS
  LayoutSeat, DisplayOutput,
  OutputOrder,     \* a number for each output: the order of their identifiers
  OutputBounds,          \* the bounds an active output may have: [left, right]
  DisplayRequests,        \* the requests of the Seats: functions of LayoutSeat
  MaxTopology      \* bound of the model: queries of the topology

(* A display that is active has a mode and so an area; the primary display *)
(* of a Seat is one of those it asks for.                                  *)
ASSUME LayoutAssumption ==
  /\ OutputOrder \in [DisplayOutput -> Nat] /\ MaxTopology \in Nat
  /\ \A r \in OutputBounds : r \in [left : Int, right : Int] /\ r.left < r.right
  /\ \A asked \in DisplayRequests : DOMAIN asked = LayoutSeat
  /\ \A asked \in DisplayRequests, s \in LayoutSeat :
       /\ asked[s] \in [selections : SUBSET [output : DisplayOutput, required : BOOLEAN,
                                             shareable : BOOLEAN],
                        primary : DisplayOutput, block : BOOLEAN, pause : BOOLEAN]
       /\ \E selection \in asked[s].selections : selection.output = asked[s].primary

VARIABLES
  plugged,         \* Windows: the bounds of each active output
  topologies,      \* the snapshots taken, by generation
  lastObserved, lastAccepted, quiet,   \* DisplayTopologyDebouncer
  requests,        \* the profiles' display requests
  layout,          \* buildSeatDisplayLayouts for all Seats
  recovery         \* planSeatDisplayRecovery for each Seat

layoutVars ==
  <<plugged, topologies, lastObserved, lastAccepted, quiet, requests, layout, recovery>>

EmptyRect == [left |-> 0, right |-> 0]
Inactive == [active |-> FALSE, bounds |-> EmptyRect]
HasArea(r) == r.right > r.left
RectsOverlap(r, s) == HasArea(r) /\ HasArea(s) /\ r.left < s.right /\ s.left < r.right

(* mergeObservation; the query returns every path of a target. *)
MergeObservation(output, path) ==
  [active |-> output.active \/ path.active,
   bounds |-> IF ~HasArea(output.bounds) \/ path.active THEN path.bounds
              ELSE output.bounds]

(* assembleDisplayTopology: an active output has a path that is and others *)
(* that are not, in an order of Windows.                                   *)
Assembled(o, activeFirst) ==
  IF plugged[o] = EmptyRect THEN Inactive
  ELSE LET path == [active |-> TRUE, bounds |-> plugged[o]]
       IN  IF activeFirst THEN MergeObservation(path, Inactive)
           ELSE MergeObservation(Inactive, path)

(* A topology that was not read has no outputs. *)
FailedTopology == [succeeded |-> FALSE, outputs |-> [o \in DisplayOutput |-> Inactive]]

-----------------------------------------------------------------------------
(* buildSeatDisplayLayouts. *)
ResolvedOutputs(topology, request) ==
  {s \in request.selections : topology.outputs[s.output].active
                              /\ HasArea(topology.outputs[s.output].bounds)}
MissingRequired(topology, request) ==
  {s \in request.selections \ ResolvedOutputs(topology, request) :
     s.required \/ topology.outputs[s.output].active}

PrimaryOf(topology, request) ==
  LET ids == {s.output : s \in ResolvedOutputs(topology, request)}
  IN  IF request.primary \in ids THEN request.primary
      ELSE CHOOSE o \in ids : \A p \in ids : OutputOrder[o] <= OutputOrder[p]

Leftmost(set) == CHOOSE x \in set : \A y \in set : x <= y
Rightmost(set) == CHOOSE x \in set : \A y \in set : x >= y

SeatDisplayGroup(topology, seat, request) ==
  LET selected == ResolvedOutputs(topology, request)
      rect == [o \in {s.output : s \in selected} |-> topology.outputs[o].bounds]
      primary == PrimaryOf(topology, request)
  IN  [seat |-> seat, outputs |-> rect,
       shareable |-> {s.output : s \in {t \in selected : t.shareable}},
       primary |-> primary, origin |-> rect[primary].left,
       bounds |-> [left |-> Leftmost({rect[o].left : o \in DOMAIN rect}),
                   right |-> Rightmost({rect[o].right : o \in DOMAIN rect})],
       degraded |-> \/ MissingRequired(topology, request) # {}
                    \/ request.primary \notin DOMAIN rect]

(* A request no group can be made for. *)
LayoutBlocked(topology, request) ==
  \/ ResolvedOutputs(topology, request) = {}
  \/ /\ request.block
     /\ \/ MissingRequired(topology, request) # {}
        \/ PrimaryOf(topology, request) # request.primary

(* Mutant of DisplayConflict: different names never meet.                  *)
DisplayConflictByName(g, h) ==
  \E o \in DOMAIN g.outputs \cap DOMAIN h.outputs :
    o \notin g.shareable \cap h.shareable

(* Two Seats on one output, or on outputs in one place, unless both share. *)
DisplayConflict(g, h) ==
  \E o \in DOMAIN g.outputs, p \in DOMAIN h.outputs :
    /\ o = p \/ RectsOverlap(g.outputs[o], h.outputs[p])
    /\ ~(o \in g.shareable /\ p \in h.shareable)

NoLayout == [valid |-> FALSE, groups |-> {}]

BuildLayouts(topology, asked) ==
  LET seats == DOMAIN asked
      open == {s \in seats : ~LayoutBlocked(topology, asked[s])}
      groups == {SeatDisplayGroup(topology, s, asked[s]) : s \in open}
  IN  IF ~topology.succeeded \/ seats = {} THEN NoLayout
      ELSE [valid |-> open = seats /\ \A g, h \in groups : g # h => ~DisplayConflict(g, h),
            groups |-> groups]

-----------------------------------------------------------------------------
(* planSeatDisplayRecovery; without the primary output of the Seat there   *)
(* is no layout, and nothing is taken from the other Seat.                 *)
PlanRecovery(previous, topology, seat, request) ==
  LET missing == {s \in request.selections : ~topology.outputs[s.output].active}
      lenient == [request EXCEPT !.block = @ /\ ~(\E s \in missing : s.required)]
      built == BuildLayouts(topology, [s \in {seat} |-> lenient])
      group == CHOOSE g \in built.groups : TRUE
      degraded == group.degraded \/ missing # {}
  IN  IF ~topology.succeeded THEN [disposition |-> "Invalid", group |-> {}]
      ELSE IF \E s \in missing : s.output = request.primary
      THEN [disposition |-> IF request.pause THEN "PauseRequired" ELSE "StopRequired",
            group |-> {}]
      ELSE IF ~built.valid THEN [disposition |-> "Invalid", group |-> {}]
      ELSE [disposition |-> IF degraded THEN "DegradedToSeatPrimary"
                            ELSE IF previous # {} /\ previous # {group}
                            THEN "RestoreStableLayout" ELSE "Stable",
            group |-> {group}]

-----------------------------------------------------------------------------
LayoutInit ==
  /\ plugged \in [DisplayOutput -> OutputBounds \cup {EmptyRect}]
  /\ topologies = <<>> /\ lastObserved = 0 /\ lastAccepted = 0 /\ quiet = FALSE
  /\ requests \in DisplayRequests /\ layout = NoLayout
  /\ recovery = [s \in LayoutSeat |-> [disposition |-> "Stable", group |-> {}]]

DisplayChanges(o, bounds) ==
  /\ plugged' = [plugged EXCEPT ![o] = bounds] /\ plugged' # plugged
  /\ UNCHANGED <<topologies, lastObserved, lastAccepted, quiet, requests, layout, recovery>>

(* DisplayTopologyInventory::refresh with collectDisplayTopology: a query  *)
(* that fails, or that the topology outruns at every attempt, fails.       *)
RefreshTopology(activeFirst, succeeds) ==
  /\ Len(topologies) < MaxTopology
  /\ topologies' = Append(topologies,
       IF succeeds THEN [succeeded |-> TRUE,
                         outputs |-> [o \in DisplayOutput |-> Assembled(o, activeFirst)]]
       ELSE FailedTopology)
  /\ UNCHANGED <<plugged, lastObserved, lastAccepted, quiet, requests, layout, recovery>>

(* The Seats are set up. *)
BuildForSeats ==
  /\ topologies # <<>> /\ layout = NoLayout
  /\ layout' = BuildLayouts(topologies[Len(topologies)], requests)
  /\ UNCHANGED <<plugged, topologies, lastObserved, lastAccepted, quiet, requests, recovery>>

(* Mutant of ObserveTopology: any callback is news.                        *)
ObserveAnyTopology(generation) ==
  /\ lastObserved' = generation /\ quiet' = FALSE
  /\ UNCHANGED <<plugged, topologies, lastAccepted, requests, layout, recovery>>

(* DisplayTopologyDebouncer::observe: an older generation is no news. *)
ObserveTopology(generation) ==
  /\ generation > lastObserved /\ generation > lastAccepted
  /\ lastObserved' = generation /\ quiet' = FALSE
  /\ UNCHANGED <<plugged, topologies, lastAccepted, requests, layout, recovery>>

QuietPeriodEnds ==
  /\ ~quiet /\ quiet' = TRUE
  /\ UNCHANGED <<plugged, topologies, lastObserved, lastAccepted, requests, layout, recovery>>

(* ready and accept, and the recovery of every Seat.                       *)
AcceptTopology ==
  /\ lastObserved # 0 /\ lastObserved # lastAccepted /\ quiet
  /\ lastAccepted' = lastObserved
  /\ recovery' = [s \in LayoutSeat |->
       PlanRecovery(recovery[s].group, topologies[lastObserved], s, requests[s])]
  /\ UNCHANGED <<plugged, topologies, lastObserved, quiet, requests, layout>>

LayoutNext ==
  \/ \E o \in DisplayOutput, bounds \in OutputBounds \cup {EmptyRect} : DisplayChanges(o, bounds)
  \/ \E activeFirst, succeeds \in BOOLEAN : RefreshTopology(activeFirst, succeeds)
  \/ BuildForSeats \/ QuietPeriodEnds \/ AcceptTopology
  \/ \E generation \in 1..Len(topologies) : ObserveTopology(generation)

LayoutSpec == LayoutInit /\ [][LayoutNext]_layoutVars

-----------------------------------------------------------------------------
(* CoordinateTransform of a group: what the Seat sees of a rectangle of the *)
(* desktop, in the Seat's own coordinates.                                  *)
GlobalToSeat(g, x) == x - g.origin
SeatToGlobal(g, x) == x + g.origin
ClipToOutputs(g, r) ==
  {c \in {[left |-> Rightmost({r.left, g.outputs[o].left}),
           right |-> Leftmost({r.right, g.outputs[o].right})] : o \in DOMAIN g.outputs} :
     HasArea(c)}
SeenBySeat(g, r) ==
  {[left |-> GlobalToSeat(g, c.left), right |-> GlobalToSeat(g, c.right)] :
     c \in ClipToOutputs(g, r)}

(* Type invariant of the displays.                                         *)
LayoutTypeOK ==
  /\ plugged \in [DisplayOutput -> OutputBounds \cup {EmptyRect}] /\ requests \in DisplayRequests
  /\ lastAccepted <= lastObserved /\ lastObserved <= Len(topologies)
  /\ layout.valid \in BOOLEAN

(* What a Seat sees of its neighbour's display is where both share, in its *)
(* own coordinates: nothing is seen of a display that is not shared.       *)
SeatsSeeTheirOwn ==
  layout.valid =>
    \A g, h \in layout.groups : g # h =>
      \A o \in DOMAIN g.outputs : \A c \in SeenBySeat(h, g.outputs[o]) :
        /\ o \in g.shareable
        /\ \E p \in h.shareable :
             /\ SeatToGlobal(h, c.left) >= h.outputs[p].left
             /\ SeatToGlobal(h, c.right) <= h.outputs[p].right

(* The recovered layout is the one of the newest topology that was         *)
(* observed and accepted: it has the displays where that topology has      *)
(* them, and the Seat's own primary.                                       *)
RecoveryIsCurrent ==
  \A s \in LayoutSeat : \A g \in recovery[s].group :
    /\ lastAccepted # 0
    /\ g.primary = requests[s].primary
    /\ \A o \in DOMAIN g.outputs :
         /\ \E selection \in requests[s].selections : selection.output = o
         /\ topologies[lastAccepted].outputs[o] = [active |-> TRUE, bounds |-> g.outputs[o]]

(* Delayed callbacks never take the accepted topology back to an older one. *)
AcceptedForward == [][lastAccepted' >= lastAccepted]_layoutVars

-----------------------------------------------------------------------------
(***************************************************************************)
(* The coordinator that keeps the windows of a Seat where its policy wants *)
(* them: it takes the numbered events of the tracker and of the displays,  *)
(* in any order, plans every window again and executes the plans that are  *)
(* new.  The executor is the caller's: an execution may fail, after having *)
(* moved the window or not.                                                *)
(***************************************************************************)

CONSTANTS
  Handle,          \* native handles, which are numbers
  PolicyWindows,   \* the windows the tracker may tell of
  PolicyGroups,    \* the display groups the Seat may get
  WindowPolicies,  \* the policies that may be set
  MaxEvent         \* bound of the model: sequence numbers of events

(* The tracker counts the windows it gives identities from 1.              *)
ASSUME PolicyAssumption ==
  /\ Handle \subseteq Nat /\ MaxEvent \in Nat
  /\ \A window \in PolicyWindows : window.generation \in Nat \ {0}

VARIABLES
  seatWindows,     \* state.windows
  seatGroup,       \* state.displayGroup
  windowPolicy,    \* state.windowPolicy and policyConfigured
  lastApplied,     \* state.lastAppliedPlans
  policyHealth, lastEvent,
  placedAt,        \* the instance and the place of each handle's last execution
  reconciled       \* the policy of the last reconciliation, for the properties

policyVars ==
  <<seatWindows, seatGroup, windowPolicy, lastApplied, policyHealth, lastEvent,
    placedAt, reconciled>>

NoSeatWindow == [generation |-> 0]
NoGroup == [resolved |-> FALSE, outputs |-> <<>>]
NoPolicy == [mode |-> "None"]
NoPlan == [valid |-> FALSE, actionable |-> FALSE, degraded |-> FALSE, rect |-> EmptyRect]
Nowhere == [generation |-> 0, plan |-> NoPlan]

(* validateWindowPlacementPolicy, of what a plan is made from.             *)
PolicyIsValid(policy) ==
  /\ policy.mode = "Selected" => policy.output # "none"
  /\ policy.mode = "RestoreLast" => HasArea(policy.local)

LeaveNativePlan == [NoPlan EXCEPT !.valid = TRUE]
PlanFor(rect) == [NoPlan EXCEPT !.valid = TRUE, !.actionable = TRUE, !.rect = rect]

FitAtOrigin(window, output) ==
  [left |-> output.left,
   right |-> output.left + Leftmost({window.width, output.right - output.left})]

(* computeWindowPlacementPlan *)
ComputePlan(window, group, policy) ==
  CASE group.outputs = <<>> -> NoPlan
    [] policy.role # "any" /\ policy.role # window.role -> LeaveNativePlan
    [] policy.mode = "LeaveNative" -> LeaveNativePlan
    [] policy.mode = "Primary" ->
         IF group.primary \in DOMAIN group.outputs
         THEN PlanFor(FitAtOrigin(window, group.outputs[group.primary])) ELSE NoPlan
    [] policy.mode = "Span" -> PlanFor(group.bounds)
    [] policy.mode = "Selected" ->
         IF policy.output \in DOMAIN group.outputs
         THEN PlanFor(group.outputs[policy.output]) ELSE NoPlan
    [] policy.mode = "RestoreLast" ->
         PlanFor([left |-> SeatToGlobal(group, policy.local.left),
                  right |-> SeatToGlobal(group, policy.local.right)])
    [] policy.mode = "Exclusive" -> [LeaveNativePlan EXCEPT !.degraded = TRUE]
    [] policy.mode = "ExclusiveBlocked" -> NoPlan

-----------------------------------------------------------------------------
PolicyInit ==
  /\ seatWindows = [h \in Handle |-> NoSeatWindow] /\ seatGroup = NoGroup
  /\ windowPolicy = NoPolicy /\ lastApplied = [h \in Handle |-> NoPlan]
  /\ policyHealth = "Healthy" /\ lastEvent = 0
  /\ placedAt = [h \in Handle |-> Nowhere] /\ reconciled = NoPolicy

SetWindowPolicy(policy) ==
  /\ PolicyIsValid(policy) /\ windowPolicy' = policy /\ windowPolicy' # windowPolicy
  /\ UNCHANGED <<seatWindows, seatGroup, lastApplied, policyHealth, lastEvent,
                 placedAt, reconciled>>

HealthOfGroup ==
  IF ~seatGroup'.resolved \/ seatGroup'.outputs = <<>> \/ seatGroup'.degraded
  THEN "Degraded"
  ELSE IF policyHealth = "RecoveryRequired" THEN policyHealth ELSE "Healthy"

(* reconcile, with the plans that are known to be applied: the windows in  *)
(* the order of their handles, up to the first that has no valid plan or   *)
(* whose execution, retried, fails.                                        *)
ReconcileWindows(applied, outcome) ==
  LET tracked == {h \in Handle : seatWindows'[h] # NoSeatWindow}
      plan == [h \in tracked |-> ComputePlan(seatWindows'[h], seatGroup', windowPolicy)]
      executes == {h \in tracked : plan[h].actionable /\ plan[h] # applied[h]}
      stops == {h \in tracked : ~plan[h].valid
                                \/ (h \in executes /\ outcome[h] # "succeeded")}
      before == {h \in tracked : \A s \in stops : h < s}
      last == Leftmost(stops)
      native == \E h \in before : plan[h].degraded
      fitting == windowPolicy # NoPolicy /\ seatGroup'.resolved
  IN  IF ~fitting
      THEN /\ policyHealth' = HealthOfGroup
           /\ lastApplied' = applied /\ reconciled' = windowPolicy
           /\ UNCHANGED placedAt
      ELSE
      /\ policyHealth' =
           IF stops # {}
           THEN IF plan[last].valid /\ outcome[last] = "retryable" THEN "Degraded"
                ELSE "RecoveryRequired"
           ELSE IF native /\ HealthOfGroup = "Healthy" THEN "Degraded"
           ELSE HealthOfGroup
      /\ lastApplied' = [h \in Handle |-> IF h \in before \cap executes THEN plan[h]
                                         ELSE applied[h]]
      /\ placedAt' = [h \in Handle |->
           IF h \in before \cap executes
           THEN [generation |-> seatWindows'[h].generation, plan |-> plan[h]]
           ELSE IF stops # {} /\ h = last /\ h \in executes THEN Nowhere
           ELSE placedAt[h]]
      /\ reconciled' = windowPolicy

Outcome == [Handle -> {"succeeded", "retryable", "failed"}]

Accept(sequence) == sequence > lastEvent /\ lastEvent' = sequence

(* Mutant of ForgetApplied: the cache stays with the handle.               *)
ForgetAppliedNot(h, window) == lastApplied

(* A newer window of a reused handle has nothing applied to it. *)
ForgetApplied(h, window) ==
  IF seatWindows[h] # NoSeatWindow /\ seatWindows[h].generation < window.generation
  THEN [lastApplied EXCEPT ![h] = NoPlan] ELSE lastApplied

(* consume: WindowChanged; the tracker gives each window a generation.     *)
WindowChanged(sequence, h, window, outcome) ==
  /\ Accept(sequence) /\ UNCHANGED <<windowPolicy, seatGroup>>
  /\ \/ /\ window.generation < seatWindows[h].generation
        /\ UNCHANGED <<seatWindows, lastApplied, policyHealth, placedAt, reconciled>>
     \/ /\ window.generation >= seatWindows[h].generation
        /\ seatWindows' = [seatWindows EXCEPT ![h] = window]
        /\ ReconcileWindows(ForgetApplied(h, window), outcome)

(* consume: WindowRemoved, of a window that was told of or of an older one. *)
WindowRemoved(sequence, h, generation, outcome) ==
  /\ Accept(sequence) /\ UNCHANGED <<windowPolicy, seatGroup>>
  /\ \/ /\ seatWindows[h] # NoSeatWindow /\ generation < seatWindows[h].generation
        /\ UNCHANGED <<seatWindows, lastApplied, policyHealth, placedAt, reconciled>>
     \/ /\ seatWindows[h].generation \in {0, generation}
        /\ seatWindows' = [seatWindows EXCEPT ![h] = NoSeatWindow]
        /\ ReconcileWindows(IF seatWindows[h] = NoSeatWindow THEN lastApplied
                     ELSE [lastApplied EXCEPT ![h] = NoPlan], outcome)

LayoutChanged(sequence, group, outcome) ==
  /\ Accept(sequence) /\ seatGroup' = group
  /\ UNCHANGED <<seatWindows, windowPolicy>>
  /\ ReconcileWindows(lastApplied, outcome)

(* ProcessTreeChanged and Reconcile *)
ReconcileAgain(sequence, outcome) ==
  /\ Accept(sequence) /\ UNCHANGED <<seatWindows, seatGroup, windowPolicy>>
  /\ ReconcileWindows(lastApplied, outcome)

(* An event of another Seat, without an identity, or one that removes a    *)
(* newer window than is known or changes a window to another one of its    *)
(* generation: it does not use its number up.                              *)
RejectEvent(sequence) ==
  /\ sequence > lastEvent
  /\ policyHealth' = "RecoveryRequired"
  /\ UNCHANGED <<seatWindows, seatGroup, windowPolicy, lastApplied, lastEvent,
                 placedAt, reconciled>>

PolicyNext ==
  \/ \E policy \in WindowPolicies : SetWindowPolicy(policy)
  \/ \E sequence \in 1..MaxEvent : RejectEvent(sequence)
  \/ \E sequence \in 1..MaxEvent, outcome \in Outcome :
       \/ \E h \in Handle, window \in PolicyWindows :
            WindowChanged(sequence, h, window, outcome)
       \/ \E h \in Handle, window \in PolicyWindows :
            WindowRemoved(sequence, h, window.generation, outcome)
       \/ \E group \in PolicyGroups : LayoutChanged(sequence, group, outcome)
       \/ ReconcileAgain(sequence, outcome)

PolicySpec == PolicyInit /\ [][PolicyNext]_policyVars

-----------------------------------------------------------------------------
(* Type invariant of the policy coordinator.                               *)
PolicyTypeOK ==
  /\ seatWindows \in [Handle -> PolicyWindows \cup {NoSeatWindow}]
  /\ windowPolicy \in WindowPolicies \cup {NoPolicy} /\ lastEvent \in 0..MaxEvent
  /\ policyHealth \in {"Healthy", "Degraded", "RecoveryRequired"}

(* A Seat that is called healthy has every window where its policy wants   *)
(* it: the execution that put it there was for this very window, not for   *)
(* another one that had its handle.  A policy that was just set waits for  *)
(* the next event, and an execution that failed after the plan was applied *)
(* once leaves the old plan in the cache.                                  *)
HealthySeatIsPlaced ==
  policyHealth = "Healthy" /\ windowPolicy # NoPolicy /\ reconciled = windowPolicy =>
    \A h \in Handle : seatWindows[h] # NoSeatWindow =>
      LET plan == ComputePlan(seatWindows[h], seatGroup, windowPolicy)
      IN  /\ plan.valid
          /\ plan.actionable => \/ placedAt[h] = [generation |-> seatWindows[h].generation,
                                                  plan |-> plan]
                                \/ placedAt[h] = Nowhere
=============================================================================
