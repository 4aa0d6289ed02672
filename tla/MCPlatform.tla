----------------------------- MODULE MCPlatform -----------------------------
(* Small instances of what a game and its Seat see of the platform: input,  *)
(* windows, displays and messages.  `scene' is what runs, the others stay in *)
(* one initial state.                                                       *)
EXTENDS SeatRuntimePolicy, VirtualRawInput, VirtualXInput,
        MCWindowPlacement, HostExchange, InputIsolation, InputEvidence

(* Two displays for two Seats; two windows of a Seat for the policy.       *)
Selection(o, required, shareable) ==
  [output |-> o, required |-> required, shareable |-> shareable]
DisplayRequest(selections, primary, pause) ==
  [selections |-> selections, primary |-> primary, block |-> TRUE, pause |-> pause]

MCOutputOrder == [o \in {"left", "right"} |-> IF o = "left" THEN 1 ELSE 2]
Rect(left, right) == [left |-> left, right |-> right]
MCOutputBounds == {Rect(0, 2), Rect(1, 3), Rect(2, 4)}

(* Each its own display, one sharing its second display, one taking it.    *)
MCDisplayRequests ==
  { 1 :> DisplayRequest({Selection("left", TRUE, FALSE),
                         Selection("right", ~shared, shared)}, "left", TRUE)
      @@ 2 :> DisplayRequest({Selection("right", TRUE, shared)}, "right", FALSE) :
    shared \in BOOLEAN }

MCPolicyWindows ==
  { [generation |-> g, role |-> "game", width |-> 1] : g \in 1..2 }
OneOutput(rect, degraded) ==
  [resolved |-> TRUE, outputs |-> "left" :> rect, primary |-> "left",
   origin |-> rect.left, bounds |-> rect, degraded |-> degraded]
MCPolicyGroups ==
  { OneOutput(Rect(0, 2), FALSE), OneOutput(Rect(2, 4), FALSE), OneOutput(Rect(0, 2), TRUE) }
MCPolicy(mode) ==
  [mode |-> mode, role |-> IF mode = "Span" THEN "dialog" ELSE "any",
   output |-> "right", local |-> Rect(0, 1)]
MCWindowPolicies == {MCPolicy(m) : m \in {"Primary", "RestoreLast", "Exclusive", "Selected"}}

VARIABLE scene

platformVars ==
  <<rawVars, xinputVars, cursorVars, placementVars, layoutVars, policyVars,
    wireVars, exchangeVars, isolationVars, evidenceVars, scene>>

Scene == {"raw", "keys", "xinput", "one slot", "cursor", "tracker", "placement",
          "displays", "policy", "wire", "exchange", "planning",
          "routing", "evidence"}

(* Two logical slots for three commands, or one for all of them: a slot   *)
(* that changes hands and vibrates again takes five.                      *)
XInputBounds ==
  /\ scene = "xinput" => xSequence' <= 3
  /\ scene = "one slot" => xSlots'[1] = xSlots[1] /\ gameRead'[1] = gameRead[1]

(* For the tracker the trees change, and the windows' roles: a tree grows   *)
(* by a process, gets another root, loses what lives of it or ends, beside  *)
(* the tree of the other Seat.  For the lease the first window may come to  *)
(* look worse than the other while it is the target for the first time.     *)
TrackerBounds ==
  /\ scene = "tracker" =>
       /\ trees'[1].root = p1 => trees'[1].live # {p2}
       /\ trees'[1].root = p2 => trees'[1].live = {p2}
       /\ trees'[2] \in {NoTree, [root |-> p2, live |-> {p2}]}
       /\ trees'[2] # NoTree => trees'[1] \in {NoTree, [root |-> p1, live |-> {p1}]}
       /\ inspected'.seat = 1 => inspected'.role \in {"input", "dialog"}
       /\ inspected'.seat = 2 => inspected'.role = "input"
       /\ nextIdentity'[w2] <= 2
  /\ scene = "placement" /\ inspected'.seat # 0 =>
       /\ inspected'.role = "game"
       /\ \/ inspected'.rank = tracked[inspected'.window].rank
          \/ inspected'.window = w1 /\ inspected'.rank = 1 /\ targetGeneration <= 2

(* One display may come up in the place of the other, not in between.      *)
DisplayBounds == plugged["left"] # Rect(1, 3)

ScenesStill ==
  /\ UNCHANGED scene
  /\ scene \notin {"raw", "keys"} => UNCHANGED rawVars
  /\ scene \notin {"xinput", "one slot"} => UNCHANGED xinputVars
  /\ scene # "cursor" => UNCHANGED cursorVars
  /\ scene \notin {"tracker", "placement"} => UNCHANGED trackerVars
  /\ scene # "placement" => UNCHANGED lifeAndLeaseVars
  /\ scene # "displays" => UNCHANGED layoutVars
  /\ scene # "policy" => UNCHANGED policyVars
  /\ scene # "wire" => UNCHANGED wireVars
  /\ scene # "exchange" => UNCHANGED exchangeVars
  /\ scene \notin {"planning", "routing"} => UNCHANGED isolationVars
  /\ scene # "evidence" => UNCHANGED evidenceVars

PlatformInit ==
  /\ scene \in Scene
  /\ RawInit /\ XInputInit /\ CursorInit
  /\ TrackerInit /\ LeaseInit
  /\ scene \notin {"tracker", "placement"} =>
       ~Distinct(targetRoles) /\ trees = [s \in TrackedSeat |-> NoTree]
  /\ scene = "placement" => PlacementInit
  /\ scene = "tracker" => Distinct(targetRoles) /\ trees = [s \in TrackedSeat |-> NoTree]
  /\ LayoutInit /\ DisplayBounds
  /\ scene # "displays" => /\ \A o \in DisplayOutput : plugged[o] = EmptyRect
                           /\ ~(\E s \in requests[2].selections : s.shareable)
  /\ PolicyInit
  /\ WireInit /\ (scene # "wire" => wireLink = <<"host", "Ping">>)
  /\ ExchangeInit
  /\ scene # "planning" =>
       planFor = [profile |-> ObservationProfile,
                  environment |-> [approved |-> {}, available |-> {"raw"}]]
  /\ IsolationInit
  /\ EvidenceInit

PlatformNext ==
  \/ scene = "raw" /\ RawStreamNext /\ ScenesStill
  \/ scene = "keys" /\ KeyAndWindowNext /\ ScenesStill
  \/ scene \in {"xinput", "one slot"} /\ XInputNext /\ XInputBounds /\ ScenesStill
  \/ scene = "cursor" /\ CursorNext /\ ScenesStill
  \/ scene = "tracker" /\ TrackerNext /\ TrackerBounds /\ ScenesStill
  \/ scene = "placement" /\ PlacementNext /\ TrackerBounds /\ ScenesStill
  \/ scene = "displays" /\ LayoutNext /\ DisplayBounds' /\ ScenesStill
  \/ scene = "policy" /\ PolicyNext /\ ScenesStill
  \/ scene = "wire" /\ WireNext /\ ScenesStill
  \/ scene = "exchange" /\ ExchangeNext /\ ScenesStill
  \/ scene = "planning" /\ PlanNext /\ ScenesStill
  \/ scene = "routing" /\ RoutingNext /\ ScenesStill
  \/ scene = "evidence" /\ EvidenceNext /\ ScenesStill

PlatformSpec == PlatformInit /\ [][PlatformNext]_platformVars

(* The type invariants, each looked at where its component runs.            *)
PlatformTypeOK ==
  /\ scene \in {"raw", "keys"} => RawTypeOK
  /\ scene \in {"xinput", "one slot"} => XInputTypeOK
  /\ scene = "cursor" => CursorTypeOK
  /\ scene \in {"tracker", "placement"} => TrackerTypeOK /\ PlacementTypeOK
  /\ scene = "displays" => LayoutTypeOK
  /\ scene = "policy" => PolicyTypeOK
  /\ scene = "wire" => WireTypeOK
  /\ scene = "exchange" => ExchangeTypeOK
  /\ scene \in {"planning", "routing"} => IsolationTypeOK
  /\ scene = "evidence" => EvidenceTypeOK

(* A game sees the input of its own Seat and nothing else: keyboard, mouse *)
(* and controller; and what is planned to keep input apart is permitted.    *)
InputIsExact ==
  /\ scene \in {"raw", "keys"} => RawInputIsExact
  /\ scene \in {"xinput", "one slot"} => XInputIsExact
  /\ scene = "cursor" => CursorIsExact
  /\ scene = "planning" => PlansArePermitted
  /\ scene = "evidence" => EvidenceIsNotOverstated

(* A Seat's windows are its own, what a placement changed is put back, and *)
(* the displays a Seat gets, or gets back, are its own, where they are.    *)
WindowsAreOwned ==
  /\ scene \in {"tracker", "placement"} => TargetsAreOwned /\ PlacedWindowsAreHeld
  /\ scene = "displays" => SeatsSeeTheirOwn /\ RecoveryIsCurrent
  /\ scene = "policy" => HealthySeatIsPlaced

(* Late display events undo nothing newer; what came late or only in part is *)
(* taken for no other message, and every message for what it says; an input   *)
(* event goes by the ownership of its own moment.                            *)
LateCallsChangeNothing ==
  /\ AcceptedForward /\ RoutesFollowOwners
  /\ [](scene = "exchange" => AnswersBelong) /\ [](scene = "wire" => WireIsExact)
=============================================================================
