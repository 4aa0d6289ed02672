--------------------------- MODULE WindowPlacement ---------------------------
(***************************************************************************)
(* The windows of the Seats' games: which belong to whom, and where they   *)
(* are put.                                                                *)
(***************************************************************************)
EXTENDS Integers, FiniteSets

(***************************************************************************)
(* The window tracker: which windows belong to which Seat and which of     *)
(* them is the target a Seat is shown on (visual) and gets its input at    *)
(* (input).  The worker inspects a window without a lock and records it    *)
(* under the lock; process trees, rules, start and stop come from other    *)
(* threads.                                                                *)
(***************************************************************************)

CONSTANTS
  TrackedSeat, TrackedProcess, TrackedWindow,
  ProcessOf,      \* the process that owns a window
  TieRank,        \* order of windows that look alike: age, ids, handle
  Appearance,     \* what an inspection may see: a role and a rank
  TargetRules,    \* the roles a profile may ask for, input or none
  MaxIdentity     \* bound of the model: identities one window is given

(* The roles a window may have; one that is ignored is not recorded.       *)
Role == {"game", "input", "launcher", "dialog", "popup", "overlay"}

(* Seats are numbers, no two windows have the rank of one handle.          *)
ASSUME TrackerAssumption ==
  /\ TrackedSeat \subseteq Nat \ {0}
  /\ IsFiniteSet(TrackedWindow) /\ "none" \notin TrackedWindow \cup TrackedProcess
  /\ ProcessOf \in [TrackedWindow -> TrackedProcess] /\ TieRank \in [TrackedWindow -> Nat]
  /\ \A v, w \in TrackedWindow : TieRank[v] = TieRank[w] => v = w
  /\ Appearance \subseteq [role : Role, rank : Nat]
  /\ TargetRules \subseteq [visual : Role, input : Role \cup {"none"}]
  /\ MaxIdentity \in Nat

VARIABLES
  trees,          \* processTrees: what the process groups report for each Seat
  authority,      \* SeatTargetState's root and live processes, under the other lock
  tracked,        \* windows: identity (0 for none), Seat and appearance of each
  inspected,      \* the worker between inspect and the lock
  targets,        \* SeatTargetState::visual and ::input
  targetRoles,    \* visualTargetRole and inputTargetRole
  running,
  nextIdentity    \* nextIdentityGeneration, for each window

trackerVars == <<trees, authority, tracked, inspected, targets,
                 targetRoles, running, nextIdentity>>

Kind == {"visual", "input"}
ProcessTree == [root : TrackedProcess \cup {"none"}, live : SUBSET TrackedProcess]
NoTree == [root |-> "none", live |-> {}]
NoTarget == [window |-> "none", identity |-> 0]
Untracked == [identity |-> 0, seat |-> 0, role |-> "none", rank |-> 0]
NothingSeen(w) == [window |-> w, seat |-> 0, role |-> "none", rank |-> 0]
AnyRole == 1000
Distinct(rules) == rules.input # "none"
Desired(rules, kind) ==
  IF kind = "input" /\ Distinct(rules) THEN rules.input ELSE rules.visual

(* rolePenalty. *)
OtherRole == [game |-> 10, input |-> 11, launcher |-> 20, dialog |-> 30,
              popup |-> 40, overlay |-> 50]
Penalty(role, desired) == IF role = desired THEN 0 ELSE OtherRole[role]

(* initialRolePenaltyLimit: a launcher may stand in for the game's window, *)
(* nothing stands in for an input window.                                  *)
InitialLimit(desired, kind) ==
  IF kind = "visual" /\ desired = "game" THEN Penalty("launcher", "game") ELSE 0

(* betterCandidate on candidateRank; visibility, owner, root process and   *)
(* area are the rank.                                                      *)
BetterCandidate(win, v, w, desired) ==
  LET pv == Penalty(win[v].role, desired)
      pw == Penalty(win[w].role, desired)
  IN  \/ pv < pw
      \/ pv = pw /\ win[v].rank < win[w].rank
      \/ pv = pw /\ win[v].rank = win[w].rank /\ TieRank[v] < TieRank[w]

(* failClosedProcessTrees: a tree claims its root and all its processes,   *)
(* those that ended included; Seats that claim one process lose theirs.    *)
TreeClaim == {c \in [root : TrackedProcess \cup {"none"}, processes : SUBSET TrackedProcess,
                     live : SUBSET TrackedProcess] : c.live \subseteq c.processes}
Claimed(c) == IF c.root = "none" THEN {} ELSE {c.root} \cup c.processes
Unconflicted(claims) ==
  [s \in TrackedSeat |->
     IF \/ claims[s].root = "none"
        \/ \E t \in TrackedSeat \ {s} : Claimed(claims[s]) \cap Claimed(claims[t]) # {}
     THEN NoTree ELSE [root |-> claims[s].root, live |-> claims[s].live]]
PublishableTrees == {Unconflicted(claims) : claims \in [TrackedSeat -> TreeClaim]}

(* ownedBySeatAuthority, for the windows and trees given.                  *)
OwnedIn(win, auth, s, w) ==
  /\ win[w].identity # 0 /\ win[w].seat = s /\ ProcessOf[w] \in auth[s].live

TargetCandidates(win, auth, s, desired, limit) ==
  {w \in TrackedWindow : OwnedIn(win, auth, s, w)
                  /\ Penalty(win[w].role, desired) <= limit}

(* selectCandidate: the best window to show, the only one to send input to. *)
Best(win, set, desired) ==
  CHOOSE v \in set : \A w \in set \ {v} : BetterCandidate(win, v, w, desired)

(* Mutant of Ambiguous: off by one.                                        *)
AmbiguousAboveTwo(set, kind) == kind = "input" /\ Cardinality(set) > 2

Ambiguous(set, kind) == kind = "input" /\ Cardinality(set) > 1

(* A binding holds a copy of its window, of which the role matters later.  *)
Unbound(status, desired, limit) ==
  [status |-> status, desired |-> desired, target |-> NoTarget, role |-> "none",
   limit |-> limit]
BindTo(win, w, desired) ==
  [status |-> "Bound", desired |-> desired,
   target |-> [window |-> w, identity |-> win[w].identity], role |-> win[w].role,
   limit |-> Penalty(win[w].role, desired)]
StartReacquisition(desired, limit) == Unbound("Reacquiring", desired, limit)
FailClosedBinding(b) == Unbound("FailedClosed", b.desired, b.limit)
SetUnresolved(desired) == Unbound("Unresolved", desired, AnyRole)

(* The last part of refreshBindingLocked: a binding without a window.      *)
Reacquired(win, auth, s, kind, b, late) ==
  LET set == TargetCandidates(win, auth, s, b.desired, b.limit)
  IN  IF Ambiguous(set, kind) THEN FailClosedBinding(b)
      ELSE IF set # {} THEN BindTo(win, Best(win, set, b.desired), b.desired)
      ELSE IF late THEN FailClosedBinding(b) ELSE b

(* The same, for a binding that has one: a better window takes over, a     *)
(* window that is gone is replaced by one of no worse role than it had     *)
(* last.  A window that stays keeps the binding whatever role it has now.  *)
Rebound(win, auth, s, kind, b) ==
  LET w == b.target.window
      kept == OwnedIn(win, auth, s, w) /\ win[w].identity = b.target.identity
      set == TargetCandidates(win, auth, s, b.desired,
                              IF kind = "input" THEN b.limit ELSE AnyRole)
      best == Best(win, set, b.desired)
  IN  IF ~kept
      THEN Reacquired(win, auth, s, kind,
             StartReacquisition(b.desired, Penalty(b.role, b.desired)), FALSE)
      ELSE IF Ambiguous(set, kind) THEN FailClosedBinding(b)
      ELSE IF set # {} /\ best # w /\ BetterCandidate(win, best, w, b.desired)
      THEN BindTo(win, best, b.desired)
      ELSE [b EXCEPT !.role = win[w].role]

(* refreshBindingLocked. *)
RefreshBinding(win, auth, s, kind, b, late) ==
  IF auth[s].root = "none"
  THEN IF b.status = "Unresolved" THEN b ELSE SetUnresolved(b.desired)
  ELSE CASE b.status = "Unresolved" ->
              Reacquired(win, auth, s, kind,
                StartReacquisition(b.desired, InitialLimit(b.desired, kind)), FALSE)
         [] b.status = "Bound" -> Rebound(win, auth, s, kind, b)
         [] b.status = "Reacquiring" -> Reacquired(win, auth, s, kind, b, late)
         [] OTHER -> b

(* refreshTargetsLocked: without a role of its own the input follows the   *)
(* visual target.                                                          *)
RefreshTargets(win, auth, bindings, distinct, late) ==
  [s \in TrackedSeat |->
     LET visual == RefreshBinding(win, auth, s, "visual", bindings[s]["visual"], late)
     IN  [k \in Kind |->
            IF k = "visual" \/ ~distinct THEN visual
            ELSE RefreshBinding(win, auth, s, "input", bindings[s]["input"], late)]]

(* resetSeatBindingsLocked. *)
ResetBindings(auth, s, begin, rules) ==
  LET Fresh(k) == IF begin /\ auth[s].root # "none"
                  THEN StartReacquisition(Desired(rules, k), InitialLimit(Desired(rules, k), k))
                  ELSE SetUnresolved(Desired(rules, k))
  IN  [k \in Kind |-> IF Distinct(rules) THEN Fresh(k) ELSE Fresh("visual")]

TrackerInit ==
  /\ running = FALSE /\ nextIdentity = [w \in TrackedWindow |-> 1]
  /\ trees \in PublishableTrees /\ authority = trees
  /\ tracked = [w \in TrackedWindow |-> Untracked] /\ inspected = NothingSeen("none")
  /\ targetRoles \in TargetRules
  /\ targets = [s \in TrackedSeat |-> ResetBindings(authority, s, FALSE, targetRoles)]

(* inspect: the owner by the trees of that moment, the role by the title,  *)
(* class and owner the window has then and the rules of then (rules that   *)
(* leave the target roles alone change nothing else); a window that is     *)
(* gone, has no owner or is ignored is none.                               *)
OwnerFor(w) ==
  LET owners == {s \in TrackedSeat : ProcessOf[w] \in trees[s].live}
  IN  IF owners = {} THEN 0 ELSE CHOOSE s \in owners : \A t \in owners : s <= t

Inspect(w) ==
  /\ running /\ inspected = NothingSeen("none")
  /\ \/ inspected' = NothingSeen(w)
     \/ /\ OwnerFor(w) # 0
        /\ \E seen \in Appearance :
             inspected' = [window |-> w, seat |-> OwnerFor(w),
                           role |-> seen.role, rank |-> seen.rank]
  /\ UNCHANGED <<trees, authority, tracked, targets, targetRoles, running, nextIdentity>>

(* observe and removeTracked after inspect: the record is written over; a  *)
(* window not known before gets an identity of its own.  The rescan also   *)
(* notices deadlines.                                                      *)
Record(late) ==
  /\ inspected.window \in TrackedWindow
  /\ LET w == inspected.window
         new == inspected.seat # 0 /\ tracked[w].identity = 0
     IN  /\ tracked' = [tracked EXCEPT ![w] =
              IF inspected.seat = 0 THEN Untracked
              ELSE [identity |-> IF new THEN nextIdentity[w] ELSE @.identity,
                    seat |-> inspected.seat, role |-> inspected.role,
                    rank |-> inspected.rank]]
         /\ new => nextIdentity[w] <= MaxIdentity
         /\ nextIdentity' = [nextIdentity EXCEPT ![w] = @ + (IF new THEN 1 ELSE 0)]
  /\ targets' = RefreshTargets(tracked', authority, targets, Distinct(targetRoles), late)
  /\ inspected' = NothingSeen("none")
  /\ UNCHANGED <<trees, authority, targetRoles, running>>

(* enqueue on a full queue of callbacks and publishOverflowIfNeeded: every *)
(* identity is given up.                                                   *)
Overflow ==
  /\ running /\ inspected = NothingSeen("none")
  /\ tracked' = [w \in TrackedWindow |-> Untracked]
  /\ targets' = RefreshTargets(tracked', authority, targets, Distinct(targetRoles), FALSE)
  /\ UNCHANGED <<trees, authority, inspected, targetRoles, running, nextIdentity>>

(* The first half of setProcessTrees and replaceProcessTrees; there is one *)
(* caller.                                                                 *)
PublishTrees(published) ==
  /\ trees = authority
  /\ trees' = published /\ trees' # trees
  /\ UNCHANGED <<authority, tracked, inspected, targets, targetRoles, running, nextIdentity>>

(* The second half, under the other lock; a Seat starts over when it has   *)
(* no tree or another root.                                                *)
AdoptTrees ==
  /\ trees # authority /\ authority' = trees
  /\ LET started == [s \in TrackedSeat |->
           IF trees[s] = NoTree \/ trees[s].root # authority[s].root
           THEN ResetBindings(trees, s, running, targetRoles)
           ELSE targets[s]]
     IN  targets' = IF running
           THEN RefreshTargets(tracked, trees, started, Distinct(targetRoles), FALSE)
           ELSE started
  /\ UNCHANGED <<trees, tracked, inspected, targetRoles, running, nextIdentity>>

(* setProfileRules and updateTargetRules, for other target roles. *)
ChangeRules(rules) ==
  /\ rules # targetRoles /\ targetRoles' = rules
  /\ LET reset == [s \in TrackedSeat |-> ResetBindings(authority, s, running, rules)]
     IN  targets' = IF running
           THEN RefreshTargets(tracked, authority, reset, Distinct(rules), FALSE)
           ELSE reset
  /\ UNCHANGED <<trees, authority, tracked, inspected, running, nextIdentity>>

(* start with prepareTargetsForStart, and stop with invalidateTargetsForStop *)
(* after the worker has been joined.                                       *)
StartTracker ==
  /\ ~running /\ running' = TRUE
  /\ tracked' = [w \in TrackedWindow |-> Untracked]
  /\ targets' = [s \in TrackedSeat |-> ResetBindings(authority, s, TRUE, targetRoles)]
  /\ UNCHANGED <<trees, authority, inspected, targetRoles, nextIdentity>>

StopTracking ==
  /\ running /\ inspected = NothingSeen("none") /\ running' = FALSE
  /\ tracked' = [w \in TrackedWindow |-> Untracked]
  /\ targets' = [s \in TrackedSeat |-> ResetBindings(authority, s, FALSE, targetRoles)]
  /\ UNCHANGED <<trees, authority, inspected, targetRoles, nextIdentity>>

TrackerNext ==
  \/ \E w \in TrackedWindow : Inspect(w)
  \/ \E late \in BOOLEAN : Record(late)
  \/ Overflow
  \/ \E published \in PublishableTrees : PublishTrees(published)
  \/ AdoptTrees
  \/ \E rules \in TargetRules : ChangeRules(rules)
  \/ StartTracker \/ StopTracking

TrackerSpec == TrackerInit /\ [][TrackerNext]_trackerVars

-----------------------------------------------------------------------------
(* Type invariant of the tracker.                                          *)
TrackerTypeOK ==
  /\ trees \in [TrackedSeat -> ProcessTree] /\ authority \in [TrackedSeat -> ProcessTree]
  /\ targetRoles \in TargetRules
  /\ \A w \in TrackedWindow : tracked[w].identity \in 0..MaxIdentity
                       /\ tracked[w].seat \in TrackedSeat \cup {0}
  /\ \A s \in TrackedSeat, k \in Kind :
       targets[s][k].status \in {"Unresolved", "Reacquiring", "Bound", "FailedClosed"}

(* While the tracker runs a target is a window of a live process of its    *)
(* Seat under the identity and the role it was last seen with, whatever    *)
(* the trees, the rules and the windows did between inspection and lock;   *)
(* and input that has a role of its own has no rival: no other window of   *)
(* the Seat is as near to that role as the one it was bound to then.  So a *)
(* window that has exactly the role is the only one and has the input; but *)
(* where there is none the input stays with a window that lost the role.   *)
TargetsAreOwned ==
  running => \A s \in TrackedSeat, k \in Kind : LET b == targets[s][k] IN
    b.status = "Bound" =>
      /\ OwnedIn(tracked, authority, s, b.target.window)
      /\ tracked[b.target.window].identity = b.target.identity
      /\ tracked[b.target.window].role = b.role
      /\ k = "input" /\ Distinct(targetRoles) =>
           TargetCandidates(tracked, authority, s, targetRoles.input, b.limit)
             \subseteq {b.target.window}

-----------------------------------------------------------------------------
(***************************************************************************)
(* The placement of a game's window on the display of its Seat, and the    *)
(* lease that moves on to the window that replaces it and puts back what   *)
(* it changed.  The tracker's notices reach the lease in any order; a      *)
(* worker of the lease deals with the newest, and whoever ends the lease   *)
(* waits for the worker.                                                   *)
(***************************************************************************)

CONSTANTS PlacedSeat, MaxNotice    \* MaxNotice: bound of the model

ASSUME PlacementAssumption == PlacedSeat \in TrackedSeat /\ MaxNotice \in Nat \ {0}

VARIABLES
  alive,          \* the windows there are
  look,           \* identity a window was placed under, 0 if it is as the game made it
  targetGeneration,     \* bindingGeneration of the visual target
  notices,        \* dispatched to the observer and not yet there
  lease,
  mailbox,        \* pending_
  lastGeneration,
  restore,        \* currentRestore_
  currentIdentity,
  terminalFailure,
  placing,        \* the worker in handleBoundTarget, between its two halves
  rollbackError,
  unrestored      \* placements whose own rollback failed, a diagnostic only

leaseVars == <<lease, mailbox, lastGeneration, restore, currentIdentity,
               terminalFailure, placing, rollbackError, unrestored>>
lifeAndLeaseVars == <<alive, look, targetGeneration, notices, leaseVars>>
placementVars == <<trackerVars, lifeAndLeaseVars>>

NoNotice == [generation |-> 0, status |-> "Unresolved", target |-> NoTarget]
NoRestore == [target |-> NoTarget, look |-> 0]
Visual == targets[PlacedSeat]["visual"]
Snapshot ==
  [generation |-> targetGeneration, status |-> Visual.status, target |-> Visual.target]

(* validateIdentity. *)
Valid(target) ==
  /\ target.window \in alive
  /\ tracked[target.window].identity = target.identity
  /\ OwnedIn(tracked, authority, PlacedSeat, target.window)

(* captureRestoreState. *)
Captured(target) == [target |-> target, look |-> look[target.window]]

LeaseInit ==
  /\ alive = TrackedWindow /\ look = [w \in TrackedWindow |-> 0]
  /\ targetGeneration = 1 /\ notices = {} /\ lease = "none" /\ mailbox = NoNotice
  /\ lastGeneration = 0 /\ restore = NoRestore /\ currentIdentity = NoTarget
  /\ terminalFailure = FALSE /\ placing = NoTarget /\ rollbackError = FALSE
  /\ unrestored = {}

PlacementInit ==
  /\ TrackerInit /\ LeaseInit
  /\ trees[PlacedSeat].root # "none" /\ trees[PlacedSeat].live = TrackedProcess
  /\ targetRoles = [visual |-> "game", input |-> "none"]

(* A step of the tracker, with dispatchTargetNotifications if it changes   *)
(* the target, or sees the same window differently, for which there is no  *)
(* new generation.  A window that is gone is not found by inspect; the     *)
(* game's processes and the rules stay.                                    *)
TrackerMoves ==
  /\ TrackerNext /\ trees' = trees /\ targetRoles' = targetRoles
  /\ inspected'.seat # 0 => inspected'.window \in alive
  /\ LET changed == targets'[PlacedSeat]["visual"].status # Visual.status
                    \/ targets'[PlacedSeat]["visual"].target # Visual.target
         after == targets'[PlacedSeat]["visual"]
         seen == after.status = "Bound"
                 /\ tracked'[after.target.window] # tracked[after.target.window]
     IN  /\ targetGeneration' = targetGeneration + (IF changed THEN 1 ELSE 0)
         /\ targetGeneration' <= MaxNotice
         /\ notices' = IF (changed \/ seen) /\ lease = "armed"
              THEN notices \cup {[generation |-> targetGeneration', status |-> after.status,
                                  target |-> after.target]}
              ELSE notices
  /\ UNCHANGED <<alive, look, leaseVars>>

WindowDies(w) ==
  /\ w \in alive /\ alive' = alive \ {w}
  /\ UNCHANGED <<trackerVars, look, targetGeneration, notices, leaseVars>>

(* applyExactPlacement on a window: it fails before anything is changed,   *)
(* or changes it and holds what to put back, or changes it, fails and      *)
(* rolls back, which may fail as well.                                     *)
Place(target, outcome) ==
  CASE outcome = "placed" ->
         /\ Valid(target) /\ look' = [look EXCEPT ![target.window] = target.identity]
         /\ restore' = Captured(target) /\ currentIdentity' = target
         /\ UNCHANGED <<terminalFailure, unrestored>>
    [] outcome = "left native" ->
         /\ restore' = NoRestore /\ currentIdentity' = target
         /\ UNCHANGED <<look, terminalFailure, unrestored>>
    [] outcome = "rejected" ->
         /\ terminalFailure' = TRUE /\ currentIdentity' = NoTarget
         /\ UNCHANGED <<look, restore, unrestored>>
    [] outcome = "rejected half way" ->
         /\ Valid(target) /\ look' = [look EXCEPT ![target.window] = target.identity]
         /\ unrestored' = unrestored \cup {target.window}
         /\ terminalFailure' = TRUE /\ currentIdentity' = NoTarget
         /\ UNCHANGED restore

(* WindowPlacementEngine::apply up to the lease. *)
ApplyPlacement ==
  /\ lease = "none" /\ Visual.status = "Bound" /\ Place(Visual.target, "placed")
  /\ lease' = "placed"
  /\ UNCHANGED <<trackerVars, alive, targetGeneration, notices, mailbox, lastGeneration,
                 placing, rollbackError>>

(* WindowReacquisitionLease::create: observe first, then sample. *)
ArmLease ==
  /\ lease = "placed" /\ lease' = "armed" /\ mailbox' = Snapshot
  /\ UNCHANGED <<trackerVars, alive, look, targetGeneration, notices, lastGeneration, restore,
                 currentIdentity, terminalFailure, placing, rollbackError, unrestored>>

(* rollbackExactState with staleIsSafe: what is no longer ours is left. *)
PutBack(state, fails) ==
  IF Valid(state.target)
  THEN look' = IF fails THEN look ELSE [look EXCEPT ![state.target.window] = state.look]
  ELSE ~fails /\ look' = look

(* The launch fails with it and is not repeated on this window. *)
ArmingFails ==
  /\ lease = "placed" /\ lease' = "failed"
  /\ \E fails \in BOOLEAN :
       /\ PutBack(restore, fails)
       /\ unrestored' = IF fails THEN unrestored \cup {restore.target.window} ELSE unrestored
  /\ restore' = NoRestore /\ currentIdentity' = NoTarget
  /\ UNCHANGED <<trackerVars, alive, targetGeneration, notices, mailbox, lastGeneration,
                 terminalFailure, placing, rollbackError>>

(* onWindowTargetChanged: a mailbox for one, the newer stays. *)
Deliver(notice) ==
  /\ notice \in notices /\ notices' = notices \ {notice}
  /\ mailbox' = IF lease = "armed" /\ notice.generation >= mailbox.generation
                THEN notice ELSE mailbox
  /\ UNCHANGED <<trackerVars, alive, look, targetGeneration, lease, lastGeneration, restore,
                 currentIdentity, terminalFailure, placing, rollbackError, unrestored>>

(* Mutant of HandleBound: the window before stays as it was placed.        *)
HandleBoundOnly(target, fails) ==
  /\ placing' = target /\ ~fails /\ UNCHANGED <<look, terminalFailure, currentIdentity>>

(* handleBoundTarget up to the placement: the window before is put back. *)
HandleBound(target, fails) ==
  /\ PutBack(restore, fails)
  /\ IF fails
     THEN terminalFailure' = TRUE /\ currentIdentity' = NoTarget /\ placing' = placing
     ELSE placing' = target /\ UNCHANGED <<terminalFailure, currentIdentity>>

(* workerMain with one notice. *)
TakeNotice(fails) ==
  /\ lease = "armed" /\ placing = NoTarget /\ mailbox # NoNotice
  /\ mailbox' = NoNotice
  /\ LET old == mailbox.generation < lastGeneration
         handled == ~old /\ ~terminalFailure
         bound == handled /\ mailbox.status = "Bound" /\ Valid(mailbox.target)
                  /\ mailbox.target # currentIdentity
     IN  /\ lastGeneration' = IF old THEN lastGeneration ELSE mailbox.generation
         /\ IF bound THEN HandleBound(mailbox.target, fails)
            ELSE /\ ~fails
                 /\ currentIdentity' = IF handled /\ mailbox.status # "Bound"
                                       THEN NoTarget ELSE currentIdentity
                 /\ terminalFailure' = (terminalFailure
                      \/ (~old /\ mailbox.status = "FailedClosed"))
                 /\ UNCHANGED <<look, placing>>
  /\ UNCHANGED <<trackerVars, alive, targetGeneration, notices, lease, restore, rollbackError,
                 unrestored>>

PlaceReplacement ==
  /\ placing # NoTarget /\ placing' = NoTarget
  /\ \E outcome \in {"placed", "left native", "rejected", "rejected half way"} :
       Place(placing, outcome)
  /\ UNCHANGED <<trackerVars, alive, targetGeneration, notices, lease, mailbox, lastGeneration,
                 rollbackError>>

(* stopAndRollback: no more notices, the worker is joined, one rollback. *)
StopLease ==
  /\ lease = "armed" /\ lease' = "stopping"
  /\ UNCHANGED <<trackerVars, alive, look, targetGeneration, notices, mailbox, lastGeneration,
                 restore, currentIdentity, terminalFailure, placing, rollbackError,
                 unrestored>>

FinishLease ==
  /\ lease = "stopping" /\ placing = NoTarget /\ lease' = "done"
  /\ \E fails \in BOOLEAN :
       /\ IF restore = NoRestore THEN ~fails /\ look' = look ELSE PutBack(restore, fails)
       /\ rollbackError' = fails
  /\ UNCHANGED <<trackerVars, alive, targetGeneration, notices, mailbox, lastGeneration,
                 restore, currentIdentity, terminalFailure, placing, unrestored>>

PlacementNext ==
  \/ TrackerMoves
  \/ \E w \in TrackedWindow : WindowDies(w)
  \/ ApplyPlacement \/ ArmLease \/ ArmingFails
  \/ \E notice \in notices : Deliver(notice)
  \/ \E fails \in BOOLEAN : TakeNotice(fails)
  \/ PlaceReplacement \/ StopLease \/ FinishLease

PlacementSpec == PlacementInit /\ [][PlacementNext]_placementVars

-----------------------------------------------------------------------------
(* Type invariant of the placement.                                        *)
PlacementTypeOK ==
  /\ alive \subseteq TrackedWindow /\ look \in [TrackedWindow -> 0..MaxIdentity]
  /\ targetGeneration \in 1..MaxNotice
  /\ lease \in {"none", "placed", "failed", "armed", "stopping", "done"}
  /\ unrestored \subseteq TrackedWindow /\ lastGeneration <= targetGeneration

(* A window changed under the identity it still has is the one the lease   *)
(* will put back, until the lease has ended without an error: replacing    *)
(* the window leaves no other one changed, whatever the order of the       *)
(* notices.  Excepted are placements that failed half way and could not    *)
(* be undone, which the code only mentions.                                *)
PlacedWindowsAreHeld ==
  \A w \in alive \ unrestored :
    look[w] # 0 /\ look[w] = tracked[w].identity =>
      /\ restore.target = [window |-> w, identity |-> look[w]]
      /\ lease = "done" => rollbackError

(* What the lease puts back is the window as the game made it.             *)
CleanupRestoresWindow ==
  lease = "done" /\ ~rollbackError /\ restore # NoRestore /\ Valid(restore.target) =>
    look[restore.target.window] = 0
=============================================================================
