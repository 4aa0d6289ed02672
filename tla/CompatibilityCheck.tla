------------------------- MODULE CompatibilityCheck -------------------------
(* A compatibility check on this machine (local_compatibility_runner.cpp):   *)
(* a game is started in a Job, watched until a window of one of its           *)
(* processes is seen, observed for a while and stopped; the report made of    *)
(* it never claims more than was observed (session_metrics.cpp).  The game    *)
(* starts and ends processes, and the user may cancel, at any time.           *)
EXTENDS Naturals, FiniteSets

CONSTANT CheckProcess   \* the processes the game may have; one is its root

ASSUME CheckAssumption == CheckProcess # {}

VARIABLES
  check,         \* the run of the check
  checkedGame,   \* its processes and window
  cancelled      \* the stop token

checkVars == <<check, checkedGame, cancelled>>

CheckStep == {"validate", "observe", "launch", "owned", "window", "watch",
              "stop", "empty", "count", "report", "done"}
Risk == {"Unknown", "Protected", "Allowed"}

(* validateRequest(): the target's risk, one native executable that is not a  *)
(* shell or an installer, full containment, everything bounded.               *)
CheckRequest == [risk : Risk, executable : {"native", "shell"},
                 containment : {"RequireJobObject", "AllowPartial"}, bounded : BOOLEAN]
RequestResult(r) ==
  IF r.risk = "Unknown" THEN "RiskClassificationRequired"
  ELSE IF r.risk = "Protected" THEN "ProtectedTargetBlocked"
  ELSE IF r.executable = "shell" \/ r.containment # "RequireJobObject" \/ ~r.bounded
       THEN "InvalidRequest" ELSE "Success"

CheckRoot == CHOOSE p \in CheckProcess : TRUE
NoOwner == "no window"

Facts == [started |-> FALSE, window |-> FALSE, natural |-> FALSE, cleaned |-> FALSE]

CheckInit ==
  /\ \E r \in CheckRequest : check = [step |-> "validate", request |-> r, result |-> "none",
                                     facts |-> Facts, stopped |-> FALSE, emptied |-> FALSE,
                                     observing |-> FALSE, report |-> "none"]
  /\ checkedGame = [alive |-> {}, started |-> {}, tracked |-> TRUE, window |-> NoOwner]
  /\ cancelled = FALSE

(* The result is set, and the observer is stopped on the way out.             *)
CheckEnds(c, result) == [c EXCEPT !.step = "done", !.result = result, !.observing = FALSE]
(* cleanupFailure(): first the processes are stopped, then the failure is told. *)
StopFor(c, result) == [c EXCEPT !.step = "stop", !.result = result]

ValidateRequest ==
  /\ check.step = "validate"
  /\ check' = IF RequestResult(check.request) # "Success"
              THEN CheckEnds(check, RequestResult(check.request))
              ELSE IF cancelled THEN CheckEnds(check, "Cancelled")
              ELSE [check EXCEPT !.step = "observe"]
  /\ UNCHANGED <<checkedGame, cancelled>>

StartObserver ==
  /\ check.step = "observe"
  /\ \/ check' = CheckEnds(check, "WindowObserverUnavailable")
     \/ check' = [check EXCEPT !.step = "launch", !.observing = TRUE]
  /\ UNCHANGED <<checkedGame, cancelled>>

(* launch(): nothing is left of a start that fails; one that took too long    *)
(* is stopped again.                                                         *)
LaunchChecked ==
  /\ check.step = "launch" /\ UNCHANGED cancelled
  /\ \/ check' = CheckEnds(check, "LaunchFailed") /\ UNCHANGED checkedGame
     \/ /\ checkedGame' = [checkedGame EXCEPT !.alive = {CheckRoot}, !.started = {CheckRoot}]
        /\ LET c == [check EXCEPT !.facts.started = TRUE]
           IN check' \in { [c EXCEPT !.step = "owned"], StopFor(c, "StartupTimeout") }

(* exactOwnershipReady().                                                    *)
OwnershipReady == checkedGame.tracked

CheckOwnership ==
  /\ check.step = "owned"
  /\ check' = IF ~OwnershipReady THEN StopFor(check, "OwnershipUnavailable")
              ELSE IF cancelled THEN StopFor(check, "Cancelled")
              ELSE [check EXCEPT !.step = "window"]
  /\ UNCHANGED <<checkedGame, cancelled>>

(* One pass of the wait for the window: the tree is looked at first, and the  *)
(* deadline last.                                                            *)
AwaitWindow ==
  /\ check.step = "window"
  /\ \/ cancelled /\ check' = StopFor(check, "Cancelled")
     \/ ~cancelled /\ ~OwnershipReady /\ check' = StopFor(check, "OwnershipUnavailable")
     \/ /\ ~cancelled /\ OwnershipReady /\ checkedGame.alive = {}
        /\ check' = StopFor([check EXCEPT !.facts.natural = TRUE], "EarlyProcessExit")
     \/ /\ ~cancelled /\ OwnershipReady /\ checkedGame.alive # {}
        /\ IF checkedGame.window \in checkedGame.alive
           THEN check' = [check EXCEPT !.step = "watch", !.facts.window = TRUE]
           ELSE check' \in { check, StopFor(check, "WindowTimeout") }
  /\ UNCHANGED <<checkedGame, cancelled>>

(* One pass of the observation, until its time is over or nothing runs.       *)
WatchGame ==
  /\ check.step = "watch"
  /\ \/ check' = StopFor(check, "Success")
     \/ cancelled /\ check' = StopFor(check, "Cancelled")
     \/ ~cancelled /\ ~OwnershipReady /\ check' = StopFor(check, "OwnershipUnavailable")
     \/ /\ ~cancelled /\ OwnershipReady /\ checkedGame.alive = {}
        /\ check' = StopFor([check EXCEPT !.facts.natural = TRUE], "Success")
  /\ UNCHANGED <<checkedGame, cancelled>>

(* cleanupOwnedGroup(): asked, forced, waited for and counted, each of which   *)
(* may fail; what remains of the game may go on meanwhile.                    *)
StopChecked ==
  /\ check.step = "stop"
  /\ \E left \in SUBSET checkedGame.alive, ok \in BOOLEAN :
       /\ ok => left = {}
       /\ checkedGame' = [checkedGame EXCEPT !.alive = left]
       /\ check' = [check EXCEPT !.step = "empty", !.stopped = ok]
  /\ UNCHANGED cancelled

WaitForNone ==
  /\ check.step = "empty"
  /\ check' = [check EXCEPT !.step = "count", !.emptied = checkedGame.alive = {}]
  /\ UNCHANGED <<checkedGame, cancelled>>

CountRemaining ==
  /\ check.step = "count"
  /\ LET clean == check.stopped /\ check.emptied /\ checkedGame.tracked /\ checkedGame.alive = {}
         c == [check EXCEPT !.facts.cleaned = clean]
     IN check' = IF ~clean THEN CheckEnds(c, "CleanupFailed")
                 ELSE IF check.result # "Success" THEN CheckEnds(c, check.result)
                 ELSE [c EXCEPT !.step = "report"]
  /\ UNCHANGED <<checkedGame, cancelled>>

(* makeMetricsInput() and buildSessionMetricsReport(): no input is observed,   *)
(* so isolation has too little evidence; overallVerdict() fails what was not   *)
(* rolled back and lacks what no Seat showed.                                *)
IsolationOf(events) == IF events = 0 THEN "InsufficientEvidence" ELSE "Pass"
OverallVerdict(facts, seatsComplete) ==
  IF ~facts.cleaned THEN "Fail"
  ELSE IF IsolationOf(0) # "Pass" \/ ~seatsComplete THEN "InsufficientEvidence" ELSE "Pass"

(* A report that says more than that is refused.                             *)
BuildReport ==
  /\ check.step = "report"
  /\ LET verdict == OverallVerdict(check.facts, FALSE)
     IN check' = IF verdict = "Pass" THEN CheckEnds(check, "MetricsBuildFailed")
                 ELSE [CheckEnds(check, "Success") EXCEPT !.report = verdict]
  /\ UNCHANGED <<checkedGame, cancelled>>

-----------------------------------------------------------------------------
(* The game, within its Job, and the user.                                   *)
GameGoesOn ==
  /\ check.step # "done" /\ UNCHANGED <<check, cancelled>>
  /\ \/ \E p \in checkedGame.alive : checkedGame' = [checkedGame EXCEPT !.alive = @ \ {p}]
     \/ \E p \in CheckProcess \ checkedGame.started :
          /\ checkedGame.alive # {}
          /\ checkedGame' = [checkedGame EXCEPT !.alive = @ \cup {p}, !.started = @ \cup {p}]
     \/ \E p \in checkedGame.alive \cup {NoOwner} :
          checkedGame' = [checkedGame EXCEPT !.window = p]
     \/ checkedGame.alive # {} /\ checkedGame' = [checkedGame EXCEPT !.tracked = FALSE]

CancelCheck ==
  /\ check.step # "done" /\ cancelled' = TRUE /\ UNCHANGED <<check, checkedGame>>

CheckNext ==
  \/ ValidateRequest \/ StartObserver \/ LaunchChecked \/ CheckOwnership \/ AwaitWindow
  \/ WatchGame \/ StopChecked \/ WaitForNone \/ CountRemaining \/ BuildReport
  \/ GameGoesOn \/ CancelCheck

-----------------------------------------------------------------------------
(* Type invariant of a compatibility check.                                  *)
CheckTypeOK ==
  /\ check.step \in CheckStep /\ check.request \in CheckRequest
  /\ checkedGame.alive \subseteq checkedGame.started
  /\ checkedGame.started \subseteq CheckProcess
  /\ checkedGame.window \in CheckProcess \cup {NoOwner} /\ cancelled \in BOOLEAN

(* A check that has ended has left no process behind unless it says so, did   *)
(* not start what was not allowed, and reports a success only of a game whose *)
(* own window it saw and that it stopped, as too little to call it a pass.    *)
CheckLeavesNothing ==
  check.step = "done" =>
    /\ ~check.observing
    /\ check.result # "CleanupFailed" => checkedGame.alive = {}
    /\ checkedGame.started # {} => /\ check.request.risk = "Allowed"
                                   /\ check.request.containment = "RequireJobObject"
    /\ check.facts.cleaned => checkedGame.alive = {} /\ check.facts.started
    /\ check.result = "Success" =>
         /\ check.facts.window /\ check.facts.cleaned
         /\ check.report = "InsufficientEvidence"
    /\ check.result # "Success" => check.report = "none"
=============================================================================
