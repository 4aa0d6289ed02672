------------------------------ MODULE SeatWindow ------------------------------
(***************************************************************************)
(* SeatWindowRuntime: how the window a game shows becomes the Seat's       *)
(* target window in the host.                                              *)
(*                                                                         *)
(* Two threads run onWindowTargetChanged: the tracker's worker, for every  *)
(* change of the visual target, and the thread that holds the launcher's   *)
(* mutex, with a target it has sampled.  Each of the two takes its         *)
(* snapshot under the tracker's lock and calls without it; boundHwnd is an *)
(* atomic, but the handler is a sequence of atomic operations and of calls *)
(* to the host, each of which is a step here.                              *)
(*                                                                         *)
(* The module starts where the launcher has published the process of one   *)
(* Seat and ends with the release of its game lease.  Windows of other     *)
(* processes, the visual/input distinction and the movement of the window  *)
(* by the placement engine are left out.                                   *)
(***************************************************************************)
EXTENDS SeatAuthority

CONSTANT FAILED      \* WindowTargetStatus::FailedClosed: no target any more

ASSUME WindowAssumption ==
  /\ Seat # {} /\ Process # {}
  /\ MaxGeneration # 0
  /\ FAILED \notin Window \cup {NONE}

VARIABLES
  target,            \* what the tracker has selected; NONE is Reacquiring
  tracking,          \* the tracker's worker has not been joined
  observed,          \* the runtime is registered as the target's observer
  boundHwnd,         \* the window the runtime believes the host to have
  shuttingDown,
  call,              \* the handler each thread runs, or NONE
  launcher           \* the launcher's thread: where it is, what it places

windowVars ==
  <<authorityVars, target, tracking, observed, boundHwnd, shuttingDown, call,
    launcher>>

Thread == {"worker", "launcher"}

Target == Window \cup {NONE, FAILED}

Handler ==
  [pc : {"dispatch", "enter", "load", "clear", "forget", "bind", "remember",
         "exchange", "drop"},
   target : Target, previous : Window \cup {NONE}]

LauncherPc ==
  {"create", "sample", "resume", "wait", "publish", "playing", "unregister",
   "exchange", "clear", "join", "release", "done"}

TheSeat == CHOOSE s \in Seat : TRUE
Root == CHOOSE p \in Process : TRUE

Token == [seat |-> TheSeat, generation |-> 1, class |-> "game"]

WindowInit ==
  /\ generation = [s \in Seat |-> IF s = TheSeat THEN 1 ELSE 0]
  /\ leases = [s \in Seat |-> IF s = TheSeat THEN {"game"} ELSE {}]
  /\ process = [s \in Seat |-> IF s = TheSeat THEN Root ELSE NONE]
  /\ window = [s \in Seat |-> NONE]
  /\ binding = [s \in Seat |-> NONE]
  /\ target = NONE
  /\ tracking = TRUE
  /\ observed = FALSE
  /\ boundHwnd = NONE
  /\ shuttingDown = FALSE
  /\ call = [t \in Thread |-> NONE]
  /\ launcher = [pc |-> "create", placing |-> NONE]

-----------------------------------------------------------------------------
(* onWindowTargetChanged, run by thread t.                                 *)

Handles(t, pc) == call[t] # NONE /\ call[t].pc = pc

GoTo(t, pc) == call' = [call EXCEPT ![t].pc = pc]

Return(t) == call' = [call EXCEPT ![t] = NONE]

Called(value) == [pc |-> "enter", target |-> value, previous |-> NONE]

(* The host refuses to clear a window it does not have; nobody looks.      *)
ClearAtHost(w) ==
  \/ ClearTargetWindow(Token, Root, w)
  \/ ~(OwnsGameToken(Token) /\ window[TheSeat] = w) /\ UNCHANGED authorityVars

(* Mutants of Enter: a target that failed closed is taken for a bound one, *)
(* and the callback takes the launcher's mutex.                            *)
EnterAnyStatus(t) ==
  /\ Handles(t, "enter")
  /\ IF shuttingDown THEN Return(t)
     ELSE GoTo(t, IF call[t].target # NONE THEN "load" ELSE "exchange")
  /\ UNCHANGED <<authorityVars, boundHwnd>>

EnterLocked(t) ==
  /\ Handles(t, "enter")
  /\ t = "launcher" \/ launcher.pc = "playing"
  /\ GoTo(t, IF call[t].target \in Window THEN "load" ELSE "exchange")
  /\ UNCHANGED <<authorityVars, boundHwnd>>

Enter(t) ==
  /\ Handles(t, "enter")
  /\ IF shuttingDown THEN Return(t)
     ELSE GoTo(t, IF call[t].target \in Window THEN "load" ELSE "exchange")
  /\ UNCHANGED <<authorityVars, boundHwnd>>

Load(t) ==
  /\ Handles(t, "load")
  /\ IF boundHwnd = call[t].target THEN Return(t)
     ELSE call' = [call EXCEPT ![t].previous = boundHwnd,
                               ![t].pc = IF boundHwnd = NONE THEN "bind"
                                                             ELSE "clear"]
  /\ UNCHANGED <<authorityVars, boundHwnd>>

ClearPrevious(t) ==
  /\ Handles(t, "clear")
  /\ ClearAtHost(call[t].previous)
  /\ GoTo(t, "forget")
  /\ UNCHANGED boundHwnd

Forget(t) ==
  /\ Handles(t, "forget")
  /\ boundHwnd' = NONE
  /\ GoTo(t, "bind")
  /\ UNCHANGED authorityVars

Bind(t) ==
  /\ Handles(t, "bind")
  /\ \/ /\ BindTargetWindow(Token, Root, call[t].target)
        /\ GoTo(t, "remember")
     \/ /\ ~OwnsGameToken(Token)
        /\ Return(t)
        /\ UNCHANGED authorityVars
  /\ UNCHANGED boundHwnd

Remember(t) ==
  /\ Handles(t, "remember")
  /\ boundHwnd' = call[t].target
  /\ Return(t)
  /\ UNCHANGED authorityVars

(* The target is lost: what was bound is cleared.                          *)
Exchange(t) ==
  /\ Handles(t, "exchange")
  /\ boundHwnd' = NONE
  /\ IF boundHwnd = NONE THEN Return(t)
     ELSE call' = [call EXCEPT ![t].previous = boundHwnd, ![t].pc = "drop"]
  /\ UNCHANGED authorityVars

Drop(t) ==
  /\ Handles(t, "drop")
  /\ ClearAtHost(call[t].previous)
  /\ Return(t)
  /\ UNCHANGED boundHwnd

HandlerStep(t) ==
  /\ \/ Enter(t) \/ Load(t) \/ ClearPrevious(t) \/ Forget(t) \/ Bind(t)
     \/ Remember(t) \/ Exchange(t) \/ Drop(t)
  /\ UNCHANGED <<target, tracking, observed, shuttingDown, launcher>>

-----------------------------------------------------------------------------
(* The tracker's worker.  Its selection changes with the game's windows,   *)
(* of which there are none before the game's first thread was resumed; a   *)
(* target that failed closed stays so.                                     *)
Retarget(value) ==
  /\ tracking
  /\ value \in Window => launcher.pc \notin {"create", "sample", "resume"}
  /\ call["worker"] = NONE
  /\ target \notin {value, FAILED}
  /\ target' = value
  /\ call' = [call EXCEPT !["worker"] =
       [pc |-> "dispatch", target |-> value, previous |-> NONE]]
  /\ UNCHANGED <<authorityVars, tracking, observed, boundHwnd, shuttingDown,
                 launcher>>

(* The observers are looked up after the tracker's lock was released.      *)
Dispatch ==
  /\ Handles("worker", "dispatch")
  /\ IF observed THEN GoTo("worker", "enter") ELSE Return("worker")
  /\ UNCHANGED <<authorityVars, target, tracking, observed, boundHwnd,
                 shuttingDown, launcher>>

-----------------------------------------------------------------------------
(* The launcher's thread.                                                  *)

LauncherAt(pc) == launcher.pc = pc /\ call["launcher"] = NONE

LauncherGoes(pc) == launcher' = [launcher EXCEPT !.pc = pc]

RegisterObserver ==
  /\ LauncherAt("create")
  /\ observed' = TRUE
  /\ LauncherGoes("sample")
  /\ UNCHANGED <<authorityVars, target, tracking, boundHwnd, shuttingDown, call>>

(* "Sample once so host HWND authority never depends on a future WinEvent  *)
(* that might not arrive."                                                 *)
SampleOnce ==
  /\ LauncherAt("sample")
  /\ call' = [call EXCEPT !["launcher"] = Called(target)]
  /\ LauncherGoes("resume")
  /\ UNCHANGED <<authorityVars, target, tracking, observed, boundHwnd,
                 shuttingDown>>

ResumeGame ==
  /\ LauncherAt("resume")
  /\ LauncherGoes("wait")
  /\ UNCHANGED <<authorityVars, target, tracking, observed, boundHwnd,
                 shuttingDown, call>>

(* placeInitial waits for a target, publishes it, ...                      *)
AwaitTarget ==
  /\ LauncherAt("wait")
  /\ target \in Window
  /\ call' = [call EXCEPT !["launcher"] = Called(target)]
  /\ launcher' = [pc |-> "publish", placing |-> target]
  /\ UNCHANGED <<authorityVars, target, tracking, observed, boundHwnd,
                 shuttingDown>>

(* ... checks that this window is the one bound, and moves it.             *)
Place ==
  /\ LauncherAt("publish")
  /\ boundHwnd = launcher.placing
  /\ LauncherGoes("playing")
  /\ UNCHANGED <<authorityVars, target, tracking, observed, boundHwnd,
                 shuttingDown, call>>

(* The launch fails at any of its steps, or the running game is stopped.   *)
BeginShutdown ==
  /\ \E pc \in {"resume", "wait", "publish", "playing"} : LauncherAt(pc)
  /\ shuttingDown' = TRUE
  /\ LauncherGoes("unregister")
  /\ UNCHANGED <<authorityVars, target, tracking, observed, boundHwnd, call>>

(* A callback already under way is not waited for.                         *)
RemoveObserver ==
  /\ LauncherAt("unregister")
  /\ observed' = FALSE
  /\ LauncherGoes("exchange")
  /\ UNCHANGED <<authorityVars, target, tracking, boundHwnd, shuttingDown, call>>

TakeBound ==
  /\ LauncherAt("exchange")
  /\ boundHwnd' = NONE
  /\ launcher' = [pc |-> "clear", placing |-> boundHwnd]
  /\ UNCHANGED <<authorityVars, target, tracking, observed, shuttingDown, call>>

ClearBound ==
  /\ LauncherAt("clear")
  /\ IF launcher.placing = NONE THEN UNCHANGED authorityVars
                                ELSE ClearAtHost(launcher.placing)
  /\ LauncherGoes("join")
  /\ UNCHANGED <<target, tracking, observed, boundHwnd, shuttingDown, call>>

(* Mutant of StopTracker: the worker is told to stop, but not joined.      *)
StopTrackerUnjoined ==
  /\ LauncherAt("join")
  /\ tracking' = FALSE
  /\ LauncherGoes("release")
  /\ UNCHANGED <<authorityVars, target, observed, boundHwnd, shuttingDown, call>>

(* tracker.stop() joins the worker, which finishes the call it is in.      *)
StopTracker ==
  /\ LauncherAt("join")
  /\ call["worker"] = NONE
  /\ tracking' = FALSE
  /\ LauncherGoes("release")
  /\ UNCHANGED <<authorityVars, target, observed, boundHwnd, shuttingDown, call>>

EndSeatActivation ==
  /\ LauncherAt("release")
  /\ ReleaseLease(Token)
  /\ LauncherGoes("done")
  /\ UNCHANGED <<target, tracking, observed, boundHwnd, shuttingDown, call>>

Shutdown ==
  \/ RemoveObserver \/ TakeBound \/ ClearBound \/ StopTracker
  \/ EndSeatActivation

WindowNext ==
  \/ \E t \in Thread : HandlerStep(t)
  \/ \E value \in Target : Retarget(value)
  \/ Dispatch
  \/ RegisterObserver \/ SampleOnce \/ ResumeGame \/ AwaitTarget \/ Place
  \/ BeginShutdown
  \/ Shutdown

WindowSpec == WindowInit /\ [][WindowNext]_windowVars

(* Both threads run; a window event may never come.                        *)
FairWindowSpec ==
  /\ WindowSpec
  /\ \A t \in Thread : WF_windowVars(HandlerStep(t))
  /\ WF_windowVars(Dispatch)
  /\ SF_windowVars(Shutdown)

-----------------------------------------------------------------------------
(* Type invariant of the window runtime.                                   *)
WindowTypeOK ==
  /\ AuthorityTypeOK
  /\ target \in Target
  /\ {tracking, observed, shuttingDown} \subseteq BOOLEAN
  /\ boundHwnd \in Window \cup {NONE}
  /\ call \in [Thread -> Handler \cup {NONE}]
  /\ launcher \in [pc : LauncherPc, placing : Window \cup {NONE}]

(* Once the game lease has ended no window is bound and no callback of the *)
(* tracker is still at work, however late it was when the shutdown began.  *)
NothingOutlivesTheLease ==
  "game" \notin leases[TheSeat] =>
    window[TheSeat] = NONE /\ call["worker"] = NONE /\ ~tracking

(* The shutdown never waits for a thread that waits for it.                *)
ShutdownCompletes == shuttingDown ~> (launcher.pc = "done")

(* When the game plays and no callback is under way or to come, the host   *)
(* has the window the tracker has: its "HWND authority never depends on a  *)
(* future WinEvent that might not arrive" (game_launcher.cpp).             *)
WindowAuthoritySettles ==
  launcher.pc = "playing" /\ call["worker"] = NONE /\ target # NONE =>
    window[TheSeat] = (IF target = FAILED THEN NONE ELSE target)
=============================================================================
