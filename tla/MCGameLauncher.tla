---------------------------- MODULE MCGameLauncher ----------------------------
(* A small instance of GameLauncher for TLC.                               *)
EXTENDS GameLauncher, TLC

(* The one slot is connected, or was disconnected since.                   *)
MCScanResults ==
  {[authoritative |-> TRUE,
    sources  |-> [s \in Slot |-> [connected |-> connected, generation |-> 1]],
    physical |-> <<>>] : connected \in BOOLEAN}

(* One Seat's Job may refuse to be terminated, the other's not become      *)
(* empty in time.                                                          *)
MCStopFails == 1 :> {"terminate"} @@ 2 :> {"verify"}

(* Processes that do not exist yet are all alike: one of them is the first *)
(* to be created, whichever Seat it is for.                                *)
FirstProcess == CHOOSE p \in Process : TRUE
CreatedInOrder ==
  tree[FirstProcess].seat = NONE => \A p \in Process : tree[p].seat = NONE

(* FairLauncherSpec for processes created in that order.                   *)
OrderedLauncherSpec ==
  /\ LauncherInit /\ [][LauncherNext /\ CreatedInOrder']_launcherVars
  /\ WF_launcherVars(LaunchStep)
  /\ \A s \in Seat : SF_launcherVars(ReapExitedGame(s))
=============================================================================
