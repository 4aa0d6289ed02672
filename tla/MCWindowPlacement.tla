-------------------------- MODULE MCWindowPlacement --------------------------
(* Two windows that may both be shown and take input, of two processes.    *)
EXTENDS WindowPlacement, TLC

CONSTANTS w1, w2, p1, p2

MCProcessOf == (w1 :> p1) @@ (w2 :> p2)
MCTieRank == (w1 :> 1) @@ (w2 :> 2)

(* The game's window, smaller or larger, its input window and a dialog.    *)
MCAppearance ==
  {[role |-> "game", rank |-> 0], [role |-> "game", rank |-> 1],
   [role |-> "input", rank |-> 0], [role |-> "dialog", rank |-> 0]}
MCTargetRules ==
  {[visual |-> "game", input |-> i] : i \in {"none", "input"}}
=============================================================================
