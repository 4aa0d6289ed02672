---------------------------- MODULE MCHostControl ----------------------------
(* Small instances of HostControl for TLC.                                 *)
EXTENDS HostControl, TLC

AllScans == InventorySnapshot

(* Seats, connections and devices of one class are interchangeable.        *)
Symmetric ==
  Permutations(Seat) \cup Permutations(Conn) \cup Permutations(Controller)
    \cup Permutations(Slot) \cup Permutations(Process) \cup Permutations(Title)
=============================================================================
