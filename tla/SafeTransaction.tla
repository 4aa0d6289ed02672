---------------------------- MODULE SafeTransaction ----------------------------
(***************************************************************************)
(* What the recovery protocol promises about risky changes to Windows,     *)
(* whatever crashes in between: changes happen only inside an open         *)
(* session, a session opens only on an unchanged machine, and it is closed *)
(* only when every change has been taken back.                             *)
(***************************************************************************)
CONSTANTS Session, Action, NONE

VARIABLES
  open,       \* the session whose evidence is not closed, or NONE
  applied     \* the changes in effect, each with the session that made it

vars == <<open, applied>>

Init == open = NONE /\ applied = {}

Open(s) ==
  /\ open = NONE
  /\ applied = {}
  /\ open' = s
  /\ UNCHANGED applied

Apply(a) ==
  /\ open \in Session
  /\ applied' = applied \cup {<<open, a>>}
  /\ UNCHANGED open

Undo ==
  /\ applied' \in SUBSET applied
  /\ UNCHANGED open

Close ==
  /\ open \in Session
  /\ applied' = {}
  /\ open' = NONE

Next ==
  \/ \E s \in Session : Open(s)
  \/ \E a \in Action : Apply(a)
  \/ Undo
  \/ Close

Spec == Init /\ [][Next]_vars
=============================================================================
