\* Assignment and pairing: two controllers, one slot that reconnects once.
CONSTANTS
  Seat = {s1, s2}
  Controller = {padA, padB}
  Slot = {x0}
  MaxSourceGeneration = 2
  NONE = NONE
  Process = {p1}
  Window = {}
  MaxGeneration = 1
  ScanResults <- AllScans
  Role = {"control"}
  Conn = {c1, c2}
  Device = {}
  UnprovenDevice = {}
  Title = {title}
  MaxRevision = 0
SYMMETRY Symmetric
SPECIFICATION ControlSpec
INVARIANTS AssignmentsExclusiveAndDurable BindingFollowsAssignment GameHasItsController
CHECK_DEADLOCK FALSE
