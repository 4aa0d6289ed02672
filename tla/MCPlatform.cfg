\* Every scene one at a time, each with two of what competes in it.
CONSTANTS
  RawWindow = {w1}
  HandleSlot = {1, 2}
  MaxTokenGeneration = 2
  MaxQueue = 2
  MaxSequence = 2
  MaxRegistrations = 2
  LogicalSlot = {0, 1}
  XController = {c1, c2}
  MaxXSequence = 5
  MaxConnection = 2
  MaxCoordinate = 2
  Button = {b1}
  MaxCursorSequence = 2
  TrackedSeat = {1, 2}
  w1 = w1
  w2 = w2
  p1 = p1
  p2 = p2
  TrackedProcess = {p1, p2}
  TrackedWindow = {w1, w2}
  ProcessOf <- MCProcessOf
  Appearance <- MCAppearance
  TargetRules <- MCTargetRules
  TieRank <- MCTieRank
  MaxIdentity = 2
  PlacedSeat = 1
  MaxNotice = 5
  LayoutSeat = {1, 2}
  DisplayOutput = {"left", "right"}
  OutputOrder <- MCOutputOrder
  OutputBounds <- MCOutputBounds
  DisplayRequests <- MCDisplayRequests
  MaxTopology = 2
  Handle = {1, 2}
  PolicyWindows <- MCPolicyWindows
  PolicyGroups <- MCPolicyGroups
  WindowPolicies <- MCWindowPolicies
  MaxEvent = 3
  MaxText = 2
  MaxElements = 2
  MaxPayload = 13
  MaxCalls = 3
  Device = {d1, d2}
  TargetWindow = {7}
  EvidenceEvent = {ev1}
  EvidenceThread = {t1, t2}
  EvidenceCapacity = 3
  MaxHappened = 4
SPECIFICATION PlatformSpec
INVARIANTS PlatformTypeOK InputIsExact WindowsAreOwned
PROPERTIES LateCallsChangeNothing
\* Games and windows may be gone, and messages read.
CHECK_DEADLOCK FALSE
