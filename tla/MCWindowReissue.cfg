\* A window that gets another identity while it is placed.
CONSTANTS
  w1 = w1
  w2 = w2
  p1 = p1
  p2 = p2
  TrackedSeat = {1}
  TrackedProcess = {p1, p2}
  TrackedWindow = {w1, w2}
  ProcessOf <- MCProcessOf
  Appearance <- MCAppearance
  TargetRules <- MCTargetRules
  TieRank <- MCTieRank
  MaxIdentity = 2
  PlacedSeat = 1
  MaxNotice = 5
SPECIFICATION PlacementSpec
INVARIANT CleanupRestoresWindow
CHECK_DEADLOCK FALSE
