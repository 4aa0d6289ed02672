\* Two Seats, two processes; every step and every stop may fail.
CONSTANTS
  Seat = {1, 2}
  Controller = {}
  Slot = {x0}
  MaxSourceGeneration = 1
  NONE = NONE
  Process = {p1, p2}
  Window = {}
  MaxGeneration = 1
  ScanResults <- MCScanResults
  StopFails <- MCStopFails
  KillFails = FALSE
SPECIFICATION OrderedLauncherSpec
INVARIANTS RunningTreeIsOwned RunsIsolated BrokenInputStopsTree
PROPERTIES LeaseEndsAfterStop EndedGameFreesSeat
