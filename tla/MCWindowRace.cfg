\* Two windows are enough for the two threads to disagree.
CONSTANTS
  Seat = {1}
  Controller = {}
  Slot = {}
  MaxSourceGeneration = 0
  NONE = NONE
  FAILED = FAILED
  Process = {p1}
  Window = {w1, w2}
  MaxGeneration = 1
  ScanResults = {}
SPECIFICATION WindowSpec
INVARIANT WindowAuthoritySettles
\* The game has ended and the runtime is gone.
CHECK_DEADLOCK FALSE
