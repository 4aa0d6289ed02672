\* Every component one at a time.  For the window runtime three windows of one
\* game, changing at any moment; for its audio two callers.
CONSTANTS
  Seat = {1}
  Controller = {}
  Slot = {}
  MaxSourceGeneration = 0
  NONE = NONE
  FAILED = FAILED
  Process = {p1}
  Window = {w1, w2, w3}
  MaxGeneration = 2
  ScanResults = {}
  Caller = {c1, c2}
  Endpoint = {e1}
  Session = {a1, a2}
  RouteTarget = target
  RouteOther = other
  NoCapture = NoCapture
  PipeClient = {c1, c2}
  PlanSize = 2
  LeaseTimeout = 2
  ChannelBound = 2
  UserChoice = {u1, u2}
  MaxSession = 2
  PollingApi = {p1}
  CursorApi = {g1}
  RawApi = {r1}
  XInputApi = {x1}
  GameThread = {t1, t2}
  MaxFrame = 3
SPECIFICATION ServicesSpec
INVARIANTS WindowTypeOK NothingOutlivesTheLease AnswersAreTrue
  ServicesTypeOK UndoneExactly SeatsStayIsolated
PROPERTIES ShutdownCompletes ServicesEnd
\* Games, servers and the watchdog come to their ends.
CHECK_DEADLOCK FALSE
