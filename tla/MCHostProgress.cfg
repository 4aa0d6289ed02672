\* One device, sessions that come and go, launches, and the stop of the host.
CONSTANTS
  Seat = {s1, s2}
  Controller = {}
  Slot = {}
  MaxSourceGeneration = 0
  NONE = NONE
  Process = {p1}
  Window = {}
  MaxGeneration = 1
  ScanResults <- AllScans
  Role = {"observer", "control"}
  Conn = {c1, c2}
  Device = {d1}
  UnprovenDevice = {d1}
  Title = {g1}
  MaxRevision = 3
SPECIFICATION FairControlSpec
INVARIANTS LeasesHaveOneOwner TitleOfRunningGame
PROPERTIES RevisionCoversEveryChange DeadClientLosesItsLeases StopCompletes
CHECK_DEADLOCK FALSE
