\* Every component one at a time, each with two of what competes in it.
CONSTANTS
  Installer = {i1, i2}
  MaxRevision = 2
  Resource = {r1}
  StartupSession = {"v1", "v2"}
  HostSession = {h1, h2}
  LeaseSession = {l1}
  MaxEpoch = 2
  MaxGame = 1
  MaxCreation = 1
  GameSeat = {1, 2}
  PlanOrder <- MCPlanOrder
  MaxGames = 1
  Recipe = {1, 2}
  FilePhase = {0, 2}
  MaxMaterialization = 3
  Seat = {1, 2}
  Controller = {padA, padB}
  Slot = {x0, x1}
  MaxSourceGeneration = 1
  NONE = NONE
  Process = {p1, p2}
  Window = {w1, w2}
  MaxGeneration = 2
  ScanResults <- MCScanResults
  SessionReport <- MCSessionReports
  NeedChoice <- MCNeedChoices
  LaunchSelection <- MCSelections
  StaleAfterMonths = 1
  MaxEvidence = 2
  MaxChange = 2
  MaxPublish = 2
  MaxResult = 2
  MaxPreview = 2
  Retentions = {1, 2}
  DefaultRetention = 1
  Pid = {1, 2}
  MaxBirths = 4
  MaxTracked = 3
  MaxPackets = 1
  Release = {1, 2}
  EditRecipe <- MCEditRecipes
  TargetPath = {7, 8}
  MaxEdit = 2
  CheckProcess = {g1, g2}
  Saver = {s1, s2}
  StoredDecision <- MCDecisions
  MaxIdentity = 2
  MaxDeath = 1
  PackageId = {k1, k2}
  PackageEntry = {e1}
  MaxPackageRevision = 2
  MaxHistory = 1
  MaxPackageStep = 3
  SeatRecipe <- MCSeatRecipes
  ProfilePlayer = {a, b}
  ProfileGame = {g, h}
  SetupName = {s}
  MaxProfileEdit = 1
SPECIFICATION ComponentsSpec
INVARIANTS ComponentsTypeOK SetupAccountedFor AuthorityTypeOK ExclusiveOwnership
  NoOrphanAuthority
PROPERTIES EffectsAreOwned FrozenDuringGame FreshEpoch ApprovalsAreExact
\* Nothing has to go on.
CHECK_DEADLOCK FALSE
