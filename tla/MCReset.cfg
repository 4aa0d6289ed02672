\* Two sessions of two actions; faults anywhere, one damaged file at a time.
SPECIFICATION FairRecoverySpec
CONSTANTS
  Session = {1, 2}
  Action = {1, 2}
  NONE = NONE
  CORRUPT = CORRUPT
  Serialized = TRUE
  Corruptible = TRUE
INVARIANTS
  RecoveryTypeOK
  EffectsHaveAuthority
  VolatileFollowsDurable
  CleanMeansUndone
PROPERTIES
  ImplementsTransaction
  ResetReopens
CHECK_DEADLOCK FALSE
