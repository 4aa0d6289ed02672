SPECIFICATION RecoverySpec
CONSTANTS
  Session = {1, 2}
  Action = {1}
  NONE = NONE
  CORRUPT = CORRUPT
  Serialized = TRUE
  Corruptible = FALSE
INVARIANTS
  PreJournalCrashIsRecoverable
CHECK_DEADLOCK FALSE
