\* Sessions of one host, and a prepare() that is refused.
CONSTANTS
  UserChoice = {u1}
  MaxSession = 2
SPECIFICATION HidSpec
PROPERTY CleanRollbackRemovesRecord
CHECK_DEADLOCK FALSE
