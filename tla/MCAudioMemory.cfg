\* One session, an attempt() that is repeated.
CONSTANTS
  Session = {a1}
  RouteTarget = target
  RouteOther = other
  NoCapture = NoCapture
SPECIFICATION TransactionSpec
INVARIANT MutationRemembered
CHECK_DEADLOCK FALSE
