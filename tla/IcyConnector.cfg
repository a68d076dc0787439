SPECIFICATION IcySpec
CONSTANTS
  MaxUpdates = 1
INVARIANT
  LoginIsOfThisConnection
PROPERTY
  GetsInAtLast
CHECK_DEADLOCK FALSE
