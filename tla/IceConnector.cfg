SPECIFICATION FairSpec
CONSTANTS
  MaxUpdates = 2
INVARIANTS
  AlwaysRetries
  EveryUpHasItsDown
PROPERTIES
  MetadataTreated
  ExitCompletes
CHECK_DEADLOCK FALSE
