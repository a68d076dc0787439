SPECIFICATION FairSpec
CONSTANTS
  Clients = {c1, c2, p1}
  PipeClients = {p1}
  NULL = NULL
  MaxConnections = 9
  StartConnections = 2
  ExitOnLast = FALSE
  IcyCapable = TRUE
  Interval = 3
  BlockSizes = {2}
  MaxBytes = 6
INVARIANTS
  HearsEveryByte
  MetadataEveryInterval
CHECK_DEADLOCK FALSE
