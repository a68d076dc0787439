SPECIFICATION FairSpec
CONSTANTS
  Clients = {c1, p1, p2, p3}
  PipeClients = {p1, p2, p3}
  NULL = NULL
  MaxConnections = 3
  StartConnections = 0
  ExitOnLast = TRUE
  IcyCapable = FALSE
  Interval = 1
  BlockSizes = {}
  MaxBytes = 0
INVARIANTS
  OneSlotEach
  WithinMaxConnections
PROPERTIES
  NeverLeavesAClient
  HandshakeEnds
  ExitsAfterLast
CHECK_DEADLOCK FALSE
