SPECIFICATION Spec
CONSTANTS
  Clients = {c1, c2}
  Scripts <- MCScripts
  MaxOpens = 2
INVARIANTS
  CutsDoNotMatter
  SignalsReachTheirOwner
PROPERTIES
  DeadConnectionsFreed
CHECK_DEADLOCK FALSE
