SPECIFICATION Spec
CONSTANTS
  Widgets = {w1, w2}
  InitialRows = {{}, {w1, w2}}
  MaxProcs = 2
  MaxCloses = 1
  MaxEdits = 1
INVARIANTS
  NoneLostSight
  CloseWaitsForAll
  KillsWhatWasStopped
  SavedListIsCurrent
CHECK_DEADLOCK FALSE
