SPECIFICATION Spec
CONSTANTS
  MaxUnits = 5
  MaxRead = 3
  SourceBlock = 2
  StreamBlock = 3
  MaxHour = 2
INVARIANTS
  NothingElseLost
  StatusTellsTheTruth
PROPERTY
  EveryHourIsTried
CHECK_DEADLOCK FALSE
