SPECIFICATION Spec
CONSTANTS
  ReadMax = 3
  MaxStarts = 2
  MaxLines = 2
  MaxCloses = 1
  MaxChanges = 2
INVARIANTS
  NothingLeftRunning
  FormsShowWhatRuns
  ShowsLastReport
CHECK_DEADLOCK FALSE
