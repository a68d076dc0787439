SPECIFICATION FairSpec
CONSTANTS
  Sz = 8
  Size = 8
  Frame = 2
  MaxWrite = 3
  PcmFrames = 2
  MaxAsked = 28
  StoresInOrder = TRUE
INVARIANTS
  ReadsWhatWasWritten
  NoSlotInBothHands
PROPERTIES
  ImplementsFifo
  AcceptedIsEncoded
CHECK_DEADLOCK FALSE
