SPECIFICATION FairSpec
CONSTANTS
  Playlist = Playlist
  NoDeletes = FALSE
  Preclean = FALSE
  MaxCrashes = 1
  MaxFaults = 1
  SegFrames = 3
  MinSegments = 2
  WriteSizes = {2}
  MaxSeq = 3
INVARIANTS
  PublishedInOrder
  PlaylistResolves
  TakenDown
PROPERTIES
  KeepsOneGeneration
  StopCompletes
  EverySegmentTreated
CHECK_DEADLOCK FALSE
