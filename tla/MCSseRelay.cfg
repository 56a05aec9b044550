CONSTANTS
  Frames <- AllFrames
  MaxFrames = 3
SPECIFICATION FairSpec
INVARIANTS
  TypeOK
  NothingLost
  FinalMeansSaved
PROPERTIES
  ImplementsStream
  StreamsEnd
CHECK_DEADLOCK FALSE
