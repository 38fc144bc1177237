SPECIFICATION FairSpec
CONSTANTS
  Write <- MixedWrite
  Length <- MixedLength
  Tag <- MixedTag
  Provided <- MixedProvided
  FirstBurst = 1
  MaxBurst = 2
  Segment = 2
  InitialR2T = TRUE
  MaxR2T = 2
  QueueDepth = 3
  None = None
INVARIANT Bookkeeping
INVARIANT RightData
INVARIANT Conforms
INVARIANT ReadWhole
PROPERTY R2TsFollow
PROPERTY EveryCommandAnswered
CHECK_DEADLOCK FALSE
