SPECIFICATION FairSpec
CONSTANTS
  Conns = {c1, c2}
  Half = 8
  QueueDepth = 2
  First = 14
  Kinds = {"scsi"}
  UseSender = TRUE
  Abort = FALSE
  TimeOuts = FALSE
  MaxCmds = 4
  MaxImms = 0
  MaxCuts = 0
  None = None
PROPERTY EveryCommandArrives
PROPERTY WindowReopens
CHECK_DEADLOCK FALSE
