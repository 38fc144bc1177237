SPECIFICATION Spec
CONSTANTS
  Conns = {c1, c2, c3}
  Half = 8
  QueueDepth = 3
  First = 14
  Kinds = {"scsi"}
  UseSender = FALSE
  Abort = FALSE
  TimeOuts = TRUE
  MaxCmds = 4
  MaxImms = 0
  MaxCuts = 2
  None = None
SYMMETRY Symmetry
INVARIANT InOrder
INVARIANT NoLostWakeup
CHECK_DEADLOCK FALSE
