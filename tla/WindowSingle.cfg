SPECIFICATION Spec
CONSTANTS
  Conns = {c1}
  Half = 8
  QueueDepth = 2
  First = 14
  Kinds = {"scsi", "nop", "ping", "task"}
  UseSender = FALSE
  Abort = FALSE
  TimeOuts = TRUE
  MaxCmds = 4
  MaxImms = 2
  MaxCuts = 0
  None = None
INVARIANT NothingRefused
INVARIANT StatInOrder
INVARIANT WindowKept
CHECK_DEADLOCK FALSE
