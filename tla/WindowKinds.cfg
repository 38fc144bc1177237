SPECIFICATION Spec
CONSTANTS
  Conns = {c1, c2}
  Half = 8
  QueueDepth = 2
  First = 14
  Kinds = {"scsi", "nop", "ping", "text", "task"}
  UseSender = TRUE
  Abort = TRUE
  TimeOuts = TRUE
  MaxCmds = 2
  MaxImms = 1
  MaxCuts = 1
  None = None
SYMMETRY Symmetry
INVARIANT Basis
CHECK_DEADLOCK FALSE
