SPECIFICATION Spec
CONSTANTS
  Conns = {c1}
  Tasks = {t1, t2}
  MaxLun = 2
  MaxQueue = 0
  MaxEvents = 2
  InitiatorPort <- TwoPorts
  InitiatorName <- OneInitiator
  UseSender = TRUE
  None = None
SYMMETRY Symmetry
INVARIANT NoLostWakeup
CHECK_DEADLOCK FALSE
