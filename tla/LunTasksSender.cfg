SPECIFICATION Spec
CONSTANTS
  Conns = {c1, c2}
  Tasks = {t1, t2}
  MaxLun = 1
  MaxQueue = 1
  MaxEvents = 1
  InitiatorPort <- TwoPorts
  InitiatorName <- OneInitiator
  UseSender = TRUE
  None = None
SYMMETRY Symmetry
INVARIANT Custody
INVARIANT NoSilentLoss
PROPERTY OrderKept
CHECK_DEADLOCK FALSE
