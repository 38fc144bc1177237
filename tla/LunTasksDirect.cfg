SPECIFICATION Spec
CONSTANTS
  Conns = {c1, c2}
  Tasks = {t1, t2}
  MaxLun = 1
  MaxQueue = 0
  MaxEvents = 1
  InitiatorPort <- OnePort
  InitiatorName <- OneInitiator
  UseSender = FALSE
  None = None
SYMMETRY Symmetry
INVARIANT Accounted
INVARIANT IndInv
INVARIANT DataBeforeExecute
PROPERTY ImplementsTaskLife
CHECK_DEADLOCK FALSE
