SPECIFICATION FairSpec
CONSTANTS
  Conns = {c1}
  Tasks = {t1, t2}
  MaxLun = 1
  MaxQueue = 0
  MaxEvents = 1
  InitiatorPort <- TwoPorts
  InitiatorName <- OneInitiator
  UseSender = TRUE
  None = None
PROPERTY Settles
PROPERTY ExitingEnds
CHECK_DEADLOCK FALSE
