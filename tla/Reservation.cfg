SPECIFICATION Spec
CONSTANTS
  p1 = p1
  p2 = p2
  p3 = p3
  k1 = k1
  k2 = k2
  k3 = k3
  InitiatorPorts <- Trio
  InitiatorName <- TrioName
  TargetPorts = {t1}
  Keys <- TrioKeys
  Owner <- TrioOwner
  LegacyKey <- TrioLegacyKey
  Foreign = FALSE
  MaxReserve = 2
  Generations = 2
  NoKey = NoKey
  None = None
SYMMETRY TrioSymmetry
INVARIANT Inv
INVARIANT ReRegisterFits
INVARIANT ExclusiveWrite
INVARIANT LegacyRoundTrip
PROPERTY RefusedKeepsReservation
PROPERTY GenerationMarks
PROPERTY PreemptedAreGone
