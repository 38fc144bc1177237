SPECIFICATION FairSpec
CONSTANTS
  None = None
  Conns = {1, 2, 3, 4}
  p1 = p1
  p2 = p2
  Ports = {p1, p2}
  NameOf <- OneName
  Configs <- MCConfigs
  Entries <- MCEntries
  Wrap = 3
  Retries = 1
INVARIANT Linked
INVARIANT TsihOwned
INVARIANT OldSessionDropped
PROPERTY ExitingEnds
CHECK_DEADLOCK FALSE
