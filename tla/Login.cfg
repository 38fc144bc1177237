SPECIFICATION FairSpec
CONSTANTS
  TargetMaxRecv = 65536
  None = None
  Aliases <- MCAliases
  Setups <- MCSetups
  Config <- MCConfig
  Pdus <- MCPdus
  Texts <- MCTexts
  Offers <- MCOffers
  Me <- MCMe
  Addr <- MCAddr
  Groups <- MCGroups
  MaxChallenges = 2
  MaxConnects = 2
INVARIANT Authentic
INVARIANT InStep
INVARIANT Agreement
PROPERTY NeverLoosened
PROPERTY LoginSucceeds
CHECK_DEADLOCK FALSE
