SPECIFICATION FairSpec
CONSTANTS
  A = A
  B = B
  Elsewhere = Elsewhere
  Clients <- MixedClients
  CompatibleVersions <- Releases
  ProposedVersions <- AnyOffer
  DelayPeriods = {0, 1}
  Initiators = {A}
  HistoricalEntries = 3
  FaultyClients = {B}
  MaxConnections <- Connections12
  MaxHeight <- Heights53
  Relayed <- FewHeaders
INVARIANTS ConnectionInv ClientsFollowEachOther
PROPERTIES HandshakeAgrees HandshakesFinish
CHECK_DEADLOCK FALSE
