SPECIFICATION FairSpec
CONSTANTS
  A = A
  B = B
  Connections <- TwoConnections
  Proposed <- TwoProposals
  Ports = {transfer}
  Orderings = {"ORDERED", "UNORDERED"}
  AppVersions = {v1, v2}
  ClosingApps = {A}
  FaultyClients = {B}
  Initiators = {A}
  MaxChannels <- Channels12
  MaxHeight <- Heights33
INVARIANT ChannelInv
PROPERTIES HandshakeAgrees ClosureSpreads
CHECK_DEADLOCK FALSE
