SPECIFICATION FairSpec
CONSTANTS
  A = A
  B = B
  Ordering = "ORDERED"
  TimeoutHeights = {0, 3}
  TimeoutTimestamps = {0, 3}
  AsyncApps = {}
  ClosingApps = {B}
  FaultyClients = {}
  MaxSequence <- OneWay2
  MaxBlockInterval = 2
  MaxHeight <- Heights23
INVARIANTS FateInv OrderedDelivery TimeoutBlocksOrderedChannel
PROPERTIES LifecycleFromA BothEndsClose
CHECK_DEADLOCK FALSE
