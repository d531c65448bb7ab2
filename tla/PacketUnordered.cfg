SPECIFICATION FairSpec
CONSTANTS
  A = A
  B = B
  Ordering = "UNORDERED"
  TimeoutHeights = {0, 3}
  TimeoutTimestamps = {0}
  AsyncApps = {B}
  ClosingApps = {A, B}
  FaultyClients = {A}
  MaxSequence <- OneWay2
  MaxBlockInterval = 1
  MaxHeight <- Heights23
INVARIANTS NeverReceivedAndTimedOut ToldOnce ExactlyOnce AcknowledgementsAgree
PROPERTIES ClosedIsFinal LifecycleFromA EveryPacketResolved
CHECK_DEADLOCK FALSE
