SPECIFICATION FairSpec
CONSTANTS
  A = A
  B = B
  C = C
  Chains = {A, B, C}
  Peer <- Triangle
  Native <- NativeOfA
  Supply = 2
  Amounts = {1, 2}
  MayDisable = {B}
  MaxPackets <- RoundPackets
  MaxHops = 3
INVARIANTS TransferInv TokensConserved
PROPERTY TransfersSettle
CHECK_DEADLOCK FALSE
