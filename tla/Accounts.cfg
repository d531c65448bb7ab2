SPECIFICATION FairSpec
CONSTANTS
  Ports <- Owners
  Routings <- AnyAndDisabled
  MayDisable = {"host"}
  MaxChannels <- TwoAndOne
  MaxTries = 1
  MaxTxs <- TwoAndNone
INVARIANT AccountsInv
PROPERTY ControlRegained
CHECK_DEADLOCK FALSE
