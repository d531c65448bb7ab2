SPECIFICATION FairSpec
CONSTANTS
  Channels = {"channel-1", "channel-10"}
  Ordered <- AllUnordered
  Async = {"channel-1", "channel-10"}
  Payers = {"payer-0", "payer-1"}
  Relayers = {"relayer-0", "relayer-1"}
  Fees <- OneFee
  Funds = 7
  MayBlock = {"payer-0"}
  MayRegister <- OneRegisters
  MayClose = {"channel-1"}
  MaxPackets <- Few
  MaxFees = 2
INVARIANTS FeeInv EscrowBacksFees ForwardRelayerDelivered
PROPERTY FeesPaidOut
CHECK_DEADLOCK FALSE
