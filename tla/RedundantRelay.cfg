SPECIFICATION Spec
CONSTANTS
  Packets = {"p", "q"}
  Txs <- MixedTxs
  MaxMempool = 3
INVARIANT RelayInv
