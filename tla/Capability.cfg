SPECIFICATION Spec
CONSTANTS
  Modules = {"ibc", "transfer"}
  Names = {1, 2}
  OneName = TRUE
  MaxIndex = 3
  MaxAddress = 5
INVARIANT CapabilityInv
PROPERTY OnlyTransactionsChangeOwners
