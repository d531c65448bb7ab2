SPECIFICATION Spec
CONSTANTS
  Keys = {"k1", "k2"}
  Paths = {"/ibc/p"}
  Values = {"v", "w"}
  MaxSequence = 3
  MaxTime = 2
  MaxSigned = 3
INVARIANTS NoReplay FrozenByDoubleSignature
CHECK_DEADLOCK FALSE
