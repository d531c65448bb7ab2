SPECIFICATION Spec
CONSTANTS
  c1 = c1
  c2 = c2
  v = v
  w = w
  None = None
  Clients = {c1, c2}
  Heights <- FiveHeights
  Revision <- TwoRevisions
  Times <- FiveTimes
  Roots <- AllRoots
  SentinelRoot = "sentinel"
  ValidatorSets = {v, w}
  TrustLevel <- Skipping
  SignedHeaders <- OutOfOrder
  Upgrades <- OneUpgrade
  TrustingPeriods <- OnePeriod
  UnbondingPeriods = {7}
  MaxClockDrift = 1
  DelayPeriods <- SomeDelays
  MaxTime = 4
  MaxBlockInterval = 1
  MaxProofs = 2
  Migrating = FALSE
INVARIANTS ClientInv ProofsAgree
PROPERTIES StoredIsFixed FrozenUntilRecovered TimesStayInOrder
SYMMETRY SymmetricClients
CHECK_DEADLOCK FALSE
