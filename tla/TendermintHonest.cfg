SPECIFICATION FairSpec
CONSTANTS
  c1 = c1
  c2 = c2
  v = v
  w = w
  None = None
  Clients = {c1, c2}
  Heights <- FiveHeights
  Revision <- TwoRevisions
  Times <- FiveTimes
  Roots <- AllRoots
  SentinelRoot = "sentinel"
  ValidatorSets = {v, w}
  TrustLevel <- Skipping
  SignedHeaders <- Chain
  Upgrades <- OneUpgrade
  TrustingPeriods <- ShortAndLong
  UnbondingPeriods = {7}
  MaxClockDrift = 1
  DelayPeriods = {}
  MaxTime = 5
  MaxBlockInterval = 1
  MaxProofs = 0
  Migrating = TRUE
INVARIANTS HonestNeverFrozen
PROPERTIES CatchesUp
CHECK_DEADLOCK FALSE
