CONSTANTS
  k1 = k1  k2 = k2  v1 = v1  v2 = v2
  Absent = Absent  None = None
  Keys <- MCKeys  Vals <- MCVals  Chain <- MCChain
  MaxSeq = 4  MaxStreak = 3  MaxGap = 1  MaxStarts = 3  WalletMod = 4
  Peers = FALSE  ForceStart = FALSE  ParkTimesOut = FALSE  ReadErrors = FALSE
SPECIFICATION Spec
CHECK_DEADLOCK FALSE
INVARIANTS StoreVerified HasherTracksStore CleanMarkerMeansVerified RunCountsLedgersOnce
PROPERTIES TrialIsQuiet
