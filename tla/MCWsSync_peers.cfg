CONSTANTS
  k1 = k1  k2 = k2  v1 = v1  v2 = v2
  Absent = Absent  None = None
  Keys <- MCKeys  Vals <- MCVals  Chain <- MCChain
  MaxSeq = 3  MaxStreak = 2  MaxGap = 1  MaxStarts = 3  WalletMod = 4
  Peers = TRUE  ForceStart = TRUE  ParkTimesOut = TRUE  ReadErrors = FALSE
SPECIFICATION Spec
CHECK_DEADLOCK FALSE
INVARIANTS WalletCountMatchesStore TicketNamesStore
PROPERTIES ParkedStoreFrozen ImplementsVerifiedChain
