CONSTANTS
  a = a  b = b  s = s  v = v  w = w  x = x  e = e  u = u
  Absent = Absent  NoBytes = NoBytes  None = None
  Keys = {a, b, s}  Singletons = {s}  Vals = {v, w, x, e, u}
  Chain <- MCChain  Named <- MCNamed  Undecodable = {u}  Encoded <- MCEncoded
  MaxSeq = 8  PendingCap = 2  BadKeysCap = 1  BreakerFails = 2  BreakerWindow = 3
  ScanErrors = FALSE  Peers = TRUE
  v1 = v1  v2 = v2  a1 = a1  a2 = a2
  Objects = {1, 2, 3, 4, 5}  DIR_MAX = 2  MaxPage = 3  NoHint = NoHint
  BuildTxs = {1, 2, 3, 4, 5, 6, 7, 8, 9, 10}  Account <- MCAccount  Proxy <- MCProxy  Needs <- MCNeeds  Lacking <- MCLacking
  Inner <- MCInner  SaltOf <- MCSaltOf  XorBits <- MCXor  Sets <- MCSets  MaxLedgers = 2  MaxWrong = 1
  NegValidators = {v1, v2}  Amendments = {a1, a2}  Supported = {a1}  EngineKnown = {a1}  Fees = {10}  FLAG = 2
  PendingOnly = TRUE  MaxFlagSeq = 6  NoOne = NoOne  NoObject = NoObject  NoReading = NoReading
  Nibbles = {0, 1}  Depth = 3  TreeKeys <- MCTreeKeys  Values = {1, 2}  ZERO = ZERO
  HashNibbles = {0, 1}  BucketDepth = 2  HashKeys <- MCTreeKeys  HashValues = {1, 2}  FirstStores <- MCStores
  NOTHING = NOTHING  NoHasher = NoHasher  MaxWrites = 2
SPECIFICATION MCSpec
CHECK_DEADLOCK FALSE
INVARIANTS MirrorIsLedger NoGap BreakerHolds OwnMeansOurs FormsSound
PROPERTIES ReplayCompletes FailsOncePerLedger FlagLedgersOK
