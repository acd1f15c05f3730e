CONSTANTS
  k1 = k1  k2 = k2  v1 = v1  v2 = v2  p1 = p1  p2 = p2
  Absent = Absent  None = None
  Keys <- MCKeys  Vals <- MCVals  Chain <- MCChain
  MaxSeq = 2  MaxStreak = 2  MaxGap = 1  MaxStarts = 1  WalletMod = 4
  Peers = FALSE  ForceStart = FALSE  ParkTimesOut = FALSE  ReadErrors = FALSE
  FetchPeers = {1, 2}  Honest = {1}  FetchJobs = {"t", "s"}  Blocked = {2}  Leavers = {2}  MaxLate = 1
  KindOf <- MCKindOf  LedgerOf <- MCLedgerOf  SeqIsRight = {"t"}  Tree <- MCTree  Above <- MCAbove  NoPeer = 0
  PEER_GAP = 2  REPLY_TIMEOUT = 1  LEDGER_DEADLINE = 1  HEADER_DEADLINE = 1  MISSES_TO_BENCH = 2
  BENCH = 3  QUEUE_CAP = 1  MAX_ACTIVE = 1  MaxIdle = 1  MaxConns = 1
  LastLedger = 5  ChainHash <- MCHash  TallyKeep = 4  CHAIN_KEEP = 2  NoWalk = NoWalk
  StatePeers = {p1, p2}  Sound = {p1}  Places = {"r", "a", "x", "y"}  Root = "r"  Over <- MCOver  Leaves = {"x", "y"}
  STUBBORN = 1  MaxKills = 1  NoTicket = NoTicket
SPECIFICATION MCSpec
CHECK_DEADLOCK FALSE
INVARIANTS FetchSound DownloadSound
PROPERTIES WalksRight LiveGetsThere
