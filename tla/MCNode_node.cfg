CONSTANTS
  A = A  B = B  v1 = v1  v2 = v2  v3 = v3  v4 = v4
  NUM_WORKERS = 2  Keys = {1, 2, 3, 4}  Version <- MCVersion  LastKey <- MCLastKey  PageLimit = 2  MAX_ERRORS = 0  GIVE_UP = 1
  LastLedger = 4  MaxBoots = 2  ServerMayBeDown = TRUE
  DEFAULT_UNL_SOURCES <- MCSources  Pinned = {A}  Enforce = TRUE  MaxListSeq = 3  MaxUnlTime = 4  MaxUnlBoots = 3  MaxUnlFaults = 2
  Proposers = {v1, v2, v3, v4}  Trusted = {v1, v2, v3}  Txs = {1, 2}  MaxRounds = 10  MaxChanges = 3  SettleRound = 6
  Times = {14, 31}  NoProposal = NoProposal
  PoolTxs = {1, 2, 3}  Callers = {1}  FeeOf <- MCFee  LastSeqOf <- MCLastSeq  SoundTx <- MCSound  FEE_CAP = 10
  MAX_CAPACITY = 2  RELAY_TTL = 3  CLEANUP_EVERY = 1  MaxPoolTime = 4  MaxLedger = 2
  RoundMsgs <- MCRoundMsgs  RecordLists <- MCRecordLists  MaxHeaders = 2  CHANNEL_CAPACITY = 2  MAX_BATCH_ROWS = 2
  MAX_UNKNOWN_PROPOSALS = 1  ROTATE_LINES = 2  KEEP = 2  MaxSent = 4  MaxFaults = 1
  MIN_COVERAGE = 66  KEEP_DAYS = 2  SAVE_EVERY = 2  MaxDay = 3  MaxSigned = 4  MaxStops = 1  MaxUnsaved = 1
SPECIFICATION MCSpec
CHECK_DEADLOCK FALSE
INVARIANTS RecordOK DaysOK
PROPERTIES StartSound NodeGetsThere ListsSound RoundsSound PoolSound
