CONSTANTS
  v1 = v1  v2 = v2  v3 = v3  h1 = h1  h2 = h2  t1 = t1  t2 = t2
  Disabled = {v1}
  Validators = {v1, v2}  Faulty = {}  Lists <- MCLists
  Hashes = {h1}  None = None  TxSets = {t1, t2}  SetOf <- MCSetOf
  MaxSeq = 4  Net <- MCNet  NegativeAt <- MCNegativeAt
  Splits = {FALSE}  Sources = {TRUE, FALSE}  RoundsUp = {}
  GIVE_UP = 2  KEEP = 2  AGREED_KEEP = 1
SPECIFICATION Spec
CHECK_DEADLOCK FALSE
INVARIANTS PendingIsRecent
PROPERTIES ReachedIsNeverShort ImplementsView
