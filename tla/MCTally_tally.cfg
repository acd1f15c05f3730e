CONSTANTS
  v1 = v1  v2 = v2  v3 = v3  h1 = h1  h2 = h2  t1 = t1  t2 = t2
  Disabled = {v1}
  Validators = {v1, v2, v3}  Faulty = {v3}  Lists <- MCLists
  Hashes = {h1, h2}  None = None  TxSets = {t1, t2}  SetOf <- MCSetOf
  MaxSeq = 2  Net <- MCNet  NegativeAt <- MCNegativeAt
  Splits = {TRUE, FALSE}  Sources = {TRUE, FALSE}  RoundsUp = {}
  GIVE_UP = 1  KEEP = 1  AGREED_KEEP = 1
SPECIFICATION Spec
CHECK_DEADLOCK FALSE
INVARIANTS OneQuorumPerLedger HealthyNeverDiffers
