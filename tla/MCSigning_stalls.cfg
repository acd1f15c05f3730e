CONSTANTS
  n = n  x = x  None = None  Borrowed = Borrowed
  Hashes = {n, x}  MaxSeq = 3  Net <- MCNet  Modes = {"breaker"}
  UseWitness = TRUE  Contested = FALSE  Gates = {TRUE}  LandsTo = 2  MaxStarts = 0  ModeChanges = TRUE
  GIVE_UP = 1  CATCH_UP = 1  STALL = 1  KEEP = 3
SPECIFICATION FairSpec
CHECK_DEADLOCK FALSE
PROPERTIES SignsTheLast
