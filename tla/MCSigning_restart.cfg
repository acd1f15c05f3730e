CONSTANTS
  n = n  x = x  None = None  Borrowed = Borrowed
  Hashes = {n, x}  MaxSeq = 3  Net <- MCNet  Modes = {"quorum"}
  UseWitness = TRUE  Contested = FALSE  Gates = {TRUE}  LandsTo = 3  MaxStarts = 1  ModeChanges = TRUE
  GIVE_UP = 1  CATCH_UP = 1  STALL = 1  KEEP = 3
SPECIFICATION Spec
CHECK_DEADLOCK FALSE
INVARIANTS NeverBackwards
