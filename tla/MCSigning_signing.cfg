CONSTANTS
  n = n  x = x  None = None  Borrowed = Borrowed
  Hashes = {n, x}  MaxSeq = 3  Net <- MCNet  Modes = {"own", "announce", "quorum", "breaker"}
  UseWitness = TRUE  Contested = TRUE  Gates = {TRUE}  LandsTo = 2  MaxStarts = 1  ModeChanges = FALSE
  GIVE_UP = 1  CATCH_UP = 1  STALL = 1  KEEP = 2
SPECIFICATION Spec
CHECK_DEADLOCK FALSE
INVARIANTS SignsForward
PROPERTIES SignsRight NeverPassesOver
