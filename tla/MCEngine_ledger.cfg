SPECIFICATION Spec
CONSTANTS
  RESERVE_BASE = 2
  RESERVE_INC = 1
  FEE = 1
  MAX_TICKETS = 2
  DELETE_AGE = 3
  CLEANUP = TRUE
  PAGE_MAX = 2
  PRICE_ORDER = TRUE
  Start <- MCStart
  Inputs <- MCInputs
  MaxTxs <- MCMaxTxs
  MaxSlips = 1
  MaxCloses <- MCMaxCloses
INVARIANTS XrpConserved HoldingsAccounted
PROPERTIES AccountsKeepControl
CHECK_DEADLOCK FALSE
