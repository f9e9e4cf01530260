CONSTANTS
  Txs <- MCTxs
  Limit = 2
  MaxBurst = 2
  NodesMayLag = FALSE
  MaxPruned = 1
  MaxReboots = 0
  MaxHistory = 3
SPECIFICATION ScanSpec
CHECK_DEADLOCK FALSE
PROPERTIES
  EveryPaymentCredited
