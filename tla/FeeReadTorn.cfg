CONSTANTS
  Modulus = 16
  Liquidities = {0, 1}
  Shared = FALSE
  Starts = {15}
  MaxSwaps = 3
  MaxChanges = 0
  Collector = collector
  Dashboard = dashboard
  FeeReader = feeReader
  Readers = {feeReader}
  MaxPlausible = 4
  MaxSnapshots = 2
SPECIFICATION ReadsSpec
CHECK_DEADLOCK FALSE
INVARIANT FeeShareIsEarned
