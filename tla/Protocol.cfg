CONSTANTS
  small = small
  large = large
  NumOwners = 2
  Lps = {lp}
  Mints = {m1, m2}
  TemplateIds = {small, large}
  CapDown <- MCCapDown
  CapUp <- MCCapUp
  Tenor <- MCTenor
  Amounts = {1, 4}
  Premiums = {1}
  Fees = {2}
  FloatDust = 1
  UMaxBps = 5000
  ProtocolFeeBps = 150
  FeeSplitBps = 5000
  RegimeMaxAge = 1
  MaxReserves = 5
  MaxShares = 7
  Exact = 16
  Spacings = {1, 2, 4, 8, 16, 32}
  MaxClock = 2
  MaxCertificates = 2
  WideAmounts = {3, 5}
  WideMaxReserves = 15
  WideExact = 32
  Modulus = 16
  Liquidities = {0, 1}
  Shared = FALSE
  Starts = {15}
  MaxSwaps = 2
  MaxChanges = 1
  Collector = collector
  Dashboard = dashboard
  FeeReader = feeReader
  Readers = {collector, dashboard, feeReader}
  MaxPlausible = 4
  MaxSnapshots = 2
SPECIFICATION PartsSpec
CHECK_DEADLOCK FALSE
INVARIANTS
  SharesBacked
  CapsReserved
  UtilizationBound
  NoOrphanReserves
  ProtectionIsActive
  ReadIsOwed
  MeasuredIsEarned
  QuietShareIsEarned
PROPERTIES
  ImplementsSharePool
  FirstIsSettled
