CONSTANTS
  small = small
  large = large
  NumOwners = 1
  Lps = {lp}
  Mints = {m1}
  TemplateIds = {small}
  CapDown <- MCCapDown
  CapUp <- MCCapUp
  Tenor <- MCTenor
  Amounts = {1, 4}
  Premiums = {1}
  Fees = {2}
  FloatDust = 1
  UMaxBps = 5000
  ProtocolFeeBps = 150
  FeeSplitBps = 5000
  RegimeMaxAge = 1
  MaxReserves = 5
  MaxShares = 7
  Exact = 16
  Spacings = {1, 2, 4, 8, 16}
  MaxClock = 3
  MaxCertificates = 2
SPECIFICATION Spec
CHECK_DEADLOCK FALSE
PROPERTY EveryCertificateSettled
