CONSTANTS
  Mints = {m1, m2}
  Wallets = {w1, w2}
  TxIds = {t1, t2}
  Terms <- MCTerms
  Amounts <- MCAmounts
  Fees = {10}
  Checkpoints = {cp1, cp2}
  FloatDust = 1
  InitialReserves = 3
  UMaxBps = 10000
  FeeSplitBps = 1000
  QuoteTtl = 1
  Tenor = 1
  RegimeMaxAge = 1
  PerBuyerCapLimit = 3
  MaxOpenQuotesPerOwner = 2
  MaxLifetimeQuotes = 2
  MaxClock = 2
SPECIFICATION Spec
SYMMETRY MCSymmetry
INVARIANTS
  InvariantsHold
  UtilizationBound
  InflowsAccounted
  OneCertificatePerPosition
  BuyerWithinLimit
  SettlementCovered
  RestartReproduces
PROPERTIES
  ImplementsReserveAccounting
  DecisionsAreFinal
