CONSTANTS
  r1 = r1
  r2 = r2
  r3 = r3
  Refs = {r1, r2, r3}
  Amount <- MCAmount
  FloatCap = 2
  Balances = {1, 3}
  MayDamageLines = TRUE
  MaxLostAnswers = 1
  MaxRestarts = 1
  Txs <- MCTxs
  Limit = 2
  MaxBurst = 2
  NodesMayLag = TRUE
  MaxPruned = 0
  MaxReboots = 2
  MaxHistory = 5
  NoAmount = NoAmount
  NoOrderId = NoOrderId
  NoPoll = NoPoll
  o1 = o1
  o2 = o2
  a1 = a1
  a2 = a2
  Orders = {o1, o2}
  PreOrdered = {}
  Amounts = {a1}
  Payments = {}
  Polls = {p1}
  ScanLimit = 1
  MaxTxs = 1
  MaxCrashes = 1
  Looks = {k1}
  NoLook = NoLook
  NonceCap = 0
  MaxQuotes = 2
  MaxChallenges = 2
SPECIFICATION PartsSpec
CHECK_DEADLOCK FALSE
INVARIANTS
  RepeatsAreLostAnswers
  ChainOrder
  ShownIsOwn
  CertificateIsOfQuote
  QuoteIsAuthorised
  RestartReproduces
  DownloadIsBought
PROPERTIES
  ExecutorPays
  ScanCredits
  ShopDecides
  PageOffers
  PanelShows
