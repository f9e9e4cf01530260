CONSTANTS
  o1 = o1
  o2 = o2
  a1 = a1
  a2 = a2
  NoAmount = NoAmount
  NoOrderId = NoOrderId
  Orders = {o1, o2}
  PreOrdered = {a2}
  Amounts = {a1, a2}
  Payments <- MCPayments
  Polls = {p1}
  ScanLimit = 1
  MaxTxs = 1
  MaxCrashes = 0
SPECIFICATION WatchedSpec
CHECK_DEADLOCK FALSE
PROPERTIES
  ManualPaymentIsDecided
