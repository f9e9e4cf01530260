CONSTANTS
  NoAmount = NoAmount
  NoOrderId = NoOrderId
  NoPoll = NoPoll
  Orders = {o1}
  PreOrdered = {}
  Amounts = {a1}
  Payments = {}
  Polls = {p1}
  ScanLimit = 1
  MaxTxs = 1
  MaxCrashes = 0
SPECIFICATION ClickedSpec
CHECK_DEADLOCK FALSE
PROPERTIES
  FulfilledIsDelivered
