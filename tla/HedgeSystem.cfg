CONSTANTS
  q1 = q1
  q2 = q2
  t1 = t1
  t2 = t2
  t3 = t3
  NoQuote = NoQuote
  Quotes = {q1}
  Transfers = {t1, t3}
  QuoteOf <- MCQuoteOf
  Exact = {t1, t3}
  Dust = {}
  Routes = {r1}
  PriceTakesLock = FALSE
  PortsMayFail = TRUE
  MaxFaults = 1
  Amount <- MCAmount
  FloatCap = 1
  Balances = {1}
  MaxLostAnswers = 0
  MaxRestarts = 1
SPECIFICATION SystemSpec
INVARIANTS
  AnswersAreDurable
  QueuedOnceDecided
  CursorIsDurable
  OnlyDecidedPaid
PROPERTIES
  FeedsExecutor
  PaysWhatIsQueued
  DueIsSettled
  PaymentIsDecided
