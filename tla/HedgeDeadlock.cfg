CONSTANTS
  q1 = q1
  q2 = q2
  t1 = t1
  t2 = t2
  t3 = t3
  NoQuote = NoQuote
  Quotes = {q1}
  Transfers = {t1}
  QuoteOf <- MCQuoteOf
  Exact = {t1}
  Dust = {}
  Routes = {r1}
  PriceTakesLock = TRUE
  PortsMayFail = FALSE
  MaxFaults = 0
SPECIFICATION Spec
CHECK_DEADLOCK FALSE
PROPERTIES
  DueIsSettled
