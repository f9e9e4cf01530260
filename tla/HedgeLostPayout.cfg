CONSTANTS
  q1 = q1
  q2 = q2
  t1 = t1
  t2 = t2
  t3 = t3
  NoQuote = NoQuote
  Quotes = {q1, q2}
  Transfers = {t1, t2}
  QuoteOf <- MCQuoteOf
  Exact = {t1, t2}
  Dust = {}
  Routes = {r1}
  PriceTakesLock = FALSE
  PortsMayFail = TRUE
  MaxFaults = 0
SPECIFICATION Spec
INVARIANTS
  OwedIsKept
