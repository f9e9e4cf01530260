CONSTANTS
  r1 = r1
  r2 = r2
  r3 = r3
  Refs = {r1, r2, r3}
  Amount <- MCAmount
  FloatCap = 2
  Balances = {1, 2}
  MayDamageLines = FALSE
  MaxLostAnswers = 1
  MaxRestarts = 0
SPECIFICATION Spec
CHECK_DEADLOCK FALSE
INVARIANTS
  PaidAtMostOnce
