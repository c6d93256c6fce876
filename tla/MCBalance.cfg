CONSTANTS
  t1 = t1
  t2 = t2
  t3 = t3
  us = us
  them = them
  Tx = {t1, t2, t3}
  Ours = {us}
  blockHeight = 1
  Corruptions = {{}, {t2}}
  Ledgers <- MCLedgers
SPECIFICATION Spec
INVARIANTS BalanceCorrect NoPanic UnreadableSkipped
CHECK_DEADLOCK FALSE
