CONSTANTS
  t1 = t1
  t2 = t2
  Tx = {t1, t2}
  Recent = {t2}
  Lookahead = 2
  Word = 64
  HardenedKeyStart = 4
  MaxUsed = 4
  Histories <- MCHistories
SPECIFICATION FairSpec
INVARIANTS FetchComplete WalletCovered SingleAddressCovered NoOverscan PanicJustified IInv
PROPERTIES QuietAfterDone Terminates
CHECK_DEADLOCK FALSE
