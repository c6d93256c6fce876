CONSTANTS
  t1 = t1
  t2 = t2
  Tx = {t1, t2}
  Recent = {t2}
  Lookahead = 2
  Word = 64
  HardenedKeyStart = 4
  MaxUsed = 2
  AddrChanSize = 1
  TxChanSize = 1
  Histories <- MCHistories
SPECIFICATION FairSpec
INVARIANTS RecordingComplete ReplaySame
PROPERTIES QuietMaps ImplementsFetch Terminates
CHECK_DEADLOCK FALSE
