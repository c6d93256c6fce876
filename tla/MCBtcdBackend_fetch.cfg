CONSTANTS
  t1 = t1
  t2 = t2
  t3 = t3
  t4 = t4
  w1 = w1
  w2 = w2
  Tx = {t1, t2, t3, t4}
  Recent = {t3}
  Worker = {w1, w2}
  Lookahead = 1
  Word = 64
  HardenedKeyStart = 3
  MaxUsed = 2
  AddrChanSize = 1
  TxChanSize = 6
  maxTxsPerAddr = 2
  RPCMayFail = TRUE
  Histories <- MCHistories
  Height <- MCHeight
  BlockHash <- MCBlockHash
SPECIFICATION FairSpec
INVARIANTS TypeOK HeightsRight NeverTruncated
PROPERTIES ImplementsFetch Terminates
CHECK_DEADLOCK FALSE
