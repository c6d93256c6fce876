CONSTANTS
  t1 = t1
  t2 = t2
  t3 = t3
  t4 = t4
  w1 = w1
  w2 = w2
  Tx = {t1}
  Recent = {}
  Worker = {w1}
  Lookahead = 3
  Word = 64
  HardenedKeyStart = 6
  MaxUsed = 3
  AddrChanSize = 1
  TxChanSize = 2
  maxTxsPerAddr = 1
  RPCMayFail = FALSE
  Histories <- MCBusyHistories
  Height <- MCHeight
  BlockHash <- MCBlockHash
SPECIFICATION FairSpec
PROPERTIES Terminates
CHECK_DEADLOCK FALSE
