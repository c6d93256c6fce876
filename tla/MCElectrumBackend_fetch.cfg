CONSTANTS
  t1 = t1
  t2 = t2
  k1 = k1
  k2 = k2
  k3 = k3
  s1 = s1
  s2 = s2
  Tx = {t1, t2}
  Recent = {t2}
  Ident = {s1, s2}
  Seed = s1
  Conn = {k1, k2}
  firstConn = k1
  maxPeers = 2
  MaxFailures = 1
  Lookahead = 1
  Word = 64
  HardenedKeyStart = 2
  MaxUsed = 1
  AddrChanSize = 1
  TxChanSize = 4
  Histories <- MCHistories
  Height <- MCHeight
SPECIFICATION FairSpec
INVARIANTS HeightsRight NoCacheMiss PanicJustified
PROPERTIES ImplementsFetch Terminates
CHECK_DEADLOCK FALSE
