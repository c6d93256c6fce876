CONSTANTS
  Conn = {"height", "work", "peer"}
  MaxLines = 2
  MaxFaults = 1
  minConfirmations = 6
  Word = 64
  MaxCalls = 4
  Options <- MCOptions
  Tips <- MCTips
SPECIFICATION FairSpec
INVARIANTS OwnAnswer NoMismatch RightChain IInv
PROPERTIES Settles
CHECK_DEADLOCK FALSE
