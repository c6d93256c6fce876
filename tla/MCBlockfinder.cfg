CONSTANTS
  Radius = 2
  Start = 2
  Offset = 2
  Word = 64
  ChainHeight = 10
  MaxTime = 3
  Chains <- MCChains
  Targets <- MCTargets
SPECIFICATION FairSpec
INVARIANTS OwnAnswers NoPanic FoundBoundary
PROPERTY Terminates
CHECK_DEADLOCK FALSE
