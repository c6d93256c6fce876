CONSTANTS
  Radius = 1
  Start = 2
  Offset = 2
  Word = 64
  ChainHeight = 8
  Worker = {1, 2}
  LiveChanSize = 3
  FixtureChanSize = 2
  Chains <- MCChains
  Targets <- MCTargets
SPECIFICATION SearchReplaySpec
INVARIANTS ReplaySame
PROPERTIES ImplementsSearch NoMissingBlock SearchesEnd
CHECK_DEADLOCK FALSE
