\* A store that reaches a call of the next block is killed.
SPECIFICATION AliasSpec
CHECK_DEADLOCK FALSE
CONSTANTS
  NumBlocks = 2
  MaxRefs = 3
INVARIANTS
  EveryCallReads
