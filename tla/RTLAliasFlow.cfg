\* Every graph of three blocks with up to four references to the alias.
SPECIFICATION AliasSpec
CHECK_DEADLOCK FALSE
CONSTANTS
  NumBlocks = 3
  MaxRefs = 4
INVARIANTS
  AliasInv
