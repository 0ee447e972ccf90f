\* A conditional branch with LK = 1 to a block of the unit loses a store.
CONSTANTS
  NumBlocks = 3
  Bodies <- MCBodies
SPECIFICATION TrimSpec
CHECK_DEADLOCK FALSE
INVARIANTS
  NothingLost
