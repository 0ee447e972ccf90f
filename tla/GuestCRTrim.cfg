\* Every unit of three blocks, with the accesses of MCBodies to the bit.
CONSTANTS
  NumBlocks = 3
  Bodies <- MCBodies
SPECIFICATION TrimSpec
CHECK_DEADLOCK FALSE
INVARIANTS
  TrimInv
  NoStaleRead
PROPERTIES
  LeavesWithBit
