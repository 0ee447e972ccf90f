\* A blr followed by a marked block leaves the unit without the bit.
CONSTANTS
  NumBlocks = 3
  Bodies <- MCBodies
SPECIFICATION TrimSpec
CHECK_DEADLOCK FALSE
INVARIANTS
  BitInPlace
