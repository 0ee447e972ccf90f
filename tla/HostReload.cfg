\* Every edge out of a block over three host registers.
SPECIFICATION ReloadSpec
CHECK_DEADLOCK FALSE
CONSTANTS
  NumHosts = 3
INVARIANTS
  ReloadInv
  PathsDelivered
PROPERTIES
  ShuffleProgresses
