\* Every unit of four blocks, with conditions that are constant or not.
SPECIFICATION FlowSpec
CHECK_DEADLOCK FALSE
CONSTANTS
  NumBlocks = 4
  AllowBranchToNext = FALSE
INVARIANTS
  FlowInv
  SameBehaviour
  NothingDead
PROPERTIES
  PassesEnd
