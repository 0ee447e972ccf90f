\* Units in which a conditional branch may go to the next block.
SPECIFICATION FlowSpec
CHECK_DEADLOCK FALSE
CONSTANTS
  NumBlocks = 4
  AllowBranchToNext = TRUE
INVARIANTS
  SameBehaviour
