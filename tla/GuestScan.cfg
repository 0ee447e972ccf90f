\* Every guest program of up to five words within the limit.
CONSTANTS
  MaxInsns = 5
  ExpandSize = 2
SPECIFICATION ScanSpec
CHECK_DEADLOCK FALSE
INVARIANTS
  ScanInv
  BlocksPartitionWords
  BranchFindsLabel
  ReachableIsTranslated
