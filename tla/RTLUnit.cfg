\* Units of up to four instructions and two labels; one entry slot per block,
\* so that two edges to one block need a dummy block; every allocation can fail.
\* A finalized unit is the end of the behaviour.
SPECIFICATION UnitSpec
CHECK_DEADLOCK FALSE
CONSTANTS
  NumEntries = 1
  MaxBlocks = 5
  ExpandSize = 1
  InsnsExpand = 3
  LabelsExpand = 2
  LabelsLimit = 3
  MaxInsns = 4
INVARIANTS
  UnitInv
  GraphMatchesCode
PROPERTIES
  UsesBlockTable
  JobEnds
