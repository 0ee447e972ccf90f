\* One entry slot, so that chains of two dummy blocks form; every allocation can fail.
SPECIFICATION Spec
CONSTANTS
  NumEntries = 1
  MaxBlocks = 5
  ExpandSize = 1
CONSTRAINT BlocksFirst
INVARIANTS
  IInv
  EdgesAgree
  SearchInChain
  StreamLinked
PROPERTIES
  DropIsExact
  ExitsImplementGraph
  EntriesImplementGraph
