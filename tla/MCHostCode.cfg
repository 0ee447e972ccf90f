CONSTANTS
  NumHosts = 5
  CalleeSaved = {3}
  NumAliases = 2
  Skeletons <- MCSkeletons
SPECIFICATION HostSpec
CHECK_DEADLOCK FALSE
INVARIANTS AllocInv ValuesInPlace EdgesAreReloads
