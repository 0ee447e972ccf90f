\* Calls one after the other, each allocation refused or not, and regions added in
\* any order, below the top of the address space.
SPECIFICATION HandleSpec
CHECK_DEADLOCK FALSE
CONSTANTS
  PageSize = 2
  NumPages = 5
  MaxPartial = 4
  Regions <- MCRegions
INVARIANTS
  HandleInv
  ReadonlyExact
