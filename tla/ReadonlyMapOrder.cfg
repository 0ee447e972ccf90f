\* Regions added in any order: a page is written over.
SPECIFICATION HandleSpec
CONSTANTS
  PageSize = 3
  NumPages = 4
  MaxPartial = 2
  Regions <- MCRegions
INVARIANTS
  AllPartialPagesFound
