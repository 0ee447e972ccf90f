\* A unit whose division cannot have its natural location.
CONSTANTS
  NumHosts = 5
  CalleeSaved = {3}
  NumAliases = 2
  Skeletons <- Divisors
SPECIFICATION HostSpec
CHECK_DEADLOCK FALSE
INVARIANTS NaturalLocation
