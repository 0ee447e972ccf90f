SPECIFICATION OptSpec
CONSTANTS
  MaxReg = 8
  MaxLabel = 2
  MaxInsns = 8
  Fuel = 16
  Membase = 1
  HostBase = 64
  Inputs = {0, 7, 200}
  Aliases <- MCAliases
  Pool <- MCPool
  Modes <- MCModes
  FlagSets <- MCFlagSets
  Rom <- MCRom
  Defects = {"cascade", "fcmp", "first_live", "label_flag", "fnmadd", "mulhu"}
INVARIANTS
  SameMeaning
  LiveRangesCover
  DeathIsLastUse
  NothingUnused
CHECK_DEADLOCK FALSE
