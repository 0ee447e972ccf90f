SPECIFICATION OptSpec
CONSTANTS
  MaxReg = 8
  MaxLabel = 2
  MaxInsns = 8
  Fuel = 16
  Membase = 1
  HostBase = 64
  Inputs = {0}
  Aliases <- MCAliases
  Pool <- MCPool
  Modes = {"float"}
  FlagSets <- MCFlagSets
  Rom <- MCRom
  Defects = {"cascade", "fcmp", "first_live", "label_flag", "mulhu"}
INVARIANTS
  SameMeaning
CHECK_DEADLOCK FALSE
