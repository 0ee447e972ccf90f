CONSTANTS
  Instructions <- MCInstructions
  Modes <- MCModes
  MaxInsns = 3
  Defects = {"trap", "stwcx", "mtcrf", "string", "ps_result", "get_ps1", "safe", "merge_safe", "flush_denormal"}
SPECIFICATION XlateSpec
INVARIANTS ReadsCurrent NothingLost KilledUnread SafeIsSafe MarksSuffice
