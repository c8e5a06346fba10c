CONSTANTS
  MaxModules = 3
  None = None
SPECIFICATION ElfSpec
INVARIANTS
  NothingLeaks
  DebugInfoUsed
CHECK_DEADLOCK FALSE
