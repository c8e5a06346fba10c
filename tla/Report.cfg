CONSTANTS
  Codes = {2, 4}
  Natives = {3}
  Jitted = {4}
  Assembled = {6}
  Modules = {4}
  LineNumbers = {7, 8}
  MaxDepth = 3
  MaxProfiles = 2
SPECIFICATION ReportSpec
INVARIANTS
  TreeMatchesTop
  MarksAddUp
  FlatAddsUp
CHECK_DEADLOCK FALSE
