CONSTANTS
  PCs = {100, 101, 102, 103, 104, 202}
  None = None
  Bad = Bad
SPECIFICATION MCSpec
INVARIANTS
  FramesOfTree
CHECK_DEADLOCK FALSE
