SPECIFICATION Spec
CONSTANTS
  Addrs = {a, b}
  Natives = {f}
  MaxName = 2
  Room = 2
  MaxSamples = 3
  MaxCreated = 1
  Contended = TRUE
INVARIANTS
  SampledAreNamed
  FreedAreNamed
PROPERTIES
  AppendOnly
CHECK_DEADLOCK FALSE
