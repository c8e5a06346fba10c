SPECIFICATION Spec
CONSTANTS
  NumBufs = 2
  MaxSize = 2
  MaxRecords = 3
  h1 = h1
  m1 = m1
  m2 = m2
  Handlers = {h1}
  Closer = closer
  NoVictim = none
  Coders = {m1, m2}
  Victim <- OneHost
INVARIANTS
  WriteExclusion
  OneOwner
  ExactlyOnce
  ShutdownFlushes
PROPERTIES
  ImplementsLog
  HandlerReturns
