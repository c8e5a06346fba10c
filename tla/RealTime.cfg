SPECIFICATION FairSpec
CONSTANTS
  Threads = {main, t1, t2}
  Main = main
  Enablers = {main}
  Callers = {t2}
  Targets = {main, t1}
  MaxList = 2
INVARIANTS
  ListExclusion
  BroadcastComplete
PROPERTIES
  ForwardedAgain
  EveryoneReturns
CHECK_DEADLOCK FALSE
