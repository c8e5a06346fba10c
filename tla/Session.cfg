SPECIFICATION FairSpec
CONSTANTS
  Threads = {t1, t2}
  MaxStops = 2
  MaxForks = 1
  CanFail = {"header", "rss", "flush"}
INVARIANTS
  StopIsQuiet
  HandlerHasFile
  HandlerHasUnwinder
  TimerOnlyInParent
  SamplingOn
PROPERTIES
  EveryoneReturns
CHECK_DEADLOCK FALSE
