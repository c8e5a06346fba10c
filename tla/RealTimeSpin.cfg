SPECIFICATION Spec
CONSTANTS
  Threads = {main, t1, t2}
  Main = main
  Enablers = {main}
  Callers = {t1}
  Targets = {main, t1, t2}
  MaxList = 3
INVARIANTS
  NoSelfDeadlock
