CONSTANTS
  t1 = t1
  t2 = t2
  d1 = d1
  d2 = d2
  a1 = a1
  Ids = {t1, t2}
  Descrs = {d1, d2}
  Marks = {"noopt", "asm"}
  Addrs = {a1}
  Lines = {1, 4}
  Wide = {}
  FileLen = 4
  Gap = 2
  MaxSize = 7
SYMMETRY Symmetry
SPECIFICATION Spec
INVARIANTS
  PointIsFirst
  LinksPaired
  GoodLogsReadable
  TaggedOnce
CHECK_DEADLOCK FALSE
