SPECIFICATION Spec
CONSTANTS
  BufWords = 6
  MaxFrames = 4
INVARIANTS
  PythonPrefix
  NativeComplete
  ReadAsWritten
  RecordFitsWithoutRss
CHECK_DEADLOCK FALSE
