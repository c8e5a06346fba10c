CONSTANTS
  Mappings <- Small
  Addrs = {0, 1, 2, 3, 4, 5, 6, 7, 8, 9, 10, 11, 12, 13}
  Garbage = 0
  Entries <- Few
  PCs = {0, 1, 2}
  MaxEntries = 5
SPECIFICATION AddressesSpec
INVARIANTS
  WrittenInBounds
  IgnoresTheMappings
  SortsTheVector
  FindsTheRange
CHECK_DEADLOCK FALSE
