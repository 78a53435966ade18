SPECIFICATION Spec
CONSTANTS
  Octet = {0, 1}
  Garbage = Garbage
  MaxSize = 7
  FirstCapacity = 2
  Pieces <- MCPieces
INVARIANTS
  NothingMissing
PROPERTIES
  IsAppendLog
