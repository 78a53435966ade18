SPECIFICATION Spec
CONSTANTS
  p1 = p1
  p2 = p2
  Process <- MCProcess
  Forced <- MCForced
  Absent = Absent
  Old = Old
  Special = Special
  Sectors = 4
  SectorSize = 2
  BufferSize = 3
INVARIANTS
  TypeOK
  WholeImages
  FailureLeavesNothing
CHECK_DEADLOCK FALSE
PROPERTIES
  KeepsPromise
