SPECIFICATION PipelineSpec
CONSTANTS
  MaxInput = 41
  MaxChanges = 1
  DataSize = 14
  HeaderSize = 3
  MaxFiles = 3
  MinSectors = 5
  MaxSectors = 6
  Bytes = 8
  MapId = 5
  FreeId = 6
  UserSizes <- MCUserSizes
  BinarySizes <- MCBinarySizes
  DecodedSizes = {10, 20}
  Geometry = {5, 6}
  ScreenSize = 12
  BootSize = 5
  MaxWord = 45
  Absent = Absent
  Old = Old
  Special = Special
INVARIANTS
  NothingLeft
  ExitCodeIsHonest
  ReadsWhole
  MapInside
  EveryFileReadsBack
CHECK_DEADLOCK FALSE
