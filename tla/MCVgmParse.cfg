SPECIFICATION ParseSpec
CONSTANTS
  TargetClock = 2000000
  FixtureClock = 3993600
  SamplesPerFrame = 735
  SampleMax = 1700
  OffsetRange = 4096
  Reg <- MCReg
  File <- MCFile
INVARIANTS
  AcceptedIsWellFormed
  ReadsInside
  LoopIsAtItsCommand
CHECK_DEADLOCK FALSE
