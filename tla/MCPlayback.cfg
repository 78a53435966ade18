SPECIFICATION PlaybackSpec
CONSTANTS
  TargetClock = 625
  FixtureClock = 1248
  SamplesPerFrame = 2
  CountBase = 2
  TestFrames = {0}
  TestWrap = 256
  Reg <- MCReg
  Song <- MCSong
INVARIANTS
  TypeOK
  NoInternalError
  TimeKept
  LoopRejoins
  WritesPreserved
  UnrolledOnlyForIntro
  HearsTheSong
  PointersOnRecords
PROPERTIES
  KeepsToScore
CHECK_DEADLOCK FALSE
