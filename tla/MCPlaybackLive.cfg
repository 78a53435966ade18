SPECIFICATION PlaybackSpec
CONSTANTS
  TargetClock = 625
  FixtureClock = 1248
  SamplesPerFrame = 2
  CountBase = 2
  TestFrames = {0, 4}
  TestWrap = 4
  Reg <- MCReg
  Song <- MCLiveSong
INVARIANTS
  PlayerTypeOK
PROPERTIES
  TestEnds
  EndsSilent
  LoopsForEver
CHECK_DEADLOCK FALSE
