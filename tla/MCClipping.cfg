SPECIFICATION MCSpec
CONSTANTS
  TargetClock = 625
  FixtureClock = 1248
  Reg <- MCReg
  Value <- MCValue
  MaxClipped = 1
CONSTRAINT ClippedBound
PROPERTIES
  OnlyClippedCounted
CHECK_DEADLOCK FALSE
