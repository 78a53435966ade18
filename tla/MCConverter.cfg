SPECIFICATION MCSpec
CONSTANTS
  TargetClock = 625
  FixtureClock = 1248
  Reg <- MCReg
  Value <- MCValue
  MaxClipped = 1
CONSTRAINT ClippedBound
INVARIANTS
  IInv
  TypeOK
  ChipFollowsSong
PROPERTIES
  NothingLost
  ClippingIsHonest
CHECK_DEADLOCK FALSE
