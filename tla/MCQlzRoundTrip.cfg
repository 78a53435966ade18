SPECIFICATION Spec
CONSTANTS
  CodeSpan = 8
  MatchMin = 3
  ShortDistance = 2
  MaxDistance = 5
  HashCount = 3
  ChainLimit = 2
  Symbol = {0, 1}
  MaxInput = 9
  MaxPeriodic = 24
  Damage = {0, 1, 9, 11, 16, 24, 31}
INVARIANTS
  RoundTrip
  DecodesInBounds
  ChainsExact
  NeverExpands
CHECK_DEADLOCK FALSE
