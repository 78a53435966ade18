SPECIFICATION Spec
CONSTANTS
  CodeSpan = 2
  MatchMin = 2
  ShortDistance = 8
  MaxDistance = 63
  MaxPayload = 4
  LongPayload = 7
  MaxSize = 6
INVARIANTS
  InBounds
PROPERTIES
  DecodesAsTarget
CHECK_DEADLOCK FALSE
