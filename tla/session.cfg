SPECIFICATION Spec
CONSTANTS
  MAX_VOL = 6
  Spans = {2, 4, 8}
  MaxSlides = 3
  MaxLate = 2
INVARIANTS
  AtMostLateBehind
  ShownIsTrue
  EndsOnlyLateOrClosed
CHECK_DEADLOCK FALSE
