SPECIFICATION Spec
CONSTANTS
  MAX_VOL = 2
  Spans = {1}
  MaxSlides = 1
  MaxLate = 2
PROPERTY
  MuteReportedIsMade
CHECK_DEADLOCK FALSE
