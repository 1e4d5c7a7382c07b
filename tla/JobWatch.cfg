SPECIFICATION Spec
CONSTANTS
  MaxEvents = 3
  PageSize = 2
  MaxAttempts = 2
  MaxAppends = 7
  MaxBreaks = 1
INVARIANTS
  EndIsTold
  NeitherSkippedNorRepeated
  ShownEndIsTrue
PROPERTIES
  EndIsShown
CHECK_DEADLOCK FALSE
