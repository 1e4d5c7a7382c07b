SPECIFICATION Spec
CONSTANTS
  MaxHistory = 2
  MaxBytes = 2
  Size <- MCSize
  MaxRevision = 3
  MaxLocal = 3
  MaxCalls = 2
  MaxReloads = 1
INVARIANTS
  WritableGraphIsServers
PROPERTIES
  EditsSurvive
CHECK_DEADLOCK FALSE
