SPECIFICATION Spec
CONSTANTS
  Other = Other
  NotFinite = NotFinite
  Longest = 1000000
  Largest = 1000000
  Mesh <- MCMesh
  Segmented <- MCSegmented
  AnalysisAsks <- MCAnalysisAsks
  Asks <- MCAsks
  Updates <- MCUpdates
  Older <- MCOlder
  MaxEdits = 4
INVARIANTS
  IntentIsApplied
  ReplayIsExact
PROPERTIES
  LockHolds
