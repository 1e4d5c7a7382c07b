SPECIFICATION Spec
CONSTANT
  JobKinds <- MCAllKinds
INVARIANTS
  NothingOfARejectedAttempt
  RefusalIsExplained
  ManifestBindsTheSet
  CancelIsNotSwallowed
  NoOpeningIsLost
CHECK_DEADLOCK FALSE
