SPECIFICATION Spec
CONSTANTS
  Menu <- MCMenu
  MaxFeatures = 3
INVARIANTS
  ResolvedIsOnBody
PROPERTIES
  NeverAnotherFace
  FeaturesAreAtomic
CHECK_DEADLOCK FALSE
