\* Two clients with a request each at the same time, two versions.
SPECIFICATION Spec
SYMMETRY Symmetry
CHECK_DEADLOCK FALSE
CONSTANTS
  Client = {c1, c2}
  VersionId = {v1, v2}
  Name = {n1, n2}
  None = None
  InFlight = 2
  MaxRevision = 4
INVARIANTS
  CurrentIsVersion
  TagNamesDocument
PROPERTIES
  ChecksAreAtomic
