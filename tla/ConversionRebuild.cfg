\* Two uploaded sources, one of them not plain, and a sample; four steps of revision.
SPECIFICATION Spec
CHECK_DEADLOCK FALSE
CONSTANTS
  Source = {s1, s2}
  PlainSource = {s1}
  Sample = {p1}
  Supported = {}
  None = None
  InFlight = 2
  Asking = 1
  MaxRevision = 5
  MaxShape = 2
CONSTRAINT Bounded
INVARIANTS
  BuildsArePublished
