\* Two uploaded sources, one of them not plain, and a sample; five steps of revision, two
\* requests at a time up to the third revision and one from there on, beside the job.
SPECIFICATION Spec
CHECK_DEADLOCK FALSE
CONSTANTS
  Source = {s1, s2}
  PlainSource = {s1}
  Sample = {p1}
  Supported = {}
  None = None
  InFlight = 2
  Asking = 1
  MaxRevision = 6
  MaxShape = 3
CONSTRAINT Bounded
INVARIANTS
  EvidenceIsOfSource
  FacetsHaveTheirMesh
  LabelIsOfGraph
PROPERTIES
  NothingStaleIsPublished
  BundleIsTheSet
