\* Two blobs, two projects, two publications, one collector.
SPECIFICATION FairSpec
CONSTANTS
  Blob = {b1, b2}
  Project = {p1, p2}
  Publisher = {x1, x2}
  Collector = {c1}
  BatchSize = 1
  MaxAborts = 1
INVARIANTS
  ReferencesReadable
  PublicationKept
PROPERTIES
  KeepsContract
  OrphansAreCollected
