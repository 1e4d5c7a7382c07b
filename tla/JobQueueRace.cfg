\* Two jobs of one project, two requests in progress, no outage.
SPECIFICATION Spec
CONSTANTS
  j1 = j1
  j2 = j2
  p1 = p1
  p2 = p2
  Job = {j1, j2}
  Project = {p1}
  ProjectOf <- OneProject
  Client = {c1, c2}
  NoJob = NoJob
  MaxAttempts = 2
  Concurrency = 1
  MaxRevision = 2
  MaxOutages = 0
SYMMETRY Symmetry
INVARIANTS
  OneActiveMutation
  PublishedOnce
  OneOpenAttempt
  RunningIsOwned
  SignalPrecedence
CHECK_DEADLOCK FALSE
