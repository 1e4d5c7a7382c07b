\* One job, two attempts, two requests in progress, two outages.
SPECIFICATION FairSpec
CONSTANTS
  j1 = j1
  j2 = j2
  p1 = p1
  p2 = p2
  Job = {j1}
  Project = {p1}
  ProjectOf <- OneProject
  Client = {c1, c2}
  NoJob = NoJob
  MaxAttempts = 2
  Concurrency = 1
  MaxRevision = 2
  MaxOutages = 2
PROPERTIES
  TerminalRewrites
  JobsKeepContract
  EveryJobSettles
CHECK_DEADLOCK FALSE
