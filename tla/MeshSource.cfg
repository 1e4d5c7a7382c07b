SPECIFICATION SourceSpec
CONSTANTS
  NotFinitePoint = NotFinitePoint
  MaxCoordinate = 50
  MaxVertices = 27
  MaxTriangles = 9
  MaxFaceVertices = 5
  Sniffed = 4
  MergeSquared = 1
  DegenerateArea = 0
  TinyParts = 3
  MaxHoleEdges = 4
  Files <- MCFiles
  RepairAsks <- MCRepairAsks
INVARIANTS
  ReadersAgree
  NoLeftovers
PROPERTIES
  FilledLoopsClose
CHECK_DEADLOCK FALSE
