SPECIFICATION MoverSpec
CONSTANTS
  t1 = t1
  t2 = t2
  f1 = f1
  f2 = f2
  f3 = f3
  f4 = f4
  d1 = d1
  Task <- OneTask
  File = {}
  Parent <- MCParent
  PlanRank <- MCRank
  PathRank <- MCRank
  BatchRank <- MCBatchRank
  FileTask <- MCFileTask
  SourceId <- MCSourceId
  Dir <- OneDir
  DirTask <- MCDirTask
  Path <- MCPath
  Size <- MCSize
  MaxFiles = 2
  PlanBound <- MCPlanBound
  DriveId = {g1, g2, g3, g4, g5, g6, g7, g8}
  NoId = NoId
  Page <- MCPage
  MaxCache = 2
  MaxFaults = 1
INVARIANTS
  CompletedHasTree
\* A finished task ends the behaviour.
CHECK_DEADLOCK FALSE
