SPECIFICATION Spec
CONSTANTS
  t1 = t1
  f1 = f1
  f2 = f2
  f3 = f3
  d1 = d1
  Task <- MCTask
  File <- MCFile
  Parent <- MCParent
  PlanRank <- MCPlanRank
  FileTask <- MCFileTask
  SourceId <- MCSourceId
  Dir <- MCDir
  DirTask <- MCDirTask
  Path <- MCPath
  Size <- MCSize
  MaxFiles = 2
  PlanBound <- MCPlanBound
  DriveId = {g1, g2}
  NoId = NoId
SYMMETRY DriveIdSymmetry
INVARIANTS
  TypeOK
  BatchesPartition
  RowsConsistent
  UploadEvidence
  CleanupGate
  LocalGate
  DoneEvidence
  RootLast
  CompletedEvidence
PROPERTIES
  ForwardOnly
  DriveIdsWriteOnce
  ProvenanceForward
\* A completed or failed task ends the behaviour.
CHECK_DEADLOCK FALSE
