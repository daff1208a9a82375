SPECIFICATION LifeSpec
CONSTANTS
  Process = {p1, p2}
  Job = {j1, j2}
  NoJob = NoJob
  OpenFilesPinned = TRUE
  MaxLaunches = 3
INVARIANTS
  InstancesExclude
  ArmedIsCurrent
  OnlyTheRaceLoses
\* A folder in which no process runs any more.
CHECK_DEADLOCK FALSE
