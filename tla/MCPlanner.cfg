SPECIFICATION Spec
CONSTANTS
  File <- MCFile
  Parent <- MCParent
  PlanRank <- MCPlanRank
  MaxSize = 2
  MaxCount = 3
  MaxBound = 5
INVARIANTS
  PlannerIsPlan
  PlannersAgree
\* One planning call ends the behaviour.
CHECK_DEADLOCK FALSE
