SPECIFICATION FairSpec
CONSTANTS
  a = a
  b = b
  c = c
  r1 = r1
  r2 = r2
  u = u
  w = w
  None = None
  Tasks <- ThreeTasks
  DependsOn <- Triangle
  Requests <- TwoRequests
  Calls <- OneUser
  Selections <- OneOrAll
  Strays = 1
  Governed = {TRUE, FALSE}
  OneAtATime = TRUE
CHECK_DEADLOCK FALSE
INVARIANTS
  TypeOK
  OneLiveRequest
  DependenciesFirst
  TaskFollowsRequest
PROPERTIES
  CascadeReaches
