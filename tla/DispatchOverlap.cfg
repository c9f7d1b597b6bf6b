SPECIFICATION Spec
CONSTANTS
  a = a
  b = b
  c = c
  r1 = r1
  r2 = r2
  u = u
  w = w
  None = None
  Tasks <- ThreeTasks
  DependsOn <- Triangle
  Requests <- TwoRequests
  Calls <- TwoUsers
  Selections <- OneOrAll
  Strays = 1
  Governed = {TRUE, FALSE}
  OneAtATime = FALSE
CHECK_DEADLOCK FALSE
INVARIANTS
  OneLiveRequest
