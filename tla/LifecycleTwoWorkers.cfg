SPECIFICATION Spec
CONSTANTS
  r1 = r1
  c1 = c1
  c2 = c2
  w1 = w1
  w2 = w2
  Requests <- OneRequest
  Clients <- TwoClients
  Workers <- TwoWorkers
  Early = FALSE
  MaxCrashes = 1
CHECK_DEADLOCK FALSE
INVARIANTS
  NoWorkAfterDelete
