SPECIFICATION PlatformSpec
CONSTANTS
  r1 = r1
  c1 = c1
  c2 = c2
  w1 = w1
  w2 = w2
  Requests <- OneRequest
  Clients <- TwoClients
  Workers <- OneWorker
  Early = FALSE
  MaxCrashes = 1
  Users <- TwoUsers
  JudgeLimit = 1
  MaxCommits = 2
  MaxDecisions = 2
  MaxCalls = 3
  MaxKills = 1
  Builds = {1, 2}
  MaxErrors = 1
  MaxLosses = 1
  Writers = {"store", "supervisor"}
  Operators <- OneOperator
  Window = 4
  SloWindow = 3
  Current = 2
  MinBaseline = 1
  MinCurrent = 2
  MinSlo = 2
  MinRollback = 2
  PerFailure = 2
  SweepEvery = 2
  MaxTurns = 1
  MaxPauses = 1
  MaxRestarts = 1
  Listeners = {"c"}
  Handlers = 1
  MaxEvents = 3
  MaxBuffer = 1
  MaxRetries = 1
  u1 = u1
  u2 = u2
  o1 = o1
  Null = Null
CHECK_DEADLOCK FALSE
INVARIANTS
  PlatformTypeOK
  NoWorkAfterDelete
  RecordMatches
  TaskAgrees
  NothingSpins
  RollbacksAreSound
PROPERTIES
  CancelledStays
  EveryRequestSettles
  DeploysEnd
  EveryPayloadHasAFate
