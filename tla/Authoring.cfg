SPECIFICATION MCSpec
CONSTANTS
  one = one
  two = two
  this = this
  that = that
  sole = sole
  Null = Null
  Nobody = Nobody
  Callers <- TwoCallers
  Generations = 2
  Planners <- TwoCallers
  MayDecompose = TRUE
  MaxEpics = 1
  MaxFeatures = 2
  MaxTasks = 3
  MaxLeft = 1
  Names <- TwoNames
  MaxPort = 2
  MaxProjects = 2
  MaxRouteCalls = 3
  Refinements <- ThreeRefinements
  MaxIteration = 2
  MaxVariants = 2
  JiraEpics = {"e"}
  JiraFeatures = {"f"}
  Published = {"m", "n"}
  ProjectOf <- Owner
  EpicOf <- Parent
  TitleOf <- Title
  KeyOf <- SameKey
  SpaceOf <- SameSpace
  Spares <- TwoSpares
  MaxObjects = 3
  MaxFaults = 1
  Files = {"f", "g"}
  Guarded = {"g"}
  Exempt = {"g"}
  Agents = 1
  MaxRework = 2
  AgentCalls <- TwoCallers
  Applications = {"p"}
  Models = {"opus", "gpt"}
  Yaml = "opus"
  MaxTurns = 2
  MaxRetries = 1
  MaxAgentChanges = 1
  Docs <- SoleCaller
  Spaces <- AllSpaces
  Personal = "personal"
  Platform = "platform"
  Texts = {"t"}
  Buckets = {"b"}
  Writers <- SoleCaller
  MaxCached = 1
  MaxEdits = 2
  Episodes <- ThreeEpisodes
  Private <- SoleCaller
  Workers <- TwoCallers
  MinEpisodes = 2
  MinPattern = 2
  MaxErasures = 1
  Analysts <- SoleCaller
  Analysed = {"r"}
  Signatures = {"s", "t"}
  MaxAnalyses = 3
  MaxDecisions = 3
  Requests <- TwoCallers
  Numbers = {"n"}
  Cases = {"t"}
  Reports = {"f"}
  MaxRuns = 2
  Billed = {"m", "free"}
  Priced = {"m"}
  AccountOf <- SameAccount
  MaxModelCalls = 2
SYMMETRY Sym
CHECK_DEADLOCK FALSE
INVARIANTS
  TypeOK
  VersionsInOrder
  PlanIsBuildable
  ProjectsAreApart
  PushedIsReviewed
  ModelStaysWithCall
  HandedIsVetted
  
  RecordsAreKept
PROPERTIES
  WorkIsKept
