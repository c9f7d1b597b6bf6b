SPECIFICATION AgentSpec
CONSTANTS
  c1 = c1
  c2 = c2
  Null = Null
  Calls <- TwoCalls
  Projects = {"p"}
  Models <- TwoModels
  Yaml = "opus"
  MaxTurns = 2
  MaxRetries = 2
  MaxChanges = 1
SYMMETRY Sym
CHECK_DEADLOCK FALSE
INVARIANTS
  ToolsStayInProject
