SPECIFICATION Spec
CONSTANTS
  Coders = {"backend_specialist", "frontend_specialist"}
  Guard = "security_specialist"
  Deployers = {"deployment", "hotfix_deploy"}
  Parallel = {"development", "review", "review_and_test"}
  MaxRework = 2
  Order <- FeatureOrder
  Crew <- FeatureCrew
  Vetters = {"code_reviewer", "tester_specialist"}
  Skipped = {"story_creation"}
CHECK_DEADLOCK FALSE
INVARIANTS
  DeploysOnlyApproved
