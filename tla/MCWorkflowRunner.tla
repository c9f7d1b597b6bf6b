-------------------------- MODULE MCWorkflowRunner --------------------------
(***************************************************************************)
(* The two code-writing workflows of config/workflows.yaml for TLC.        *)
(***************************************************************************)
EXTENDS WorkflowRunner

FeatureOrder == <<"requirements", "story_creation", "development", "review",
                  "testing", "security", "code_commit", "deployment">>

BugFixOrder == <<"triage", "fix", "review_and_test", "security", "code_commit",
                 "hotfix_deploy">>

FeatureCrew == [
  requirements   |-> {"business_analyst"},
  story_creation |-> {"business_analyst"},
  development    |-> {"backend_specialist", "frontend_specialist"},
  review         |-> {"code_reviewer"},
  testing        |-> {"tester_specialist"},
  security       |-> {"security_specialist"},
  code_commit    |-> {},
  deployment     |-> {"devops_specialist"}]

BugFixCrew == [
  triage          |-> {"business_analyst"},
  fix             |-> {"backend_specialist", "frontend_specialist"},
  review_and_test |-> {"code_reviewer", "tester_specialist"},
  security        |-> {"security_specialist"},
  code_commit     |-> {},
  hotfix_deploy   |-> {"devops_specialist"}]

\* feature_development is one of the workflows the theorems about the gates
\* speak of; bug_fix, which has no testing stage, is not.
ASSUME FeatureIsGated == Order = FeatureOrder => WellGated

=============================================================================
