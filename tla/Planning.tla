-------------------------------- MODULE Planning -------------------------------
(***************************************************************************)
(* The side of the platform a user works on: briefs, PRDs and their        *)
(* versions, the plan below them, the projects, the prompt studio, and     *)
(* what finalizing publishes to JIRA and Confluence.  Each is a module of  *)
(* its own; they share no state.                                           *)
(***************************************************************************)
EXTENDS Naturals, Sequences

CONSTANTS
  Callers,      \* the concurrent calls of the routes and of the publisher
  Nobody,
  Refinements,  \* the concurrent calls of the prompt studio
  Planners,     \* the concurrent calls of the generators of a plan
  MayDecompose, \* whether the migration of a flat task list is used
  Names,        \* the names of projects
  MaxPort,      \* 65535 in the code, counted from the base port as 1
  JiraEpics, JiraFeatures, Published, \* what is pushed: epics, features, documents
  ProjectOf, EpicOf, TitleOf, KeyOf, SpaceOf, Spares

\* Bounds on the rows, calls, answers, objects and faults explored.
CONSTANTS
  Generations, MaxEpics, MaxFeatures, MaxTasks, MaxLeft, MaxProjects, MaxRouteCalls,
  MaxIteration, MaxVariants, MaxObjects, MaxFaults

VARIABLES
  brief, row, docCall, executor, orphans,
  epic, feature, task, gen, legacy, unchecked,
  project, admin, repos, typed, tree, requests, judged, calls,
  session, selected, variants, refining,
  place, remote, mapping, push, faults, excused

Written == INSTANCE Documents WITH call <- docCall
Plan == INSTANCE BuildPlan
Admin == INSTANCE ProjectAdmin WITH MaxCalls <- MaxRouteCalls
Studio == INSTANCE PromptStudio WITH Calls <- Refinements, Null <- Nobody, pending <- refining
Remote == INSTANCE Integrations WITH Epics <- JiraEpics, Features <- JiraFeatures, Docs <- Published,
  Null <- Nobody, call <- push

ASSUME NobodyAssumption == Nobody \notin Admin!Projects \cup Written!Artifacts \cup Studio!Variant
ASSUME NoObjectAssumption == Nobody \notin Nat \cup Remote!Places \cup Remote!Reference \cup Remote!Push
ASSUME ItemsAssumption ==
  /\ JiraEpics \cap JiraFeatures = {} /\ Published \cap (JiraEpics \cup JiraFeatures) = {}
  /\ EpicOf \in [JiraFeatures -> JiraEpics] /\ ProjectOf \in [JiraEpics \cup Published -> Remote!Projects]
  /\ \A p \in Remote!Projects : Spares[KeyOf[p]] \in Seq(Remote!Keys)
ASSUME LimitsAssumption ==
  /\ Generations \in Nat /\ MaxEpics \in Nat /\ MaxFeatures \in Nat /\ MaxTasks \in Nat /\ MaxLeft \in Nat
  /\ MaxProjects \in Nat
  /\ MaxPort \in Nat /\ MaxRouteCalls \in Nat /\ MaxIteration \in Nat /\ MaxVariants \in Nat
  /\ MaxObjects \in Nat /\ MaxFaults \in Nat

writtenVars == <<brief, row, docCall, executor, orphans>>
planVars == <<epic, feature, task, gen, legacy, unchecked>>
adminVars == <<project, admin, repos, typed, tree, requests, judged, calls>>
studioVars == <<session, selected, variants, refining>>
remoteVars == <<place, remote, mapping, push, faults, excused>>
================================================================================
