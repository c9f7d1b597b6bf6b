--------------------------------- MODULE Making --------------------------------
(***************************************************************************)
(* The side of the platform its agents work on: the models they ask, the   *)
(* code they write, the knowledge, memory and lessons they work from, the  *)
(* records of a run and its cost.  Each is a module of its own; they share *)
(* no state.                                                               *)
(***************************************************************************)
EXTENDS Naturals

CONSTANTS
  Null,
  Files, Guarded, Exempt,   \* of the working tree
  Agents,                   \* the number of code agents
  MaxRework,                \* 3 in the code
  AgentCalls, Models, Yaml,
  Applications,             \* the projects agents work for and calls are charged to
  MaxTurns,                 \* 15 in the code
  MaxRetries,               \* 5 in the code
  Docs, Spaces, Personal, Platform, Texts, Buckets, Writers, MaxCached, \* of the knowledge base
  Episodes, Private, Workers, MinEpisodes, MinPattern,                  \* of the memory
  Analysts, Analysed, Signatures,                                       \* of the lessons
  Requests, Numbers, Cases, Reports,                                    \* of the records of a run
  Billed, Priced, AccountOf                                             \* of the cost

\* Bounds on the changes, edits, erasures, decisions, runs and calls explored.
CONSTANTS
  MaxAgentChanges, MaxEdits, MaxErasures, MaxAnalyses, MaxDecisions, MaxRuns, MaxModelCalls

VARIABLES
  disk, outputs, todo, stage, bundle, refused, verdict, rework, pushed, codeChanges, newest, foreign,
  agentCall, root, grounding, override, catalog, pool, booted, agentChanges, touched, told, asked,
  doc, buckets, ingestion, look, cache, edits, vetted, handed,
  episode, used, summaries, candidate, lesson, fold, review, erasures, folded, erased,
  run, canonical, pending, edit, decisions, queued, dropped,
  story, case, job, folder, repo, repoRow, runs, emitted,
  charged, modelCall, usage, gone, recorded

Code == INSTANCE CodeWriter WITH changes <- codeChanges
Agent == INSTANCE AgentLoop WITH Calls <- AgentCalls, Projects <- Applications, MaxChanges <- MaxAgentChanges,
  call <- agentCall, changes <- agentChanges
Base == INSTANCE KnowledgeBase WITH job <- ingestion
Memory == INSTANCE KnowledgeMemory
Learning == INSTANCE Lessons WITH Workers <- Analysts, Requests <- Analysed, MaxRuns <- MaxAnalyses
Records == INSTANCE RequestRecords WITH Files <- Reports, row <- repoRow
Ledger == INSTANCE CostLedger WITH Projects <- Applications, Models <- Billed, MaxCalls <- MaxModelCalls,
  ProjectOf <- AccountOf, requests <- charged, call <- modelCall

ASSUME NullAssumption == Null \notin Docs \cup Requests \cup Base!Document \cup Base!Retrieval \cup Records!StoryRow \cup Ledger!Call
ASSUME SpacesAssumption == {Personal, Platform} \subseteq Spaces
ASSUME BoundsAssumption ==
  /\ Agents \in Nat /\ MaxRework \in Nat /\ MaxTurns \in Nat /\ MaxRetries \in Nat
  /\ MaxAgentChanges \in Nat /\ MaxEdits \in Nat /\ MaxErasures \in Nat
  /\ MaxAnalyses \in Nat /\ MaxDecisions \in Nat /\ MaxRuns \in Nat /\ MaxModelCalls \in Nat
ASSUME YamlAssumption == Yaml \in Models
ASSUME AccountAssumption == AccountOf \in [Requests -> Applications]

codeVars == <<disk, outputs, todo, stage, bundle, refused, verdict, rework, pushed, codeChanges, newest, foreign>>
agentVars == <<agentCall, root, grounding, override, catalog, pool, booted, agentChanges, touched, told, asked>>
baseVars == <<doc, buckets, ingestion, look, cache, edits, vetted, handed>>
memoryVars == <<episode, used, summaries, candidate, lesson, fold, review, erasures, folded, erased>>
learningVars == <<run, canonical, pending, edit, decisions, queued, dropped>>
recordVars == <<story, case, job, folder, repo, repoRow, runs, emitted>>
ledgerVars == <<charged, modelCall, usage, gone, recorded>>
================================================================================
