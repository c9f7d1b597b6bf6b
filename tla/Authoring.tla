-------------------------------- MODULE Authoring ------------------------------
(***************************************************************************)
(* What the platform writes: all parts of Planning and Making.  They share *)
(* no state, so a behaviour moves one part, the one its initial state      *)
(* picks, and the others stay where they started.                          *)
(***************************************************************************)
EXTENDS Planning, Making

VARIABLE part

Parts == {"documents", "plan", "projects", "code", "agents", "knowledge", "memory", "prompts", "lessons",
          "remote", "records", "costs"}

Init ==
  /\ part \in Parts
  /\ Written!Init /\ Plan!Init /\ Admin!Init /\ Code!Init /\ Agent!Init /\ Base!Init
  /\ Memory!Init /\ Studio!Init /\ Learning!Init /\ Remote!Init /\ Records!Init /\ Ledger!Init
  /\ part # "documents" => executor
  /\ part # "code" => disk = [f \in Files |-> Code!Missing]
  /\ part # "agents" => booted /\ catalog = [m \in Models |-> "good"]

Still(moving) ==
  /\ UNCHANGED part
  /\ moving # "documents" => UNCHANGED writtenVars
  /\ moving # "plan" => UNCHANGED planVars
  /\ moving # "projects" => UNCHANGED adminVars
  /\ moving # "code" => UNCHANGED codeVars
  /\ moving # "agents" => UNCHANGED agentVars
  /\ moving # "knowledge" => UNCHANGED baseVars
  /\ moving # "memory" => UNCHANGED memoryVars
  /\ moving # "prompts" => UNCHANGED studioVars
  /\ moving # "lessons" => UNCHANGED learningVars
  /\ moving # "remote" => UNCHANGED remoteVars
  /\ moving # "records" => UNCHANGED recordVars
  /\ moving # "costs" => UNCHANGED ledgerVars

Next ==
  \/ part = "documents" /\ Written!Next /\ Still("documents")
  \/ part = "plan" /\ Plan!Next /\ Still("plan")
  \/ part = "projects" /\ Admin!Next /\ Still("projects")
  \/ part = "code" /\ Code!Next /\ Still("code")
  \/ part = "agents" /\ Agent!Next /\ Still("agents")
  \/ part = "knowledge" /\ Base!Next /\ Still("knowledge")
  \/ part = "memory" /\ Memory!Next /\ Still("memory")
  \/ part = "prompts" /\ Studio!Next /\ Still("prompts")
  \/ part = "lessons" /\ Learning!Next /\ Still("lessons")
  \/ part = "remote" /\ Remote!Next /\ Still("remote")
  \/ part = "records" /\ Records!Next /\ Still("records")
  \/ part = "costs" /\ Ledger!Next /\ Still("costs")

vars == <<part, writtenVars, planVars, adminVars, studioVars, remoteVars,
  codeVars, agentVars, baseVars, memoryVars, learningVars, recordVars, ledgerVars>>
Spec == Init /\ [][Next]_vars

(***************************************************************************)
(* What is checked, each part's property stated and explained in its own   *)
(* module.                                                                 *)
(***************************************************************************)
\* The types of the part that moves.
TypeOK ==
  /\ part = "documents" => Written!TypeOK
  /\ part = "plan" => Plan!TypeOK
  /\ part = "projects" => Admin!TypeOK
  /\ part = "code" => Code!TypeOK
  /\ part = "agents" => Agent!TypeOK
  /\ part = "knowledge" => Base!TypeOK
  /\ part = "memory" => Memory!TypeOK
  /\ part = "prompts" => Studio!TypeOK
  /\ part = "lessons" => Learning!TypeOK
  /\ part = "remote" => Remote!TypeOK
  /\ part = "records" => Records!TypeOK
  /\ part = "costs" => Ledger!TypeOK

\* One finalized version per document and no unexplained blank draft
\* (finalize_artifact, generate_prd); one answer per iteration of a prompt
\* (refine_prompt): overlapping generations and refinements keep versions whole.
VersionsInOrder == Written!DocumentsInOrder /\ Studio!OneAnswerPerIteration

\* A cycle of dependencies among the tasks of a plan runs through rows whose
\* check is due or failed to take place (generate_tasks_for_feature, has_task_cycle).
PlanIsBuildable == part = "plan" => Plan!PlanIsBuildable

\* No two projects get the same ports, nor one repository that no user typed
\* the address of (create_project, update_project).
ProjectsAreApart == part = "projects" => Admin!ProjectsAreApart

\* The push holds what the reviewers and tests of the last cycle saw on disk,
\* of every cycle's files (CodeWriter.materialize_files, commit_to_github).
PushedIsReviewed == Code!PushedIsReviewed

\* Every turn of an agent's call goes to the model the call resolved, whatever
\* is assigned or reloaded meanwhile (process_task, _call_anthropic).
ModelStaysWithCall == part = "agents" => Agent!ModelStaysWithCall

\* What a search or a read answers is of the namespace it carried and was approved by somebody
\* (Retriever.retrieve, KnowledgeGetTool).
HandedIsVetted == Base!HandedIsVetted

\* A document never has two live pages; finalizing again makes no second issue,
\* unless two pushes overlapped or an answer was lost (IntegrationPublisher).
OneObjectEach == part = "remote" => Remote!OneObjectEach

\* What a run leaves behind stays: folded episodes in a summary, queued lessons
\* in a file, emitted stories in rows, spend on its project's account
\* (consolidate_namespace, approve_lesson, _namespace_story_id,
\* delete_orphan_cost).
RecordsAreKept ==
  Memory!NothingIsLost /\ Learning!NoLessonLost /\ Records!EmittedIsStored /\ Ledger!SpendIsKept

\* What a user has finalized, started or deleted is not undone by a call that
\* read an older row: finalized documents, started tasks, deleted projects
\* (patch_prd, generate_build_plan, update_project).
WorkIsKept == Written!FinalizedIsKept /\ Plan!StartedWorkIsKept /\ Admin!DeletedStays
================================================================================
