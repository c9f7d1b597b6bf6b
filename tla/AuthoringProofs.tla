--------------------------- MODULE AuthoringProofs ---------------------------
(***************************************************************************)
(* What holds of the authoring side as a whole, for every number of calls, *)
(* rows, files and objects: each part's invariant is kept by every step, for *)
(* the steps of other parts leave its variables alone.                     *)
(***************************************************************************)
EXTENDS Authoring, PlanningProofs, MakingProofs

\* A step moves one part, and no step moves a part but by a step of its own.
LEMMA OnePartMoves ==
  ASSUME [Next]_vars
  PROVE  /\ UNCHANGED writtenVars \/ (part = "documents" /\ Written!Next)
         /\ UNCHANGED planVars \/ (part = "plan" /\ Plan!Next)
         /\ UNCHANGED adminVars \/ (part = "projects" /\ Admin!Next)
         /\ UNCHANGED codeVars \/ (part = "code" /\ Code!Next)
         /\ UNCHANGED agentVars \/ (part = "agents" /\ Agent!Next)
         /\ UNCHANGED baseVars \/ (part = "knowledge" /\ Base!Next)
         /\ UNCHANGED memoryVars \/ (part = "memory" /\ Memory!Next)
         /\ UNCHANGED studioVars \/ (part = "prompts" /\ Studio!Next)
         /\ UNCHANGED learningVars \/ (part = "lessons" /\ Learning!Next)
         /\ UNCHANGED remoteVars \/ (part = "remote" /\ Remote!Next)
         /\ UNCHANGED recordVars \/ (part = "records" /\ Records!Next)
         /\ UNCHANGED ledgerVars \/ (part = "costs" /\ Ledger!Next)
         /\ UNCHANGED part
<1>1. CASE UNCHANGED vars
  BY <1>1 DEF vars
<1>2. CASE part = "documents" /\ Written!Next /\ Still("documents")
  BY <1>2 DEF Still
<1>3. CASE part = "plan" /\ Plan!Next /\ Still("plan")
  BY <1>3 DEF Still
<1>4. CASE part = "projects" /\ Admin!Next /\ Still("projects")
  BY <1>4 DEF Still
<1>5. CASE part = "code" /\ Code!Next /\ Still("code")
  BY <1>5 DEF Still
<1>6. CASE part = "agents" /\ Agent!Next /\ Still("agents")
  BY <1>6 DEF Still
<1>7. CASE part = "knowledge" /\ Base!Next /\ Still("knowledge")
  BY <1>7 DEF Still
<1>8. CASE part = "memory" /\ Memory!Next /\ Still("memory")
  BY <1>8 DEF Still
<1>9. CASE part = "prompts" /\ Studio!Next /\ Still("prompts")
  BY <1>9 DEF Still
<1>10. CASE part = "lessons" /\ Learning!Next /\ Still("lessons")
  BY <1>10 DEF Still
<1>11. CASE part = "remote" /\ Remote!Next /\ Still("remote")
  BY <1>11 DEF Still
<1>12. CASE part = "records" /\ Records!Next /\ Still("records")
  BY <1>12 DEF Still
<1>13. CASE part = "costs" /\ Ledger!Next /\ Still("costs")
  BY <1>13 DEF Still
<1> QED
  BY <1>1, <1>2, <1>3, <1>4, <1>5, <1>6, <1>7, <1>8, <1>9, <1>10, <1>11, <1>12, <1>13 DEF Next

\* What a step is for each part.
LEMMA PartSteps ==
  ASSUME [Next]_vars
  PROVE  /\ [Written!Next]_Written!docVars
         /\ [Plan!Next]_Plan!planVars
         /\ [Admin!Next]_Admin!adminVars
         /\ [Code!Next]_Code!writerVars
         /\ [Agent!Next]_Agent!agentVars
         /\ [Base!Next]_Base!knowledgeVars
         /\ [Memory!Next]_Memory!memoryVars
         /\ [Studio!Next]_Studio!studioVars
         /\ [Learning!Next]_Learning!lessonVars
         /\ [Remote!Next]_Remote!integrationVars
         /\ [Records!Next]_Records!recordVars
         /\ [Ledger!Next]_Ledger!ledgerVars
<1>1. [Written!Next]_Written!docVars
  BY OnePartMoves DEF writtenVars, Written!docVars
<1>2. [Plan!Next]_Plan!planVars
  BY OnePartMoves DEF planVars, Plan!planVars
<1>3. [Admin!Next]_Admin!adminVars
  BY OnePartMoves DEF adminVars, Admin!adminVars
<1>4. [Code!Next]_Code!writerVars
  BY OnePartMoves DEF codeVars, Code!writerVars
<1>5. [Agent!Next]_Agent!agentVars
  BY OnePartMoves DEF agentVars, Agent!agentVars
<1>6. [Base!Next]_Base!knowledgeVars
  BY OnePartMoves DEF baseVars, Base!knowledgeVars
<1>7. [Memory!Next]_Memory!memoryVars
  BY OnePartMoves DEF memoryVars, Memory!memoryVars
<1>8. [Studio!Next]_Studio!studioVars
  BY OnePartMoves DEF studioVars, Studio!studioVars
<1>9. [Learning!Next]_Learning!lessonVars
  BY OnePartMoves DEF learningVars, Learning!lessonVars
<1>10. [Remote!Next]_Remote!integrationVars
  BY OnePartMoves DEF remoteVars, Remote!integrationVars
<1>11. [Records!Next]_Records!recordVars
  BY OnePartMoves DEF recordVars, Records!recordVars
<1>12. [Ledger!Next]_Ledger!ledgerVars
  BY OnePartMoves DEF ledgerVars, Ledger!ledgerVars
<1> QED
  BY <1>1, <1>2, <1>3, <1>4, <1>5, <1>6, <1>7, <1>8, <1>9, <1>10, <1>11, <1>12

\* The assumptions on the constants, as the parts' lemmas want them.
LEMMA Premises == /\ NobodyIsNone /\ Distinct /\ MaxEdits \in Nat /\ CodeBounds /\ StoryIsNoNull /\ CallIsNoNull
BY NobodyAssumption, NullAssumption, SpacesAssumption, BoundsAssumption
   DEF NobodyIsNone, Distinct, CodeBounds, StoryIsNoNull, CallIsNoNull

\* However many generations and refinements of a document overlap, at most one
\* version is finalized, a blank draft is explained, and an iteration of a prompt
\* has one answer (finalize_artifact, generate_prd, refine_prompt).
THEOREM VersionsInOrderHolds ==
  Spec => []VersionsInOrder
<1>1. Init => (DocInv /\ StudioInv)
  BY DocInit, StudioInit DEF Init
<1>2. (DocInv /\ StudioInv) /\ [Next]_vars => (DocInv /\ StudioInv)'
  BY PartSteps, DocNext, StudioNext
<1>3. (DocInv /\ StudioInv) => VersionsInOrder
  BY StudioFacts DEF VersionsInOrder, DocInv
<1> QED
  BY <1>1, <1>2, <1>3, PTL DEF Spec

\* The dependencies of a plan's tasks close no cycle, however many plans are
\* generated at once (generate_tasks, has_task_cycle).
THEOREM PlanIsBuildableHolds ==
  Spec => []PlanIsBuildable
<1>1. Init => PlanInv
  BY PlanInit DEF Init
<1>2. PlanInv /\ [Next]_vars => PlanInv'
  BY PartSteps, PlanNext
<1>3. PlanInv => PlanIsBuildable
  BY PlanHolds DEF PlanIsBuildable
<1> QED
  BY <1>1, <1>2, <1>3, PTL DEF Spec

\* No two projects get one port or one repository, whatever calls overlap
\* (create_project).
THEOREM ProjectsAreApartHolds ==
  Spec => []ProjectsAreApart
<1>1. Init => ProjectsInv
  BY Premises, ProjectsInit DEF Init
<1>2. ProjectsInv /\ [Next]_vars => ProjectsInv'
  BY PartSteps, Premises, ProjectsNext
<1>3. ProjectsInv => ProjectsAreApart
  BY ProjectsHold DEF ProjectsAreApart
<1> QED
  BY <1>1, <1>2, <1>3, PTL DEF Spec

\* Every turn of a call goes to the model the call resolved, whatever is assigned
\* or reloaded meanwhile (process_task, _call_anthropic).
THEOREM ModelStaysWithCallHolds ==
  Spec => []ModelStaysWithCall
<1>1. Init => AgentInv
  BY AgentInit DEF Init
<1>2. AgentInv /\ [Next]_vars => AgentInv'
  BY PartSteps, AgentNext
<1>3. AgentInv => ModelStaysWithCall
  BY AgentFacts DEF ModelStaysWithCall
<1> QED
  BY <1>1, <1>2, <1>3, PTL DEF Spec

\* After any number of reworks, the push is what the cycles reported and what the
\* reviewers saw on the disk (materialize_files, commit_to_github).
THEOREM PushedIsReviewedHolds ==
  Spec => []PushedIsReviewed
<1>1. Init => CodeInv
  BY Premises, CodeInit DEF Init
<1>2. CodeInv /\ [Next]_vars => CodeInv'
  BY PartSteps, Premises, CodeNext
<1>3. CodeInv => PushedIsReviewed
  BY CodeFacts DEF PushedIsReviewed
<1> QED
  BY <1>1, <1>2, <1>3, PTL DEF Spec

\* What an agent is handed is of its namespace and was approved, whatever is
\* edited, revoked or cached meanwhile (Retriever.retrieve, KnowledgeGetTool).
THEOREM HandedIsVettedHolds ==
  Spec => []HandedIsVetted
<1>1. Init => BaseInv
  BY Premises, BaseInit DEF Init
<1>2. BaseInv /\ [Next]_vars => BaseInv'
  BY PartSteps, Premises, BaseNext
<1>3. BaseInv => HandedIsVetted
  BY BaseFacts DEF HandedIsVetted
<1> QED
  BY <1>1, <1>2, <1>3, PTL DEF Spec

\* Finalizing again makes no second issue or page, unless two pushes overlapped or
\* an answer was lost (IntegrationPublisher).
THEOREM OneObjectEachHolds ==
  Spec => []OneObjectEach
<1>1. Init => RemoteInv
  BY RemoteInit DEF Init
<1>2. RemoteInv /\ [Next]_vars => RemoteInv'
  BY PartSteps, RemoteNext
<1>3. RemoteInv => OneObjectEach
  BY RemoteHolds DEF OneObjectEach
<1> QED
  BY <1>1, <1>2, <1>3, PTL DEF Spec

\* What a run leaves behind stays.  The queue of lessons is a file that is read,
\* changed and written whole: it keeps them when one process does so, and the code
\* has the one orchestrator do it (_run_retrospective, approve_lesson).
THEOREM RecordsAreKeptHolds ==
  ASSUME NEW w, OneProcess(w) PROVE Spec => []RecordsAreKept
<1> DEFINE Inv == MemoryInv /\ LessonsKept(w) /\ RecordInv /\ LedgerInv
<1>1. Init => Inv
  BY MemoryInit, KeptInit, RecordInit, LedgerInit DEF Init
<1>2. Inv /\ [Next]_vars => Inv'
  BY PartSteps, Premises, MemoryNext, KeptNext, RecordNext, LedgerNext
<1>3. Inv => RecordsAreKept
  BY MemoryFacts, LessonsFacts, RecordFacts, LedgerFacts DEF RecordsAreKept
<1> QED
  BY <1>1, <1>2, <1>3, PTL DEF Spec

\* A finalized document, a started task and a deleted project survive every call
\* that read an older row (patch_prd, generate_build_plan, update_project).
THEOREM WorkIsKeptHolds == Spec => WorkIsKept
<1> DEFINE Inv == DocInv /\ PlanInv /\ ProjectsInv
<1>1. Init => Inv
  BY Premises, DocInit, PlanInit, ProjectsInit DEF Init
<1>2. Inv /\ [Next]_vars => Inv'
  BY PartSteps, Premises, DocNext, PlanNext, ProjectsNext
<1>3. Inv /\ [Next]_vars =>
        [\A d \in Written!Artifacts : row[d].status = "finalized" =>
           \/ row'[d].status # "absent" /\ row'[d].text = row[d].text
           \/ \E c \in Callers : docCall[c].id = d /\ docCall[c].at \in {"ask", "save"}
           \/ {e \in Written!Rows(row[d].kind) : row'[e].status # "absent"} = {}]_Written!docVars
  BY PartSteps, FinalizedStep
<1>4. Inv /\ [Next]_vars =>
        [\A t \in Plan!Tasks :
           task[t].status = "finalized" /\ ~Plan!Unstarted(t) /\ task'[t].status = "absent" =>
             \E c \in Planners : \/ gen[c].at \in {"purge", "check"} /\ t \in gen[c].doomed
                                 \/ gen[c].at = "delete" /\ gen[c].of = t]_Plan!planVars
  BY PartSteps, StartedStep DEF Started
<1>5. Inv /\ [Next]_vars =>
        [\A p \in Admin!Projects : project[p].status # "unused" =>
           /\ project'[p].port = project[p].port
           /\ project[p].status = "deleted" => project'[p].status = "deleted"]_Admin!adminVars
  BY PartSteps, DeletedStep DEF RowStays
<1> QED
  BY <1>1, <1>2, <1>3, <1>4, <1>5, PTL
     DEF Spec, WorkIsKept, Written!FinalizedIsKept, Plan!StartedWorkIsKept, Admin!DeletedStays

\* The types of every part, whatever the sizes of its constants.
THEOREM TypesHold == Spec => []TypeOK
<1> DEFINE PlanningHolds == DocInv /\ PlanInv /\ ProjectsTyped /\ StudioInv /\ RemoteInv
<1> DEFINE MakingHolds == CodeInv /\ AgentInv /\ BaseInv /\ MemoryInv /\ LessonsTyped /\ RecordInv /\ LedgerInv
<1>1. Init => PlanningHolds /\ MakingHolds
  BY Premises, DocInit, PlanInit, ProjectsTypedInit, StudioInit, RemoteInit,
     CodeInit, AgentInit, BaseInit, MemoryInit, LessonsInit, RecordInit, LedgerInit DEF Init
<1>2. PlanningHolds /\ [Next]_vars => PlanningHolds'
  BY PartSteps, Premises, DocNext, PlanNext, ProjectsTypedNext, StudioNext, RemoteNext
<1>3. MakingHolds /\ [Next]_vars => MakingHolds'
  BY PartSteps, Premises, CodeNext, AgentNext, BaseNext, MemoryNext, LessonsNext, RecordNext, LedgerNext
<1>4. PlanningHolds /\ MakingHolds => TypeOK
  BY PlanHolds, StudioFacts, RemoteHolds, CodeFacts, AgentFacts, BaseFacts, MemoryFacts, LessonsFacts, RecordFacts,
     LedgerFacts DEF TypeOK, DocInv, ProjectsTyped
<1> QED
  BY <1>1, <1>2, <1>3, <1>4, PTL DEF Spec
================================================================================
