--------------------------- MODULE WorkflowRunner ---------------------------
(***************************************************************************)
(* One run of a workflow: the stages of config/workflows.yaml in execution *)
(* order, the agents of a stage, the gates after development, security,    *)
(* testing and code_commit, the jumps back for rework, and the status the  *)
(* orchestrator gives the request when the run is over.                    *)
(*                                                                         *)
(* A report is what the gate's parser makes of an agent's text: "approve", *)
(* "object", or "silent" (no text, or text without a clear signal, which   *)
(* every parser lets pass).  An agent that fails leaves no report: what is *)
(* in the artifacts from an earlier cycle stays there.                     *)
(***************************************************************************)
EXTENDS Naturals, Sequences, FiniteSets

CONSTANTS
  Order,      \* the stages in execution order
  Crew,       \* the agents of each stage
  Coders,     \* backend_specialist and frontend_specialist
  Vetters,    \* the agents whose reports the combined gate reads
  Guard,      \* security_specialist
  Parallel,   \* the stages whose agents run in parallel groups
  Deployers,  \* the stages devops_specialist deploys in
  Skipped,    \* stages skipped: reused documents, deployment of project work
  MaxRework   \* MAX_REWORK_CYCLES

Stages == {Order[n] : n \in DOMAIN Order}
Agents == UNION {Crew[st] : st \in Stages}
Reporters == Vetters \cup {Guard}

ASSUME RunnerAssumption ==
  /\ Order \in Seq(STRING)
  /\ \A m, n \in DOMAIN Order : Order[m] = Order[n] => m = n
  /\ Reporters \subseteq Agents
  /\ Coders \cap Reporters = {}
  /\ MaxRework \in Nat

\* The shape the code-writing workflows of config/workflows.yaml share: one
\* stage in which code is written, the commit after every stage that can send
\* it back, the deployment after the commit.
Returning == {"development", "testing", "security"}

ASSUME OrderAssumption ==
  /\ \A st, sx \in Stages :
       Crew[st] \cap Coders # {} /\ Crew[sx] \cap Coders # {} => st = sx
  /\ \A m, n \in DOMAIN Order :
       /\ Order[m] = "code_commit" /\ Order[n] \in Returning => n < m
       /\ Order[m] \in Deployers /\ Order[n] \in Returning \cup {"code_commit"} => n < m

VARIABLES
  at,        \* index of the current stage
  phase,     \* where the runner is: see Phases
  waiting,   \* agents of the stage that have not answered
  answers,   \* result of the stage, merged into the artifacts when it ends
  artifacts, \* the newest report of each agent a gate reads
  affected,  \* the coders the analyst says are affected
  rework,    \* _rework_count
  escalated, \* escalation_reason is set
  failed,    \* some subtask of the request failed
  built,     \* the build the coders' texts come to, 0 if they wrote none
  disk,      \* the build in materialized_files, 0 if none
  shipped,   \* the build that was committed, 0 if none
  outcome,   \* status of the request
  builds,    \* history: how often the coders were set to work
  said,      \* history: what was reported on the current build
  saw,       \* history: the build on disk when it was
  deployed   \* history: a deployment stage was entered

code == <<built, disk, shipped>>
history == <<builds, said, saw, deployed>>
vars == <<at, phase, waiting, answers, artifacts, affected, rework, escalated,
          failed, built, disk, shipped, outcome, builds, said, saw, deployed>>

Phases == {"next", "agents", "materialize", "gate", "commit", "returned", "raised", "over"}
Reports == {"approve", "object", "silent"}

TypeOK ==
  /\ at \in 1..Len(Order) + 1
  /\ phase \in Phases
  /\ waiting \subseteq Agents
  /\ answers \in [Agents -> Reports \cup {"none"}]
  /\ artifacts \in [Reporters -> Reports \cup {"none"}]
  /\ affected \subseteq Coders
  /\ rework \in 0..MaxRework
  /\ escalated \in BOOLEAN
  /\ failed \in BOOLEAN
  /\ built \in Nat /\ disk \in Nat /\ shipped \in Nat /\ builds \in Nat
  /\ outcome \in {"in_progress", "completed", "failed", "cancelled"}
  /\ said \in [Reporters -> Reports \cup {"none"}]
  /\ saw \in [Reporters -> Nat]
  /\ deployed \in BOOLEAN

NoAnswer == [a \in Agents |-> "none"]
NoReport == [a \in Reporters |-> "none"]

Init ==
  /\ at = 1
  /\ phase = "next"
  /\ waiting = {}
  /\ answers = NoAnswer
  /\ artifacts = NoReport
  /\ affected = Coders
  /\ rework = 0
  /\ escalated = FALSE
  /\ failed = FALSE
  /\ built = 0 /\ disk = 0 /\ shipped = 0
  /\ outcome = "in_progress"
  /\ builds = 0
  /\ said = NoReport
  /\ saw = [a \in Reporters |-> 0]
  /\ deployed = FALSE

Has(st) == st \in Stages
IndexOf(st) == CHOOSE n \in DOMAIN Order : Order[n] = st
Stage == Order[at]
Building == Crew[Stage] \cap Coders # {}

(***************************************************************************)
(* Moving between stages                                                   *)
(***************************************************************************)
Advance ==
  /\ at' = at + 1
  /\ phase' = "next"

JumpTo(st) ==
  /\ at' = IndexOf(st)
  /\ phase' = "next"

\* Mutant: the loop forgets i += 1 when it skips a stage.
SkipStuck ==
  /\ phase = "next" /\ at <= Len(Order) /\ Stage \in Skipped
  /\ UNCHANGED vars

Skip ==
  /\ phase = "next" /\ at <= Len(Order) /\ Stage \in Skipped
  /\ Advance
  /\ UNCHANGED <<waiting, answers, artifacts, affected, rework, escalated,
                 failed, code, outcome, history>>

\* The domain groups of the development stage that are not affected do not
\* run; groups named for a role always do.  Setting the coders to work opens
\* a new build: nothing has been said of it yet.
Called ==
  IF Stage = "development" THEN Crew[Stage] \ (Coders \ affected) ELSE Crew[Stage]

StartStage ==
  /\ phase = "next" /\ at <= Len(Order)
  /\ Stage \notin Skipped \cup {"code_commit"}
  /\ phase' = "agents"
  /\ waiting' = Called
  /\ answers' = NoAnswer
  /\ builds' = IF Building THEN builds + 1 ELSE builds
  /\ said' = IF Building THEN NoReport ELSE said
  /\ deployed' = (deployed \/ Stage \in Deployers)
  /\ UNCHANGED <<at, artifacts, affected, rework, escalated, failed, code, outcome, saw>>

StartCommit ==
  /\ phase = "next" /\ at <= Len(Order)
  /\ Stage = "code_commit" /\ Stage \notin Skipped
  /\ phase' = "commit"
  /\ UNCHANGED <<at, waiting, answers, artifacts, affected, rework, escalated,
                 failed, code, outcome, history>>

Return ==
  /\ phase = "next" /\ at > Len(Order)
  /\ phase' = "returned"
  /\ UNCHANGED <<at, waiting, answers, artifacts, affected, rework, escalated,
                 failed, code, outcome, history>>

(***************************************************************************)
(* The agents of a stage                                                   *)
(***************************************************************************)
\* What the texts of all cycles come to when they are written one after the
\* other: whole files bring the new build; an edit made on disk does too,
\* unless an earlier text has the file whole and is written over it again.
Survives == IF built = 0 THEN {builds} ELSE {built, builds}

\* execute_agent returned.  A coder's text is in its subtask row at once; the
\* report reaches the artifacts when the whole stage is done.
Answer(a, r) ==
  /\ phase = "agents" /\ a \in waiting
  /\ waiting' = waiting \ {a}
  /\ answers' = [answers EXCEPT ![a] = r]
  /\ IF a \in Reporters
     THEN said' = [said EXCEPT ![a] = r] /\ saw' = [saw EXCEPT ![a] = disk]
     ELSE r # "object" /\ UNCHANGED <<said, saw>>
  /\ IF a \in Coders /\ r # "silent" THEN built' \in Survives ELSE UNCHANGED built
  /\ UNCHANGED <<at, phase, artifacts, affected, rework, escalated, failed,
                 disk, shipped, outcome, builds, deployed>>

\* execute_agent swallowed an exception: a failed subtask, no report.
Fail(a) ==
  /\ phase = "agents" /\ a \in waiting
  /\ waiting' = waiting \ {a}
  /\ failed' = TRUE
  /\ UNCHANGED <<at, phase, answers, artifacts, affected, rework, escalated,
                 code, outcome, history>>

Merged == [a \in Reporters |-> IF answers[a] = "none" THEN artifacts[a] ELSE answers[a]]

\* Which coders the artifacts name after the stage: any agent of a sequential
\* stage may write an "Affected Components" line.
Named == {affected} \cup
  IF Stage \notin Parallel /\ \E a \in Crew[Stage] : answers[a] \in Reports \ {"silent"}
  THEN SUBSET Coders \ {{}} ELSE {}

FinishStage ==
  /\ phase = "agents" /\ waiting = {}
  /\ artifacts' = Merged
  /\ affected' \in Named
  /\ answers' = NoAnswer
  /\ \/ Stage = "development" /\ phase' = "materialize" /\ at' = at
     \/ Stage \in {"security", "testing"} /\ phase' = "gate" /\ at' = at
     \/ Stage \notin Returning /\ Advance
  /\ UNCHANGED <<waiting, rework, escalated, failed, code, outcome, history>>

(***************************************************************************)
(* Rework.  One budget for all gates of a run; when it is used up the run  *)
(* is escalated and returns.  Each gate has its own list of stages to jump *)
(* back to and its own way on when the workflow has none of them.          *)
(***************************************************************************)
\* Mutant: the run goes on after it was escalated.
EscalateOn ==
  /\ escalated' = TRUE
  /\ Advance
  /\ UNCHANGED rework

Escalate ==
  /\ escalated' = TRUE
  /\ phase' = "returned"
  /\ UNCHANGED <<at, rework>>

\* Mutant: the budget allows one cycle more.
SpendOneMore ==
  /\ rework <= MaxRework
  /\ rework' = rework + 1
  /\ UNCHANGED escalated

Spend ==
  /\ rework < MaxRework
  /\ rework' = rework + 1
  /\ UNCHANGED escalated

\* A commit or materialisation that was refused: without a target the error
\* is logged and the next stage runs.
ReworkCommit ==
  \/ Spend /\ IF Has("development") THEN JumpTo("development")
              ELSE IF Has("fix") THEN JumpTo("fix") ELSE Advance
  \/ rework >= MaxRework /\ Escalate

\* The security gate: without a target the security stage runs again.
ReworkSecurity ==
  \/ Spend /\ IF Has("development") THEN JumpTo("development")
              ELSE IF Has("fix") THEN JumpTo("fix") ELSE JumpTo(Stage)
  \/ rework >= MaxRework /\ Escalate

\* The combined gate knows only "development".
ReworkTesting ==
  \/ Spend /\ IF Has("development") THEN JumpTo("development") ELSE Advance
  \/ rework >= MaxRework /\ Escalate

\* Mutant: the gate looks at the tester's report only.
PassesTests(reports) == reports["tester_specialist"] # "object"

\* A missing or unclear report passes.  policy_check adds nothing: the keys
\* it takes the emitted files from are in no agent's result.
PassesVetting(reports) == \A a \in Vetters : reports[a] # "object"

CombinedGate ==
  /\ phase = "gate" /\ Stage = "testing"
  /\ IF PassesVetting(artifacts) THEN Advance /\ UNCHANGED <<rework, escalated>>
     ELSE ReworkTesting
  /\ UNCHANGED <<waiting, answers, artifacts, affected, failed, code, outcome, history>>

SecurityGate ==
  /\ phase = "gate" /\ Stage = "security"
  /\ IF artifacts[Guard] # "object" THEN Advance /\ UNCHANGED <<rework, escalated>>
     ELSE ReworkSecurity
  /\ UNCHANGED <<waiting, answers, artifacts, affected, failed, code, outcome, history>>

(***************************************************************************)
(* The system steps.  Both write the coders' texts of every cycle, taken   *)
(* from the subtask rows; the commit takes what was materialised, if any.  *)
(***************************************************************************)
\* Mutant: files that were materialised once are not written again.
WrittenOnce == IF disk = 0 THEN built ELSE disk

Written == built

Materialize ==
  /\ phase = "materialize"
  /\ \/ built = 0 /\ Advance /\ UNCHANGED <<disk, rework, escalated>>
     \/ built # 0 /\ disk' = Written /\ Advance /\ UNCHANGED <<rework, escalated>>
     \/ built # 0 /\ ReworkCommit /\ UNCHANGED disk
  /\ UNCHANGED <<waiting, answers, artifacts, affected, failed, built, shipped, outcome, history>>

Commit ==
  /\ phase = "commit"
  /\ \/ built = 0 /\ Advance /\ UNCHANGED <<shipped, rework, escalated>>
     \/ /\ built # 0
        /\ shipped' = IF disk # 0 THEN disk ELSE built
        /\ Advance /\ UNCHANGED <<rework, escalated>>
     \/ built # 0 /\ ReworkCommit /\ UNCHANGED shipped
  /\ UNCHANGED <<waiting, answers, artifacts, affected, failed, built, disk, outcome, history>>

\* Anything but a CodeWriteError leaves run() as an exception.
Raise ==
  /\ phase \in {"materialize", "commit"} /\ built # 0
  /\ phase' = "raised"
  /\ UNCHANGED <<at, waiting, answers, artifacts, affected, rework, escalated,
                 failed, code, outcome, history>>

(***************************************************************************)
(* The end of the run in _run_workflow, and cancel() at any point before.  *)
(***************************************************************************)
\* Mutant: failed subtasks are not looked at.
VerdictGatesOnly == IF escalated THEN "failed" ELSE "completed"

Verdict == IF escalated \/ failed THEN "failed" ELSE "completed"

Settle ==
  /\ phase \in {"returned", "raised"}
  /\ phase' = "over"
  /\ outcome' = IF phase = "raised" THEN "failed" ELSE Verdict
  /\ UNCHANGED <<at, waiting, answers, artifacts, affected, rework, escalated,
                 failed, code, history>>

Cancel ==
  /\ phase # "over"
  /\ phase' = "over"
  /\ outcome' = "cancelled"
  /\ UNCHANGED <<at, waiting, answers, artifacts, affected, rework, escalated,
                 failed, code, history>>

(***************************************************************************)
(* Specification                                                           *)
(***************************************************************************)
Run ==
  \/ Skip \/ StartStage \/ StartCommit \/ Return
  \/ \E a \in Agents : (\E r \in Reports : Answer(a, r)) \/ Fail(a)
  \/ FinishStage \/ CombinedGate \/ SecurityGate \/ Materialize \/ Commit
  \/ Raise \/ Settle

Next == Run \/ Cancel

Spec == Init /\ [][Next]_vars

\* The run's coroutine is always scheduled again and every agent call ends,
\* in an answer or in an error.  Nobody has to cancel.
FairSpec == Spec /\ WF_vars(Run)

(***************************************************************************)
(* Properties                                                              *)
(***************************************************************************)
\* A workflow whose gates see everybody: it has the stages the gates follow
\* and none of them is skipped, code is written in development, and who is
\* read at a gate reports between development and that gate.
WellGated ==
  /\ Returning \subseteq Stages \ Skipped
  /\ Crew["development"] \cap Coders # {} /\ Crew["development"] \cap Reporters = {}
  /\ IndexOf("development") < IndexOf("testing")
  /\ IndexOf("development") < IndexOf("security")
  /\ \A st \in Stages :
       /\ Crew[st] \cap Vetters # {} => IndexOf(st) <= IndexOf("testing")
       /\ Guard \in Crew[st] => IndexOf(st) <= IndexOf("security")

\* No build is committed that somebody objected to: whatever the reviewers,
\* the tester or the security specialist reported of the current build, an
\* objection among it has sent the build back (prd.md:1936 "Both must pass
\* before DevOps runs").
NoObjectionShips ==
  shipped # 0 => \A a \in Reporters : said[a] # "object"

\* What is committed is what the coders' texts come to at the end, and what was
\* on disk whenever somebody reported on the current build: materialisation,
\* rework and refused commits never let another state of the code through.  It
\* need not be the newest code: see LatestVersionWins of CodeWriter.
ShipsWhatWasVetted ==
  shipped # 0 =>
    /\ shipped = built
    /\ \A a \in Reporters : said[a] # "none" => saw[a] = shipped

\* An escalated run is over: nothing is committed or deployed and the request
\* fails ("Max cycles reached: FAIL, do NOT run DevOps").
EscalationStops ==
  escalated => shipped = 0 /\ ~deployed /\ outcome # "completed"

\* The coders are set to work once and then once per rework cycle, whichever
\* gates take the cycles.
ReworkIsBounded == builds <= MaxRework + 1

\* A completed request had no failed agent in any cycle, every stage that was
\* not skipped is behind it, and no objection to its last build is left.
CompletedIsClean ==
  outcome = "completed" =>
    /\ ~failed /\ ~escalated /\ at > Len(Order)
    /\ \A a \in Reporters : said[a] # "object"

\* Every run comes to an end, whatever the agents answer.
EveryRunEnds == <>(phase = "over")

\* "DevOps runs only when BOTH review AND test gates pass", a pass being an
\* approval by the reviewer and the tester (architecture.md).
DeploysOnlyApproved ==
  deployed => said["code_reviewer"] = "approve" /\ said["tester_specialist"] = "approve"

=============================================================================
