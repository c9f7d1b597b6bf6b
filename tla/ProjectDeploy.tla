---------------------------- MODULE ProjectDeploy ----------------------------
(***************************************************************************)
(* Deploy and Stop of one project, the judge that recommends an action for *)
(* the commits since the last deploy, and the supervisor on the host that  *)
(* runs docker compose.                                                    *)
(*                                                                         *)
(* Routes and supervisor meet only in the project's row.  A route refuses  *)
(* by the status it read and writes later; the supervisor reads the        *)
(* pending rows, works them off one after the other, and writes what came  *)
(* out whatever the status is by then.                                     *)
(***************************************************************************)
EXTENDS Naturals

CONSTANTS
  MaxCommits,   \* bound on the commits ever made for the project
  MaxDecisions, \* bound on the judge's decisions, which number their ids
  MaxCalls,     \* bound on the calls of the routes ever made
  MaxKills,     \* bound on the supervisor's restarts
  JudgeLimit,   \* 50 in the code: longer drift is not put to the judge
  Users,        \* concurrent calls of the routes
  Null

Decisions == 1..MaxDecisions
Docker == {"restart", "rebuild"}
Actions == Docker \cup {"skip", "hold"}
Active == {"deploying", "pending_deploy"}
DeployStatus == Active \cup {"stopped", "running", "pending_stop", "stopping", "failed"}

VARIABLES
  deploy,     \* the project's row: status, pending action and baseline
  commits,    \* commits completed so far, which also serve as the clock
  decision,   \* the deploy_decisions rows
  judge,      \* where each call of the routes is
  compose,    \* whether the project's docker-compose.yml is on the disk
  supervisor, \* the supervisor: its step, and the action of the row it read
  kills,
  asked       \* calls made so far

deployVars == <<deploy, commits, decision, judge, compose, supervisor, kills, asked>>

NoCall == [at |-> "idle", id |-> Null, to |-> 0, choice |-> Null]
NoDecision == [status |-> "none", action |-> "hold", to |-> 0]

TypeOK ==
  /\ deploy \in [status: DeployStatus, action: Docker \cup {Null}, since: 0..MaxCommits]
  /\ commits \in 0..MaxCommits
  /\ decision \in [Decisions -> [status: {"none", "pending", "applied", "overridden", "superseded"},
                                 action: Actions, to: 0..MaxCommits]]
  /\ judge \in [Users -> [at: {"idle", "supersede", "ask", "apply", "override", "write"},
                          id: Decisions \cup {Null}, to: 0..MaxCommits,
                          choice: Actions \cup {"deploy", "stop", "refused", Null}]]
  /\ compose \in BOOLEAN /\ kills \in 0..MaxKills /\ asked \in 0..MaxCalls
  /\ supervisor \in [at: {"poll", "deploy", "up", "stop", "down"}, action: Docker \cup {Null}]

Init ==
  /\ deploy = [status |-> "stopped", action |-> Null, since |-> 0]
  /\ commits = 0 /\ decision = [d \in Decisions |-> NoDecision]
  /\ judge = [u \in Users |-> NoCall]
  /\ compose \in BOOLEAN /\ kills = 0 /\ asked = 0
  /\ supervisor = [at |-> "poll", action |-> Null]

Commit ==
  /\ commits < MaxCommits /\ commits' = commits + 1
  /\ UNCHANGED <<deploy, decision, judge, compose, supervisor, kills, asked>>

Starts(u) == judge[u].at = "idle" /\ asked < MaxCalls /\ asked' = asked + 1
Returns(u) == judge' = [judge EXCEPT ![u] = NoCall]
Writes(u) == judge' = [judge EXCEPT ![u] = [NoCall EXCEPT !.at = "write", !.choice = judge[u].choice]]

(***************************************************************************)
(* The judge                                                               *)
(***************************************************************************)
\* compute_drift: what was completed after the last deploy was started.
Drift == commits - deploy.since

\* get_latest_pending_decision; ids grow with created_at.
IsLatest(d) == /\ decision[d].status = "pending"
               /\ \A e \in Decisions : decision[e].status = "pending" => e <= d

\* Without credentials, or when the answer cannot be read, the action is rebuild.
JudgeMay(to) == IF to - deploy.since > JudgeLimit THEN {"rebuild"} ELSE Actions

\* A pending decision that reaches the newest commit is returned as it is.
GetJudge(u) ==
  /\ Starts(u) /\ Drift > 0
  /\ \A d \in Decisions : IsLatest(d) => decision[d].to # commits
  /\ judge' = [judge EXCEPT ![u] = [NoCall EXCEPT !.at = "supersede", !.to = commits]]
  /\ UNCHANGED <<deploy, commits, decision, compose, supervisor, kills>>

\* Mutant: every decision of the project is superseded, not the pending ones.
SupersedeAll(u) ==
  /\ judge[u].at = "supersede"
  /\ decision' = [d \in Decisions |-> IF decision[d].status = "none" THEN NoDecision
                                      ELSE [decision[d] EXCEPT !.status = "superseded"]]
  /\ judge' = [judge EXCEPT ![u].at = "ask"]
  /\ UNCHANGED <<deploy, commits, compose, supervisor, kills, asked>>

Supersede(u) ==
  /\ judge[u].at = "supersede"
  /\ decision' = [d \in Decisions |-> IF decision[d].status = "pending"
                                      THEN [decision[d] EXCEPT !.status = "superseded"] ELSE decision[d]]
  /\ judge' = [judge EXCEPT ![u].at = "ask"]
  /\ UNCHANGED <<deploy, commits, compose, supervisor, kills, asked>>

Decide(u) ==
  /\ judge[u].at = "ask"
  /\ \E d \in Decisions, a \in JudgeMay(judge[u].to) :
       /\ \A e \in Decisions : e < d <=> decision[e].status # "none"
       /\ decision' = [decision EXCEPT ![d] = [status |-> "pending", action |-> a, to |-> judge[u].to]]
  /\ Returns(u)
  /\ UNCHANGED <<deploy, commits, compose, supervisor, kills, asked>>

\* A hold cannot be applied; everything else is checked before it is marked.
Apply(u) ==
  /\ Starts(u)
  /\ \E d \in Decisions :
       /\ IsLatest(d) /\ decision[d].action # "hold"
       /\ decision[d].action \in Docker => compose /\ deploy.status \notin Active
       /\ judge' = [judge EXCEPT ![u] = [at |-> "apply", id |-> d, to |-> 0,
                                         choice |-> decision[d].action]]
  /\ UNCHANGED <<deploy, commits, decision, compose, supervisor, kills>>

\* The user's own choice is marked first and checked afterwards.
Override(u) ==
  /\ Starts(u)
  /\ \E d \in Decisions, a \in Actions :
       /\ IsLatest(d)
       /\ judge' = [judge EXCEPT ![u] =
                     [at |-> "override", id |-> d, to |-> 0,
                      choice |-> IF a \in Docker /\ (~compose \/ deploy.status \in Active)
                                 THEN "refused" ELSE a]]
  /\ UNCHANGED <<deploy, commits, decision, compose, supervisor, kills>>

\* Mutant: without AND status = 'pending'.
MarkAnyStatus(u, s) ==
  decision' = [decision EXCEPT ![judge[u].id].status = s]

\* An UPDATE that finds nothing goes unnoticed.
MarkDecision(u, s) ==
  decision' = [decision EXCEPT ![judge[u].id].status = IF @ = "pending" THEN s ELSE @]

MarkApplied(u) ==
  /\ judge[u].at = "apply"
  /\ MarkDecision(u, "applied")
  /\ Writes(u)
  /\ UNCHANGED <<deploy, commits, compose, supervisor, kills, asked>>

MarkOverridden(u) ==
  /\ judge[u].at = "override"
  /\ MarkDecision(u, "overridden")
  /\ IF judge[u].choice \in {"hold", "refused"} THEN Returns(u) ELSE Writes(u)
  /\ UNCHANGED <<deploy, commits, compose, supervisor, kills, asked>>

(***************************************************************************)
(* Deploy and Stop                                                         *)
(***************************************************************************)
Deploy(u) ==
  /\ Starts(u) /\ compose /\ deploy.status \notin Active \cup {"running"}
  /\ judge' = [judge EXCEPT ![u] = [NoCall EXCEPT !.at = "write", !.choice = "deploy"]]
  /\ UNCHANGED <<deploy, commits, decision, compose, supervisor, kills>>

Stop(u) ==
  /\ Starts(u) /\ deploy.status \notin {"stopped", "stopping", "pending_stop"}
  /\ judge' = [judge EXCEPT ![u] = [NoCall EXCEPT !.at = "write", !.choice = "stop"]]
  /\ UNCHANGED <<deploy, commits, decision, compose, supervisor, kills>>

\* update_project_deploy writes the fields it is given and leaves the others: a
\* plain Deploy leaves the pending action alone, Skip moves the baseline only.
WriteDeploy(u) ==
  LET c == judge[u]
      judged == [deploy EXCEPT !.since = commits] IN
  /\ c.at = "write"
  /\ deploy' = CASE c.choice = "stop"   -> [deploy EXCEPT !.status = "pending_stop"]
                 [] c.choice = "deploy" -> [deploy EXCEPT !.status = "pending_deploy", !.since = commits]
                 [] c.choice = "skip"   -> judged
                 [] OTHER -> [judged EXCEPT !.status = "pending_deploy", !.action = c.choice]
  /\ Returns(u)
  /\ UNCHANGED <<commits, decision, compose, supervisor, kills, asked>>

(***************************************************************************)
(* The supervisor                                                          *)
(***************************************************************************)
Sets(status, clears) ==
  deploy' = [deploy EXCEPT !.status = status, !.action = IF clears THEN Null ELSE @]

\* Mutant: the query asks for pending deploys only.
PollDeploysOnly ==
  /\ supervisor.at = "poll" /\ deploy.status = "pending_deploy"
  /\ supervisor' = [at |-> "deploy", action |-> deploy.action]
  /\ UNCHANGED <<deploy, commits, decision, judge, compose, kills, asked>>

\* The rows read are handled one by one: this one may wait behind others.
Poll ==
  /\ supervisor.at = "poll" /\ deploy.status \in {"pending_deploy", "pending_stop"}
  /\ supervisor' = [at |-> IF deploy.status = "pending_deploy" THEN "deploy" ELSE "stop",
                    action |-> deploy.action]
  /\ UNCHANGED <<deploy, commits, decision, judge, compose, kills, asked>>

StartDeploy ==
  /\ supervisor.at = "deploy"
  /\ IF compose
     THEN Sets("deploying", FALSE) /\ supervisor' = [supervisor EXCEPT !.at = "up"]
     ELSE Sets("failed", TRUE) /\ supervisor' = [at |-> "poll", action |-> Null]
  /\ UNCHANGED <<commits, decision, judge, compose, kills, asked>>

\* Exit code, timeout and exception alike end in failed.
EndDeploy ==
  /\ supervisor.at = "up"
  /\ \E s \in {"running", "failed"} : Sets(s, TRUE)
  /\ supervisor' = [at |-> "poll", action |-> Null]
  /\ UNCHANGED <<commits, decision, judge, compose, kills, asked>>

StartStop ==
  /\ supervisor.at = "stop"
  /\ IF compose
     THEN Sets("stopping", FALSE) /\ supervisor' = [supervisor EXCEPT !.at = "down"]
     ELSE Sets("stopped", FALSE) /\ supervisor' = [at |-> "poll", action |-> Null]
  /\ UNCHANGED <<commits, decision, judge, compose, kills, asked>>

\* Unlike a deploy, a stop leaves the pending action where it is.
EndStop ==
  /\ supervisor.at = "down"
  /\ \E s \in {"stopped", "failed"} : Sets(s, FALSE)
  /\ supervisor' = [at |-> "poll", action |-> Null]
  /\ UNCHANGED <<commits, decision, judge, compose, kills, asked>>

\* No sweep at start-up looks at projects.
Kill ==
  /\ supervisor.at # "poll" /\ kills < MaxKills
  /\ kills' = kills + 1
  /\ supervisor' = [at |-> "poll", action |-> Null]
  /\ UNCHANGED <<deploy, commits, decision, judge, compose, asked>>

Supervises == Poll \/ StartDeploy \/ EndDeploy \/ StartStop \/ EndStop

Next ==
  \/ Commit \/ Kill \/ Supervises
  \/ \E u \in Users :
       \/ GetJudge(u) \/ Supersede(u) \/ Decide(u) \/ Apply(u) \/ Override(u)
       \/ MarkApplied(u) \/ MarkOverridden(u) \/ Deploy(u) \/ Stop(u) \/ WriteDeploy(u)

Spec == Init /\ [][Next]_deployVars

\* The supervisor's loop goes on as long as its process runs.
FairSpec == Spec /\ WF_deployVars(Supervises)

(***************************************************************************)
(* Properties                                                              *)
(***************************************************************************)
\* What became of a recommendation is on record for good, although calls that
\* apply, override and supersede it overlap: a settled row is never rewritten,
\* and up to which commit it was judged does not change even while it is pending.
\* It says nothing of the commits it is applied to: see CommitsAreJudged.
DecisionsAreFinal ==
  [][\A d \in Decisions : decision[d].status # "none" =>
       /\ decision[d].status # "pending" => decision'[d] = decision[d]
       /\ decision'[d].to = decision[d].to]_deployVars

\* Between two deploys a commit drops out of the drift only if a decision the
\* judge was asked for up to that commit was settled: "Special-case ``skip``:
\* advance ``last_deploy_commit_sha`` to the decision's to_commit_sha"
\* (projects.py:1021).  The code does not keep it: skip moves the baseline to the
\* time of the click.  No run checks it.
CommitsAreJudged ==
  [][deploy'.since # deploy.since /\ deploy'.status # "pending_deploy" =>
       \E d \in Decisions : decision[d].status \notin {"none", "pending"}
                            /\ decision[d].to >= deploy'.since]_deployVars

\* A requested deploy or stop does not stay pending, however calls and the
\* supervisor's restarts interleave.
PendingEnds ==
  deploy.status \in {"pending_deploy", "pending_stop"}
    ~> deploy.status \notin {"pending_deploy", "pending_stop"}

=============================================================================
