--------------------------- MODULE PlatformDeploy ---------------------------
(***************************************************************************)
(* A request's commit on its way to a running stack.                       *)
(*                                                                         *)
(* The backend publishes the files with GitHub's tree API and records a    *)
(* deployment; the supervisor on the host mirrors main, works the recorded *)
(* deployments off, and takes one back by a revert when staging fails; the *)
(* devops specialist's tool watches the record to report what became of    *)
(* it.  A commit of a project goes to that project's own repository and is *)
(* only marked skipped here.                                               *)
(***************************************************************************)
EXTENDS Integers, Sequences, SequencesExt

CONSTANTS
  Requests,  \* 1..N, in the order in which their commits are begun
  MaxKills,  \* bound on the supervisor's restarts
  MaxErrors, \* bound on the exceptions its loop swallows
  MaxLosses  \* bound on the calls to GitHub that fail

InFlight == {"syncing", "judging", "building", "staging_deploying", "staging_healthy", "rolling_back"}
\* As the waiting tool has it; skipped is not among them.
Terminal == {"completed", "failed", "rolled_back", "on_hold"}
Steps == InFlight \cup Terminal \cup {"none", "code_committed", "skipped"}

VARIABLES
  origin,   \* main on GitHub: commit r, or -r for its revert
  local,    \* main in the host's clone
  publish,  \* per request: where publishing is, and the head it read
  owned,    \* requests that belong to a project
  deployment, \* deployment_states.current_step
  host,     \* the supervisor: its step, the row at hand, the rows still to do
  report,   \* what the waiting tool returned
  faults,   \* kills, errors and losses so far
  dropped   \* history: rows the supervisor let go of without an end

platformVars == <<origin, local, publish, owned, deployment, host, report, faults, dropped>>

TypeOK ==
  /\ origin \in Seq(Int) /\ local \in Seq(Int)
  /\ publish \in [Requests -> [at: {"ready", "based", "pushed", "done"}, base: Nat]]
  /\ owned \subseteq Requests /\ dropped \subseteq Requests
  /\ deployment \in [Requests -> Steps]
  /\ host \in [at: {"boot", "mirror", "poll", "next", "sync", "judge", "build", "staging", "dev",
                    "failed", "revert", "push", "rebuild"},
               id: Requests \cup {0}, todo: SUBSET Requests]
  /\ report \in [Requests -> Terminal \cup {"none", "timeout"}]
  /\ faults \in [kills: 0..MaxKills, errors: 0..MaxErrors, losses: 0..MaxLosses]

Init ==
  /\ origin = <<>> /\ local = <<>>
  /\ publish = [r \in Requests |-> [at |-> "ready", base |-> 0]]
  /\ owned \in SUBSET Requests
  /\ deployment = [r \in Requests |-> "none"]
  /\ host = [at |-> "boot", id |-> 0, todo |-> {}]
  /\ report = [r \in Requests |-> "none"]
  /\ faults = [kills |-> 0, errors |-> 0, losses |-> 0]
  /\ dropped = {}

Loses == faults.losses < MaxLosses /\ faults' = [faults EXCEPT !.losses = @ + 1]

(***************************************************************************)
(* Publishing                                                              *)
(***************************************************************************)
\* The branch's head is read first; blobs, tree and commit hang from it.
ReadRef(r) ==
  /\ publish[r].at = "ready" /\ \A q \in Requests : q < r => publish[q].at # "ready"
  /\ publish' = [publish EXCEPT ![r] = [at |-> "based", base |-> Len(origin)]]
  /\ UNCHANGED <<origin, local, owned, deployment, host, report, faults, dropped>>

\* Mutant: PATCH with force: what was pushed meanwhile is gone.
PatchRefForced(r) ==
  /\ publish[r].at = "based"
  /\ publish' = [publish EXCEPT ![r].at = "pushed"]
  /\ origin' = IF r \in owned THEN origin ELSE SubSeq(origin, 1, publish[r].base) \o <<r>>
  /\ UNCHANGED <<local, owned, deployment, host, report, faults, dropped>>

\* A fast forward or nothing: a head that moved fails the commit, leaving no row.
PatchRef(r) ==
  /\ publish[r].at = "based"
  /\ IF r \in owned THEN publish' = [publish EXCEPT ![r].at = "pushed"] /\ UNCHANGED origin
     ELSE IF Len(origin) = publish[r].base
     THEN publish' = [publish EXCEPT ![r].at = "pushed"] /\ origin' = Append(origin, r)
     ELSE publish' = [publish EXCEPT ![r].at = "done"] /\ UNCHANGED origin
  /\ UNCHANGED <<local, owned, deployment, host, report, faults, dropped>>

\* When the row cannot be written a second one says failed, if it can be written.
Record(r) ==
  /\ publish[r].at = "pushed"
  /\ \/ deployment' = [deployment EXCEPT ![r] = "code_committed"] /\ UNCHANGED faults
     \/ \E s \in {"failed", "none"} : deployment' = [deployment EXCEPT ![r] = s] /\ Loses
  /\ publish' = [publish EXCEPT ![r].at = "done"]
  /\ UNCHANGED <<origin, local, owned, host, report, dropped>>

\* wait_for_deployment: a terminal step, or the time is up.
Wait(r) ==
  /\ publish[r].at = "done" /\ report[r] = "none"
  /\ report' = [report EXCEPT ![r] = IF deployment[r] \in Terminal THEN deployment[r] ELSE "timeout"]
  /\ UNCHANGED <<origin, local, publish, owned, deployment, host, faults, dropped>>

(***************************************************************************)
(* The supervisor's loop                                                   *)
(***************************************************************************)
At(step) == host.at = step
Goes(at) == host' = [host EXCEPT !.at = at]
\* update_step: with an error the row says failed, whatever the step was.
Step(s) == deployment' = [deployment EXCEPT ![host.id] = s]
Ends(s) == Step(s) /\ host' = [host EXCEPT !.at = "next", !.id = 0]

\* Mutant: every deployment that has not completed is swept, those on hold too.
BootSweepsHeld ==
  /\ At("boot")
  /\ deployment' = [r \in Requests |->
       IF deployment[r] \in InFlight \cup {"on_hold"} THEN "failed" ELSE deployment[r]]
  /\ Goes("mirror")
  /\ UNCHANGED <<origin, local, publish, owned, report, faults, dropped>>

\* Mutant: the sweep is left to whoever polls next.
BootSweepsNothing ==
  /\ At("boot") /\ Goes("mirror")
  /\ UNCHANGED <<origin, local, publish, owned, deployment, report, faults, dropped>>

\* Rows of a run that was interrupted are closed before anything else.
Boot ==
  /\ At("boot")
  /\ deployment' = [r \in Requests |-> IF deployment[r] \in InFlight THEN "failed" ELSE deployment[r]]
  /\ Goes("mirror")
  /\ UNCHANGED <<origin, local, publish, owned, report, faults, dropped>>

\* fetch and merge --ff-only; a diverged clone is left alone.
Mirror ==
  /\ At("mirror")
  /\ \/ local' = (IF IsPrefix(local, origin) THEN origin ELSE local) /\ UNCHANGED faults
     \/ Loses /\ UNCHANGED local
  /\ Goes("poll")
  /\ UNCHANGED <<origin, publish, owned, deployment, report, dropped>>

Poll ==
  LET found == {r \in Requests : deployment[r] = "code_committed"} IN
  /\ At("poll") /\ found # {}
  /\ deployment' = [r \in Requests |-> IF r \in found \cap owned THEN "skipped" ELSE deployment[r]]
  /\ host' = [at |-> "next", id |-> 0, todo |-> found \ owned]
  /\ UNCHANGED <<origin, local, publish, owned, report, faults, dropped>>

Rest ==
  /\ \/ At("poll") /\ \A r \in Requests : deployment[r] # "code_committed"
     \/ At("next") /\ host.todo = {}
  /\ Goes("mirror")
  /\ UNCHANGED <<origin, local, publish, owned, deployment, report, faults, dropped>>

\* In the order of started_at.
Begin ==
  /\ At("next")
  /\ \E r \in host.todo :
       /\ \A q \in host.todo : r <= q
       /\ deployment' = [deployment EXCEPT ![r] = "syncing"]
       /\ host' = [at |-> "sync", id |-> r, todo |-> host.todo \ {r}]
  /\ UNCHANGED <<origin, local, publish, owned, report, faults, dropped>>

Sync ==
  /\ At("sync")
  /\ \/ Ends("failed") \/ (Step("judging") /\ Goes("judge"))
  /\ UNCHANGED <<origin, local, publish, owned, report, faults, dropped>>

\* Without its module the judge is passed over; without an answer it says staging.
Judge ==
  /\ At("judge")
  /\ \/ Ends("completed") \/ Ends("on_hold") \/ (Step("building") /\ Goes("build"))
  /\ UNCHANGED <<origin, local, publish, owned, report, faults, dropped>>

Build ==
  /\ At("build")
  /\ \/ Ends("failed") \/ (Step("staging_deploying") /\ Goes("staging"))
  /\ UNCHANGED <<origin, local, publish, owned, report, faults, dropped>>

\* A failure is recorded as failed before the rollback starts.
Staging ==
  /\ At("staging")
  /\ \/ Step("failed") /\ Goes("failed")
     \/ Step("staging_healthy") /\ Goes("dev")
  /\ UNCHANGED <<origin, local, publish, owned, report, faults, dropped>>

Dev ==
  /\ At("dev")
  /\ \/ Ends("completed") \/ Ends("failed")
  /\ UNCHANGED <<origin, local, publish, owned, report, faults, dropped>>

(***************************************************************************)
(* Rollback                                                                *)
(***************************************************************************)
Rollback ==
  /\ At("failed")
  /\ Step("rolling_back") /\ Goes("revert")
  /\ UNCHANGED <<origin, local, publish, owned, report, faults, dropped>>

\* git reset --hard: main as it was published with commit r.
History(r) == SubSeq(origin, 1, CHOOSE i \in 1..Len(origin) : origin[i] = r)

\* Mutant: whatever is at the head of local main is reverted.
RevertHead ==
  /\ At("revert")
  /\ IF local = <<>> THEN Ends("failed") /\ UNCHANGED local
     ELSE local' = Append(local, -Last(local)) /\ Goes("push") /\ UNCHANGED deployment
  /\ UNCHANGED <<origin, publish, owned, report, faults, dropped>>

\* Local main is put where the commit was shipped unless it is there already.
Revert ==
  LET shipped == IF local # <<>> /\ Last(local) = host.id THEN local ELSE History(host.id) IN
  /\ At("revert")
  /\ \/ local' = Append(shipped, -host.id) /\ Goes("push") /\ UNCHANGED deployment
     \/ local' = shipped /\ Ends("failed")
  /\ UNCHANGED <<origin, publish, owned, report, faults, dropped>>

\* Mutant: push --force.
PushForced ==
  /\ At("push")
  /\ origin' = local /\ Goes("rebuild")
  /\ UNCHANGED <<local, publish, owned, deployment, report, faults, dropped>>

\* Refused when commits were published meanwhile; local main then stays diverged.
Push ==
  /\ At("push")
  /\ IF IsPrefix(origin, local)
     THEN origin' = local /\ Goes("rebuild") /\ UNCHANGED deployment
     ELSE Ends("failed") /\ UNCHANGED origin
  /\ UNCHANGED <<local, publish, owned, report, faults, dropped>>

\* Build, start and health check of the reverted stack.
Rebuild ==
  /\ At("rebuild")
  /\ \/ Ends("rolled_back") \/ Ends("failed")
  /\ UNCHANGED <<origin, local, publish, owned, report, faults, dropped>>

(***************************************************************************)
(* Failures of the supervisor                                              *)
(***************************************************************************)
\* The loop catches every exception, drops the tick and does not look back.
Raise ==
  /\ host.id # 0 /\ faults.errors < MaxErrors
  /\ faults' = [faults EXCEPT !.errors = @ + 1]
  /\ dropped' = dropped \cup {host.id}
  /\ host' = [at |-> "mirror", id |-> 0, todo |-> {}]
  /\ UNCHANGED <<origin, local, publish, owned, deployment, report>>

Kill ==
  /\ host.id # 0 /\ faults.kills < MaxKills
  /\ faults' = [faults EXCEPT !.kills = @ + 1]
  /\ host' = [at |-> "boot", id |-> 0, todo |-> {}]
  /\ UNCHANGED <<origin, local, publish, owned, deployment, report, dropped>>

Supervises ==
  \/ Boot \/ Mirror \/ Poll \/ Rest \/ Begin \/ Sync \/ Judge \/ Build \/ Staging \/ Dev
  \/ Rollback \/ Revert \/ Push \/ Rebuild

Next ==
  \/ Supervises \/ Raise \/ Kill
  \/ \E r \in Requests : ReadRef(r) \/ PatchRef(r) \/ Record(r) \/ Wait(r)

Spec == Init /\ [][Next]_platformVars

\* The supervisor is one loop that never stops of itself.
FairSpec == Spec /\ WF_platformVars(Supervises)

(***************************************************************************)
(* Properties                                                              *)
(***************************************************************************)
\* main on GitHub only ever grows, although the backend's publishers and the
\* supervisor's rollbacks push to it at the same time.
HistoryIsKept == [][IsPrefix(origin, origin')]_platformVars

\* A revert follows the very commit it takes back, at most once, and only of a
\* deployment whose staging failed.
RevertsItsOwn ==
  \A i \in 1..Len(origin) : origin[i] < 0 =>
    /\ i > 1 /\ origin[i - 1] = -origin[i]
    /\ deployment[-origin[i]] \in {"rolling_back", "rolled_back", "failed"}

\* What the devops specialist reported stays true of everything but a failure,
\* which may still be taken back.
ReportHolds ==
  \A r \in Requests : report[r] \in Terminal \ {"failed"} => deployment[r] = report[r]

\* A recorded deployment comes to an end across the supervisor's restarts; the
\* exception is a deployment whose handling raised, which only a restart sweeps.
EveryDeploymentEnds ==
  \A r \in Requests : (deployment[r] = "code_committed")
    ~> (deployment[r] \in Terminal \cup {"skipped"} \/ r \in dropped)

\* The waiting tool's comment, "once current_step is one of these, no further
\* state transitions will happen (until a manual unblock for on_hold)".  The code
\* does not keep it: failed becomes rolled_back.  No run checks it.
OutcomeIsFinal ==
  [][\A r \in Requests : deployment[r] \in Terminal => deployment'[r] = deployment[r]]_platformVars

=============================================================================
