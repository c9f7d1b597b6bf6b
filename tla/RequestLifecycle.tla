-------------------------- MODULE RequestLifecycle --------------------------
(***************************************************************************)
(* The life of a request in the orchestrator: submit(), the workflow       *)
(* coroutine it launches, cancel() and the delete route, and the event     *)
(* handler that copies the request's status to the project task it was     *)
(* dispatched from.                                                        *)
(*                                                                         *)
(* Every await on the database is a point where the other coroutines run:  *)
(* an action is what happens between two of them.  update_request writes   *)
(* the whole row from an object read earlier, so each coroutine keeps what *)
(* it has read.  A worker knows only the background tasks it launched.     *)
(*                                                                         *)
(* What the stages do is the business of WorkflowRunner; here the run      *)
(* starts agents, may commit, and returns or raises.                       *)
(***************************************************************************)
EXTENDS Naturals

CONSTANTS
  Requests,   \* requests, each dispatched from a project task of its own
  Clients,    \* concurrent calls of the cancel and delete routes
  Workers,    \* uvicorn workers on the one database
  Early,      \* whether a client may cancel before submit() has answered
  MaxCrashes  \* bound on worker crashes

ASSUME LifecycleAssumption == Early \in BOOLEAN /\ MaxCrashes \in Nat

VARIABLES
  status,    \* requests.status; "absent" before the INSERT, "deleted" after the DELETE
  recorded,  \* commit_sha and published_files are in the row
  spinning,  \* some subtask row is pending or in progress
  broken,    \* some subtask row is failed
  task,      \* project_tasks.task_status of the source task
  submit,    \* where submit() and the dispatcher around it are
  flow,      \* where the _run_workflow coroutine is
  seen,      \* the row the coroutine read last
  noted,     \* the commit handler has written its commit into the row
  home,      \* the worker that holds the coroutine
  call,      \* where each client's cancel or delete is
  lost,      \* a coroutine working on the request died with its worker
  crashes

row == <<status, recorded>>
subtasks == <<spinning, broken>>
vars == <<status, recorded, spinning, broken, task, submit, flow, seen, noted,
          home, call, lost, crashes>>

Terminal == {"completed", "failed", "cancelled"}
Status == {"absent", "received", "analyzing", "in_progress", "deleted"} \cup Terminal
TaskStatus == {"backlog", "dispatched", "in_progress", "deployed", "failed", "cancelled"}
Rows == [status: Status, recorded: BOOLEAN]

Submitting == {"created", "analyzed", "launched"}
Working == {"paused", "begun", "running", "agent", "committing", "fetched", "raised"}
Live == Working \cup {"closing"}

NoRow == [status |-> "absent", recorded |-> FALSE]
Idle == [at |-> "idle"]
Calls == {Idle} \cup
  [at: {"kill", "mark", "fetch", "write", "tell", "erase"}, req: Requests,
   worker: Workers, seen: Rows]

TypeOK ==
  /\ status \in [Requests -> Status]
  /\ recorded \in [Requests -> BOOLEAN]
  /\ spinning \in [Requests -> BOOLEAN] /\ broken \in [Requests -> BOOLEAN]
  /\ task \in [Requests -> TaskStatus]
  /\ submit \in [Requests -> {"idle", "answered"} \cup Submitting]
  /\ flow \in [Requests -> {"off", "done", "killed"} \cup Live]
  /\ seen \in [Requests -> Rows]
  /\ noted \in [Requests -> BOOLEAN]
  /\ home \in [Requests -> Workers]
  /\ call \in [Clients -> Calls]
  /\ lost \in [Requests -> BOOLEAN]
  /\ crashes \in 0..MaxCrashes

Init ==
  /\ status = [r \in Requests |-> "absent"]
  /\ recorded = [r \in Requests |-> FALSE]
  /\ spinning = [r \in Requests |-> FALSE] /\ broken = [r \in Requests |-> FALSE]
  /\ task = [r \in Requests |-> "backlog"]
  /\ submit = [r \in Requests |-> "idle"]
  /\ flow = [r \in Requests |-> "off"]
  /\ seen = [r \in Requests |-> NoRow]
  /\ noted = [r \in Requests |-> FALSE]
  /\ home \in [Requests -> Workers]
  /\ call = [c \in Clients |-> Idle]
  /\ lost = [r \in Requests |-> FALSE]
  /\ crashes = 0

Row(r) == [status |-> status[r], recorded |-> recorded[r]]

\* update_request: the whole row, whatever it holds now; no row, no effect.
Update(r, st, rec) ==
  IF status[r] = "deleted" THEN UNCHANGED row
  ELSE /\ status' = [status EXCEPT ![r] = st]
       /\ recorded' = [recorded EXCEPT ![r] = rec]

\* Mutant: the terminal statuses of requests are taken for those of tasks.
TaskOfSame(st) == IF st = "analyzing" THEN "dispatched" ELSE st

TaskOf(st) ==
  CASE st = "analyzing" -> "dispatched"
    [] st = "completed" -> "deployed"
    [] OTHER            -> st

\* Emitting a request event: the handler looks the request up and sets the
\* status of its task.
Emit(r, st) ==
  task' = IF status[r] = "deleted" THEN task ELSE [task EXCEPT ![r] = TaskOf(st)]

(***************************************************************************)
(* submit() and the dispatcher that called it                              *)
(***************************************************************************)
Create(r) ==
  /\ submit[r] = "idle"
  /\ submit' = [submit EXCEPT ![r] = "created"]
  /\ status' = [status EXCEPT ![r] = "received"]
  /\ UNCHANGED <<recorded, subtasks, task, flow, seen, noted, home, call, lost, crashes>>

\* After the search for documents to reuse; from the object as it was created.
Analyze(r) ==
  /\ submit[r] = "created"
  /\ submit' = [submit EXCEPT ![r] = "analyzed"]
  /\ Update(r, "analyzing", FALSE)
  /\ UNCHANGED <<subtasks, task, flow, seen, noted, home, call, lost, crashes>>

Launch(r) ==
  /\ submit[r] = "analyzed"
  /\ submit' = [submit EXCEPT ![r] = "launched"]
  /\ Emit(r, "analyzing")
  /\ flow' = [flow EXCEPT ![r] = "paused"]
  /\ UNCHANGED <<row, subtasks, seen, noted, home, call, lost, crashes>>

\* The dispatcher marks the task as dispatched once submit() has returned.
Stamp(r) ==
  /\ submit[r] = "launched"
  /\ submit' = [submit EXCEPT ![r] = "answered"]
  /\ task' = [task EXCEPT ![r] = "dispatched"]
  /\ UNCHANGED <<row, subtasks, flow, seen, noted, home, call, lost, crashes>>

(***************************************************************************)
(* The workflow coroutine                                                  *)
(***************************************************************************)
\* The half second of sleep is there to let the dispatcher answer first.
Begin(r) ==
  /\ flow[r] = "paused" /\ submit[r] = "answered"
  /\ flow' = [flow EXCEPT ![r] = "begun"]
  /\ Update(r, "in_progress", FALSE)
  /\ UNCHANGED <<subtasks, task, submit, seen, noted, home, call, lost, crashes>>

AnnounceStart(r) ==
  /\ flow[r] = "begun"
  /\ flow' = [flow EXCEPT ![r] = "running"]
  /\ Emit(r, "in_progress")
  /\ UNCHANGED <<row, subtasks, submit, seen, noted, home, call, lost, crashes>>

StartAgent(r) ==
  /\ flow[r] = "running"
  /\ flow' = [flow EXCEPT ![r] = "agent"]
  /\ spinning' = [spinning EXCEPT ![r] = TRUE]
  /\ UNCHANGED <<row, broken, task, submit, seen, noted, home, call, lost, crashes>>

EndAgent(r, fails) ==
  /\ flow[r] = "agent"
  /\ flow' = [flow EXCEPT ![r] = "running"]
  /\ spinning' = [spinning EXCEPT ![r] = FALSE]
  /\ broken' = [broken EXCEPT ![r] = @ \/ fails]
  /\ UNCHANGED <<row, task, submit, seen, noted, home, call, lost, crashes>>

\* The code is on GitHub and the handler has read the row.
Push(r) ==
  /\ flow[r] = "running" /\ ~noted[r]
  /\ flow' = [flow EXCEPT ![r] = "committing"]
  /\ seen' = [seen EXCEPT ![r] = Row(r)]
  /\ UNCHANGED <<row, subtasks, task, submit, noted, home, call, lost, crashes>>

RecordCommit(r) ==
  /\ flow[r] = "committing"
  /\ flow' = [flow EXCEPT ![r] = "running"]
  /\ Update(r, seen[r].status, TRUE)
  /\ noted' = [noted EXCEPT ![r] = TRUE]
  /\ UNCHANGED <<subtasks, task, submit, seen, home, call, lost, crashes>>

\* The write failed; that is logged and the run goes on.
DropCommit(r) ==
  /\ flow[r] = "committing"
  /\ flow' = [flow EXCEPT ![r] = "running"]
  /\ UNCHANGED <<row, subtasks, task, submit, seen, noted, home, call, lost, crashes>>

\* Mutant: the verdict is written from the object submit() created.
FetchCaptured(r) ==
  /\ flow[r] = "running"
  /\ flow' = [flow EXCEPT ![r] = "fetched"]
  /\ seen' = [seen EXCEPT ![r] = NoRow]
  /\ UNCHANGED <<row, subtasks, task, submit, noted, home, call, lost, crashes>>

\* runner.run() returned; the request is read again.
Fetch(r) ==
  /\ flow[r] = "running"
  /\ flow' = [flow EXCEPT ![r] = "fetched"]
  /\ seen' = [seen EXCEPT ![r] = Row(r)]
  /\ UNCHANGED <<row, subtasks, task, submit, noted, home, call, lost, crashes>>

Conclude(r, escalated) ==
  LET verdict == IF escalated \/ broken[r] THEN "failed" ELSE "completed" IN
  /\ flow[r] = "fetched"
  /\ flow' = [flow EXCEPT ![r] = "closing"]
  /\ Update(r, verdict, seen[r].recorded)
  /\ seen' = [seen EXCEPT ![r].status = verdict]
  /\ UNCHANGED <<subtasks, task, submit, noted, home, call, lost, crashes>>

\* An unknown workflow, a stage, a read or a write that raised.  Emitting does
\* not raise, and neither do the handler of the commit and the agent's.
Raise(r) ==
  /\ flow[r] \in {"paused", "running", "fetched"} /\ submit[r] = "answered"
  /\ flow' = [flow EXCEPT ![r] = "raised"]
  /\ UNCHANGED <<row, subtasks, task, submit, seen, noted, home, call, lost, crashes>>

\* From the object submit() created, which knows of no commit.
ConcludeRaised(r) ==
  /\ flow[r] = "raised"
  /\ flow' = [flow EXCEPT ![r] = "closing"]
  /\ Update(r, "failed", FALSE)
  /\ seen' = [seen EXCEPT ![r].status = "failed"]
  /\ UNCHANGED <<subtasks, task, submit, noted, home, call, lost, crashes>>

AnnounceEnd(r) ==
  /\ flow[r] = "closing"
  /\ flow' = [flow EXCEPT ![r] = "done"]
  /\ Emit(r, seen[r].status)
  /\ UNCHANGED <<row, subtasks, submit, seen, noted, home, call, lost, crashes>>

(***************************************************************************)
(* cancel() and the delete route                                           *)
(***************************************************************************)
Goto(c, at) == call' = [call EXCEPT ![c].at = at]

\* The request was read and is not terminal.
CallCancel(c, r, w) ==
  /\ call[c] = Idle
  /\ status[r] \notin Terminal \cup {"absent", "deleted"}
  /\ Early \/ submit[r] = "answered"
  /\ call' = [call EXCEPT ![c] = [at |-> "kill", req |-> r, worker |-> w, seen |-> Row(r)]]
  /\ UNCHANGED <<row, subtasks, task, submit, flow, seen, noted, home, lost, crashes>>

\* Mutant: the row is written but the coroutine goes on.
KillNothing(c) ==
  /\ call[c].at = "kill"
  /\ Goto(c, "mark")
  /\ UNCHANGED <<row, subtasks, task, submit, flow, seen, noted, home, lost, crashes>>

\* The coroutine unwinds at the await it is in, if this worker has it.
Kill(c) ==
  /\ call[c].at = "kill"
  /\ Goto(c, "mark")
  /\ LET r == call[c].req IN
     flow' = IF home[r] = call[c].worker /\ flow[r] \in Live
             THEN [flow EXCEPT ![r] = "killed"] ELSE flow
  /\ UNCHANGED <<row, subtasks, task, submit, seen, noted, home, lost, crashes>>

\* Mutant: the subtask rows are left as they are.
MarkNothing(c) ==
  /\ call[c].at = "mark"
  /\ Goto(c, "fetch")
  /\ UNCHANGED <<row, subtasks, task, submit, flow, seen, noted, home, lost, crashes>>

MarkSubtasks(c) ==
  /\ call[c].at = "mark"
  /\ Goto(c, "fetch")
  /\ spinning' = [spinning EXCEPT ![call[c].req] = FALSE]
  /\ UNCHANGED <<row, broken, task, submit, flow, seen, noted, home, lost, crashes>>

\* If the row is gone the object read first is used; its UPDATE has no effect.
Refetch(c) ==
  /\ call[c].at = "fetch"
  /\ call' = [call EXCEPT ![c].at = "write", ![c].seen = Row(call[c].req)]
  /\ UNCHANGED <<row, subtasks, task, submit, flow, seen, noted, home, lost, crashes>>

\* Mutant: the request keeps the status it had.
WriteNothing(c) ==
  /\ call[c].at = "write"
  /\ Goto(c, "tell")
  /\ UNCHANGED <<row, subtasks, task, submit, flow, seen, noted, home, lost, crashes>>

WriteCancelled(c) ==
  /\ call[c].at = "write"
  /\ Goto(c, "tell")
  /\ Update(call[c].req, "cancelled", call[c].seen.recorded)
  /\ UNCHANGED <<subtasks, task, submit, flow, seen, noted, home, lost, crashes>>

\* Mutant: nobody is told of the cancellation.
TellNobody(c) ==
  /\ call[c].at = "tell"
  /\ call' = [call EXCEPT ![c] = Idle]
  /\ UNCHANGED <<row, subtasks, task, submit, flow, seen, noted, home, lost, crashes>>

Tell(c) ==
  /\ call[c].at = "tell"
  /\ call' = [call EXCEPT ![c] = Idle]
  /\ Emit(call[c].req, "cancelled")
  /\ UNCHANGED <<row, subtasks, submit, flow, seen, noted, home, lost, crashes>>

\* The delete route has read a terminal request.
CallDelete(c, r, w) ==
  /\ call[c] = Idle
  /\ status[r] \in Terminal
  /\ call' = [call EXCEPT ![c] = [at |-> "erase", req |-> r, worker |-> w, seen |-> Row(r)]]
  /\ UNCHANGED <<row, subtasks, task, submit, flow, seen, noted, home, lost, crashes>>

\* The cascade takes the subtask rows along and leaves the task its status.
Erase(c) ==
  LET r == call[c].req IN
  /\ call[c].at = "erase"
  /\ call' = [call EXCEPT ![c] = Idle]
  /\ status' = [status EXCEPT ![r] = "deleted"]
  /\ recorded' = [recorded EXCEPT ![r] = FALSE]
  /\ spinning' = [spinning EXCEPT ![r] = FALSE]
  /\ broken' = [broken EXCEPT ![r] = FALSE]
  /\ UNCHANGED <<task, submit, flow, seen, noted, home, lost, crashes>>

(***************************************************************************)
(* A worker dies with every coroutine and call it runs, and is started     *)
(* again.  Nothing at start-up looks for requests it has left.             *)
(***************************************************************************)
Busy(c, r) == call[c] # Idle /\ call[c].req = r

Crash(w) ==
  /\ crashes < MaxCrashes
  /\ crashes' = crashes + 1
  /\ lost' = [r \in Requests |-> \/ lost[r]
                                 \/ home[r] = w /\ (flow[r] \in Live \/ submit[r] \in Submitting)
                                 \/ \E c \in Clients : Busy(c, r) /\ call[c].worker = w]
  /\ flow' = [r \in Requests |-> IF home[r] = w /\ flow[r] \in Live THEN "killed" ELSE flow[r]]
  /\ submit' = [r \in Requests |-> IF home[r] = w /\ submit[r] \in Submitting
                                   THEN "answered" ELSE submit[r]]
  /\ call' = [c \in Clients |-> IF call[c] # Idle /\ call[c].worker = w THEN Idle ELSE call[c]]
  /\ UNCHANGED <<row, subtasks, task, seen, noted, home>>

(***************************************************************************)
(* Specification                                                           *)
(***************************************************************************)
Submit(r) == Create(r) \/ Analyze(r) \/ Launch(r) \/ Stamp(r)

RunWorkflow(r) ==
  \/ Begin(r) \/ AnnounceStart(r)
  \/ StartAgent(r) \/ (\E fails \in BOOLEAN : EndAgent(r, fails))
  \/ Push(r) \/ RecordCommit(r) \/ DropCommit(r)
  \/ Fetch(r) \/ (\E escalated \in BOOLEAN : Conclude(r, escalated))
  \/ Raise(r) \/ ConcludeRaised(r) \/ AnnounceEnd(r)

Serve(c) ==
  \/ Kill(c) \/ MarkSubtasks(c) \/ Refetch(c) \/ WriteCancelled(c) \/ Tell(c)
  \/ Erase(c)

Next ==
  \/ \E r \in Requests : Submit(r) \/ RunWorkflow(r)
  \/ \E c \in Clients :
       \/ Serve(c)
       \/ \E r \in Requests, w \in Workers : CallCancel(c, r, w) \/ CallDelete(c, r, w)
  \/ \E w \in Workers : Crash(w)

Spec == Init /\ [][Next]_vars

\* A coroutine that can go on is scheduled and database calls return.  That
\* the run comes to its end is EveryRunEnds of WorkflowRunner.  Nobody has to
\* submit, cancel or delete.
Fairness ==
  /\ \A r \in Requests :
       /\ WF_vars(Analyze(r) \/ Launch(r) \/ Stamp(r))
       /\ WF_vars(RunWorkflow(r))
       /\ SF_vars(Fetch(r))
  /\ \A c \in Clients : WF_vars(Serve(c))
FairSpec == Spec /\ Fairness

(***************************************************************************)
(* Properties                                                              *)
(***************************************************************************)
\* No coroutine of the request will touch it again and nobody is cancelling
\* or deleting it; none of them died half way.
Quiet(r) ==
  /\ submit[r] = "answered" /\ flow[r] \notin Live /\ ~lost[r]
  /\ \A c \in Clients : ~Busy(c, r)

\* A deleted request has no workflow that still writes for it ("Running
\* requests must be cancelled first to avoid deleting state that a live
\* background task is still writing to", requests.py:456).  That is the delete
\* route of requests; deleting a whole project takes running ones along.
NoWorkAfterDelete ==
  \A r \in Requests : status[r] = "deleted" => flow[r] \notin Working

\* A cancelled request stays cancelled until it is deleted: none of the
\* coroutines that read the row before writes it back.
CancelledStays ==
  [][\A r \in Requests : status[r] = "cancelled" => status'[r] \in {"cancelled", "deleted"}]_vars

\* The row of a completed request names the commit exactly if the commit
\* handler wrote it there: the verdict is written back over the row without
\* undoing what was written during the run.
RecordMatches ==
  \A r \in Requests : status[r] = "completed" => recorded[r] = noted[r]

\* A row that names its commit goes on naming it until it is deleted
\* ("Re-fetch the request from DB so we don't overwrite fields that handlers
\* (e.g., _handle_publish) may have persisted during the run",
\* orchestrator.py:479).  The code does not keep it: the exception path writes the
\* object submit() created over the row.  No run checks it.
RecordIsKept ==
  [][\A r \in Requests : recorded[r] => recorded'[r] \/ status'[r] = "deleted"]_vars

\* When all is quiet the task shows how its request ended, whatever the order
\* in which rows were written and events handled.
TaskAgrees ==
  \A r \in Requests : Quiet(r) =>
    /\ status[r] = "completed" => task[r] = "deployed"
    /\ status[r] = "failed"    => task[r] = "failed"
    /\ status[r] = "cancelled" => task[r] = "cancelled"

\* When all is quiet no subtask of the request is shown as running.
NothingSpins ==
  \A r \in Requests : Quiet(r) => ~spinning[r]

\* A request that was submitted ends, unless a worker died on it.
EveryRequestSettles ==
  \A r \in Requests :
    status[r] = "received" ~> (status[r] \in Terminal \cup {"deleted"} \/ lost[r])

=============================================================================
