---------------------------- MODULE TaskDispatch ----------------------------
(***************************************************************************)
(* From the tasks of a finalized list to requests and back.                *)
(*                                                                         *)
(* A task is dispatched by the build routes (a batch of tasks, a scope: a  *)
(* feature or an epic, or all that is ready), by the build chat, by the    *)
(* cascade that follows a completed request, or by the handler of a        *)
(* confirmed task.dispatch proposal.  Each of them runs a loop of its own  *)
(* over tasks it read earlier: submit() inserts a request and announces    *)
(* it, the loop stamps the task with the request, and every await is a     *)
(* point where the other loops and the requests' coroutines run.           *)
(*                                                                         *)
(* What a request does between its start and its end, and how it is        *)
(* cancelled, is RequestLifecycle.                                         *)
(***************************************************************************)
EXTENDS Naturals, FiniteSets

CONSTANTS
  Tasks,       \* the finalized tasks of one project
  DependsOn,   \* the tasks each of them depends on
  Requests,    \* ids of requests; their number bounds the submissions
  Calls,       \* concurrent calls of the routes and of the chat's tools
  None,
  Selections,  \* the sets of tasks a batch names or a feature or epic holds
  Strays,      \* bound on astray, for TLC
  Governed,    \* the values governed_mode may have when a cascade starts
  OneAtATime   \* whether dispatch loops are assumed not to overlap

ASSUME DispatchAssumption ==
  /\ DependsOn \in [Tasks -> SUBSET Tasks]
  /\ None \notin Tasks \cup Requests
  /\ Calls \cap Requests = {}
  /\ Selections \subseteq (SUBSET Tasks) \ {{}} /\ Strays \in Nat
  /\ Governed \subseteq BOOLEAN /\ OneAtATime \in BOOLEAN

VARIABLES
  status,     \* project_tasks.task_status
  requestOf,  \* project_tasks.request_id
  source,     \* requests.source_task_id; None before the INSERT
  looked,     \* history: requests whose submitter looks at dependencies
  record,     \* requests.status
  work,       \* where the coroutine of a request is; "skipped" without its cascade
  loop,       \* the dispatch loop of each call, and of each request's cascade
  proposed,   \* the tasks of the open proposal a request's cascade has made
  active,     \* whether projects.status is active
  astray      \* history: tasks dispatched or cancelled behind a running request

board == <<status, requestOf>>
ledger == <<source, looked, record>>
context == <<active, astray>>
vars == <<board, ledger, work, loop, proposed, context>>

InFlight == {"dispatched", "in_progress"}
TaskStatus == {"backlog", "deployed", "failed", "cancelled"} \cup InFlight
Ops == {"batch", "scope", "all", "chat", "auto", "proposal", "cancel"}
Loops == Calls \cup Requests

NoLoop == [at |-> "idle", op |-> "batch", todo |-> {}, task |-> None, req |-> None]
LoopState ==
  [at: {"idle", "check", "filter", "next", "announce", "stamp", "row", "mark"}, op: Ops,
   todo: SUBSET Tasks, task: Tasks \cup {None}, req: Requests \cup {None}]

TypeOK ==
  /\ status \in [Tasks -> TaskStatus]
  /\ requestOf \in [Tasks -> Requests \cup {None}]
  /\ source \in [Requests -> Tasks \cup {None}]
  /\ looked \subseteq Requests
  /\ record \in [Requests -> {"absent", "received", "analyzing", "in_progress",
                              "completed", "failed", "cancelled"}]
  /\ work \in [Requests -> {"off", "waiting", "working", "completed", "failed", "cascade", "over", "skipped"}]
  /\ loop \in [Loops -> LoopState]
  /\ proposed \in [Requests -> SUBSET Tasks]
  /\ active \in BOOLEAN /\ astray \subseteq Tasks

Init ==
  /\ status = [t \in Tasks |-> "backlog"]
  /\ requestOf = [t \in Tasks |-> None]
  /\ source = [r \in Requests |-> None]
  /\ looked = {}
  /\ record = [r \in Requests |-> "absent"]
  /\ work = [r \in Requests |-> "off"]
  /\ loop = [d \in Loops |-> NoLoop]
  /\ proposed = [r \in Requests |-> {}]
  /\ active = TRUE /\ astray = {}

(***************************************************************************)
(* The dependency graph, for any statuses of its tasks                     *)
(***************************************************************************)
\* Mutant: a failed blocker does not block any more.
UnmetUnlessFailed(t, st) == {d \in DependsOn[t] : st[d] \notin {"deployed", "failed"}}

Unmet(t, st) == {d \in DependsOn[t] : st[d] # "deployed"}

Dispatchable(st) == {t \in Tasks : st[t] = "backlog" /\ Unmet(t, st) = {}}

(***************************************************************************)
(* Dispatch loops                                                          *)
(***************************************************************************)
MayStart == OneAtATime => \A d \in Loops : loop[d].at = "idle"

Begins(d, op, at, todo) ==
  loop' = [loop EXCEPT ![d] = [NoLoop EXCEPT !.at = at, !.op = op, !.todo = todo]]

Goes(d, at) == loop' = [loop EXCEPT ![d].at = at]

\* Mutant: a task is free unless it has been deployed.
TakenWhenDeployed(t) == status[t] = "deployed" /\ requestOf[t] # None

Taken(t) == status[t] \in InFlight \cup {"deployed"} /\ requestOf[t] # None

\* POST build/dispatch: the tasks named in the call are read; those already
\* taken will be answered with their request.
CallBatch(c) ==
  /\ loop[c].at = "idle" /\ MayStart
  /\ \E S \in Selections :
       Begins(c, "batch", "check", {t \in S : ~Taken(t)})
  /\ UNCHANGED <<board, ledger, work, proposed, context>>

\* The dependency pre-check is all or nothing and leaves tasks in flight out.
CheckBatch(c) ==
  /\ loop[c].at = "check"
  /\ IF \E t \in loop[c].todo : status[t] \notin InFlight \cup {"deployed"} /\ Unmet(t, status) # {}
     THEN loop' = [loop EXCEPT ![c] = NoLoop]
     ELSE Goes(c, "next")
  /\ UNCHANGED <<board, ledger, work, proposed, context>>

\* dispatch-feature and dispatch-epic: the tasks of the scope that are not in
\* flight or deployed; the dependencies are looked at one by one later on.
CallScope(c) ==
  /\ loop[c].at = "idle" /\ MayStart
  /\ \E S \in Selections :
       Begins(c, "scope", "next", {t \in S : status[t] \notin InFlight \cup {"deployed"}})
  /\ UNCHANGED <<board, ledger, work, proposed, context>>

CallAllReady(c) ==
  /\ loop[c].at = "idle" /\ MayStart
  /\ Begins(c, "all", "next", Dispatchable(status))
  /\ UNCHANGED <<board, ledger, work, proposed, context>>

\* The chat's dispatch_task: no look at the dependencies, and nothing to do
\* for a task that has left the backlog with a request.
CallChat(c) ==
  /\ loop[c].at = "idle" /\ MayStart
  /\ \E t \in Tasks :
       /\ status[t] = "backlog" \/ requestOf[t] = None
       /\ Begins(c, "chat", "next", {t})
  /\ UNCHANGED <<board, ledger, work, proposed, context>>

\* The project is archived; what is being built goes on.
Archive ==
  /\ active
  /\ active' = FALSE
  /\ UNCHANGED <<board, ledger, work, loop, proposed, astray>>

\* submit() raises: the project is not active any more.
Refuse(d) ==
  /\ loop[d].at = "next" /\ ~active
  /\ \E t \in loop[d].todo : loop' = [loop EXCEPT ![d].todo = @ \ {t}]
  /\ UNCHANGED <<board, ledger, work, proposed, context>>

\* A task of a scope whose dependencies are unmet is reported as blocked.
Blocked(d) ==
  /\ loop[d].at = "next" /\ loop[d].op = "scope"
  /\ \E t \in loop[d].todo :
       Unmet(t, status) # {} /\ loop' = [loop EXCEPT ![d].todo = @ \ {t}]
  /\ UNCHANGED <<board, ledger, work, proposed, context>>

\* submit() inserts the request with the task it comes from.
Create(d) ==
  /\ loop[d].at = "next" /\ active
  /\ \E r \in Requests : source[r] = None
  /\ \E t \in loop[d].todo :
     LET r == CHOOSE id \in Requests : source[id] = None IN
       /\ loop[d].op = "scope" => Unmet(t, status) = {}
       /\ source' = [source EXCEPT ![r] = t]
       /\ looked' = IF loop[d].op \in {"chat", "proposal"} THEN looked ELSE looked \cup {r}
       /\ record' = [record EXCEPT ![r] = "received"]
       /\ loop' = [loop EXCEPT ![d].at = "announce", ![d].task = t, ![d].req = r]
       /\ astray' = IF loop[d].op = "proposal" /\ status[t] \in InFlight \cup {"deployed"}
                    THEN astray \cup {t} ELSE astray
  /\ UNCHANGED <<board, work, proposed, active>>

\* The request is analyzing, its event marks the task, its workflow is launched.
Announce(d) ==
  LET r == loop[d].req IN
  /\ loop[d].at = "announce"
  /\ record' = [record EXCEPT ![r] = "analyzing"]
  /\ status' = [status EXCEPT ![source[r]] = "dispatched"]
  /\ work' = [work EXCEPT ![r] = "waiting"]
  /\ Goes(d, "stamp")
  /\ UNCHANGED <<requestOf, source, looked, proposed, context>>

\* Mutant: the status is set but the request is not recorded.
StampStatusOnly(d) ==
  /\ loop[d].at = "stamp"
  /\ status' = [status EXCEPT ![loop[d].task] = "dispatched"]
  /\ loop' = [loop EXCEPT ![d].at = "next", ![d].todo = @ \ {loop[d].task},
                         ![d].task = None, ![d].req = None]
  /\ UNCHANGED <<requestOf, ledger, work, proposed, context>>

\* set_task_status(DISPATCHED, request_id)
Stamp(d) ==
  LET t == loop[d].task IN
  /\ loop[d].at = "stamp"
  /\ status' = [status EXCEPT ![t] = "dispatched"]
  /\ requestOf' = [requestOf EXCEPT ![t] = loop[d].req]
  /\ loop' = [loop EXCEPT ![d].at = "next", ![d].todo = @ \ {t}, ![d].task = None, ![d].req = None]
  /\ UNCHANGED <<ledger, work, proposed, context>>

\* The loop is through; the coroutine that ran a cascade is, too.
Finish(d) ==
  /\ loop[d].at = "next" /\ loop[d].todo = {}
  /\ loop' = [loop EXCEPT ![d] = NoLoop]
  /\ work' = IF d \in Requests THEN [work EXCEPT ![d] = "over"] ELSE work
  /\ UNCHANGED <<board, ledger, proposed, context>>

(***************************************************************************)
(* The cascade after a completed request, and proposals                    *)
(***************************************************************************)
\* The event handler reads the project and the tasks that are ready now.
Cascade(r) ==
  /\ work[r] = "cascade" /\ loop[r].at = "idle" /\ MayStart
  /\ Begins(r, "auto", "filter", Dispatchable(status))
  /\ UNCHANGED <<board, ledger, work, proposed, context>>

\* Each of them is read once more; then all are submitted, or proposed when
\* the platform is governed.
Filter(r) ==
  LET fresh == {t \in loop[r].todo : status[t] = "backlog"} IN
  /\ loop[r].at = "filter"
  /\ \E governed \in Governed :
       IF governed
       THEN /\ proposed' = [proposed EXCEPT ![r] = fresh]
            /\ loop' = [loop EXCEPT ![r] = [@ EXCEPT !.at = "next", !.todo = {}]]
       ELSE /\ loop' = [loop EXCEPT ![r] = [@ EXCEPT !.at = "next", !.todo = fresh]]
            /\ UNCHANGED proposed
  /\ UNCHANGED <<board, ledger, work, context>>

\* A confirmed task.dispatch proposal: its tasks, whatever has become of them.
CallProposal(c) ==
  /\ loop[c].at = "idle" /\ MayStart
  /\ \E r \in Requests :
       /\ proposed[r] # {}
       /\ Begins(c, "proposal", "next", proposed[r])
       /\ proposed' = [proposed EXCEPT ![r] = {}]
  /\ UNCHANGED <<board, ledger, work, context>>

\* auto_dispatch_on_deploy is off, as it is in a new project, or one of the
\* look-ups failed: that is logged, and no later event makes up for it.
Skip(r) ==
  /\ work[r] = "cascade"
  /\ loop[r].at = "filter" \/ (loop[r].at = "idle" /\ MayStart)
  /\ loop' = [loop EXCEPT ![r] = NoLoop]
  /\ work' = [work EXCEPT ![r] = "skipped"]
  /\ UNCHANGED <<board, ledger, proposed, context>>

(***************************************************************************)
(* The chat's cancel_task                                                  *)
(***************************************************************************)
CallCancelTask(c) ==
  /\ loop[c].at = "idle" /\ MayStart
  /\ \E t \in Tasks :
       /\ Cardinality(astray \cup {t}) <= Strays
       /\ status[t] \notin {"deployed", "failed", "cancelled"}
       /\ loop' = [loop EXCEPT ![c] = [NoLoop EXCEPT !.at = "row", !.op = "cancel", !.task = t,
                                                     !.req = requestOf[t]]]
  /\ UNCHANGED <<board, ledger, work, proposed, context>>

\* The request's row is marked; its workflow is not told.
CancelRow(c) ==
  LET r == loop[c].req IN
  /\ loop[c].at = "row"
  /\ record' = IF r = None THEN record ELSE [record EXCEPT ![r] = "cancelled"]
  /\ Goes(c, "mark")
  /\ UNCHANGED <<board, source, looked, work, proposed, context>>

AtWork(r) == work[r] \notin {"off", "over", "skipped"}

CancelMark(c) ==
  LET t == loop[c].task IN
  /\ loop[c].at = "mark"
  /\ status' = [status EXCEPT ![t] = "cancelled"]
  /\ astray' = astray \cup {t}
  /\ loop' = [loop EXCEPT ![c] = NoLoop]
  /\ UNCHANGED <<requestOf, ledger, work, proposed, active>>

(***************************************************************************)
(* The coroutine of a request                                              *)
(***************************************************************************)
\* It sleeps half a second so that submit() can return first.
Answered(r) == \A d \in Loops : loop[d].req = r => loop[d].op = "cancel"

Begin(r) ==
  /\ work[r] = "waiting" /\ Answered(r)
  /\ work' = [work EXCEPT ![r] = "working"]
  /\ record' = [record EXCEPT ![r] = "in_progress"]
  /\ status' = [status EXCEPT ![source[r]] = "in_progress"]
  /\ UNCHANGED <<requestOf, source, looked, loop, proposed, context>>

End(r) ==
  /\ work[r] = "working"
  /\ \E outcome \in {"completed", "failed"} :
       /\ work' = [work EXCEPT ![r] = outcome]
       /\ record' = [record EXCEPT ![r] = outcome]
  /\ UNCHANGED <<board, source, looked, loop, proposed, context>>

\* Mutant: the cascade handler is registered before the status handler.
TellCascadeFirst(r) ==
  /\ work[r] \in {"completed", "failed"}
  /\ \/ /\ work[r] = "completed"
        /\ Begins(r, "auto", "filter", Dispatchable(status))
     \/ work[r] = "failed" /\ UNCHANGED loop
  /\ status' = [status EXCEPT ![source[r]] = IF work[r] = "completed" THEN "deployed" ELSE "failed"]
  /\ work' = [work EXCEPT ![r] = IF work[r] = "completed" THEN "cascade" ELSE "over"]
  /\ UNCHANGED <<requestOf, ledger, proposed, context>>

\* Mutant: the status of the request is written into the task as it is.
TellUnmapped(r) ==
  /\ work[r] \in {"completed", "failed"}
  /\ status' = [status EXCEPT ![source[r]] = work[r]]
  /\ work' = [work EXCEPT ![r] = IF work[r] = "completed" THEN "cascade" ELSE "over"]
  /\ UNCHANGED <<requestOf, ledger, loop, proposed, context>>

\* The event of the end: the first handler sets the status of the task, a
\* later one starts the cascade.
Tell(r) ==
  /\ work[r] \in {"completed", "failed"}
  /\ status' = [status EXCEPT ![source[r]] = IF work[r] = "completed" THEN "deployed" ELSE "failed"]
  /\ work' = [work EXCEPT ![r] = IF work[r] = "completed" THEN "cascade" ELSE "over"]
  /\ UNCHANGED <<requestOf, ledger, loop, proposed, context>>

\* The cancel route, which stops the workflow (RequestLifecycle).
CancelRequest(r) ==
  /\ work[r] \in {"waiting", "working"} /\ Answered(r)
  /\ record[r] \in {"analyzing", "in_progress"}
  /\ work' = [work EXCEPT ![r] = "over"]
  /\ record' = [record EXCEPT ![r] = "cancelled"]
  /\ status' = [status EXCEPT ![source[r]] = "cancelled"]
  /\ UNCHANGED <<requestOf, source, looked, loop, proposed, context>>

(***************************************************************************)
(* Specification                                                           *)
(***************************************************************************)
Call(c) ==
  \/ CallBatch(c) \/ CallScope(c) \/ CallAllReady(c) \/ CallChat(c)
  \/ CallProposal(c) \/ CallCancelTask(c)

Loop(d) ==
  \/ CheckBatch(d) \/ Blocked(d) \/ Refuse(d) \/ Create(d) \/ Announce(d) \/ Stamp(d) \/ Finish(d)
  \/ CancelRow(d) \/ CancelMark(d)

Next ==
  \/ Archive
  \/ \E c \in Calls : Call(c)
  \/ \E d \in Loops : Loop(d)
  \/ \E r \in Requests : Cascade(r) \/ Filter(r) \/ Skip(r)
  \/ \E r \in Requests : Begin(r) \/ End(r) \/ Tell(r) \/ CancelRequest(r)

Spec == Init /\ [][Next]_vars

\* A loop that was started goes on, workflows end, events are handled.  Nobody
\* has to call, cancel or confirm.  The cascade is strongly fair because it may
\* have to wait for the other loops when they are assumed not to overlap.
FairSpec ==
  /\ Spec
  /\ \A d \in Loops : WF_vars(Loop(d))
  /\ \A r \in Requests :
       SF_vars(Cascade(r) \/ Filter(r) \/ Skip(r)) /\ WF_vars(Begin(r) \/ End(r) \/ Tell(r))

(***************************************************************************)
(* Properties                                                              *)
(***************************************************************************)
Exists(r) == source[r] # None
Pending(r) == record[r] = "received" \/ work[r] \in {"waiting", "working"}

\* No two workflows build the same task: a task that is dispatched, retried
\* after a failure or picked up by the cascade has one request in flight
\* ("Idempotent", "already_dispatched"), unless the chat cancelled it behind
\* its workflow's back or a stale proposal dispatched it once more.
OneLiveRequest ==
  \A r, s \in Requests :
    Pending(r) /\ Pending(s) /\ source[r] = source[s] /\ source[r] \notin astray => r = s

\* No workflow starts, and none runs, before the code it builds on is there:
\* from the submission by a route or the cascade to its end everything the
\* task depends on is deployed.  The chat and proposals do not look.
DependenciesFirst ==
  \A r \in Requests :
    /\ Exists(r) /\ Pending(r) /\ r \in looked
    /\ (DependsOn[source[r]] \cup {source[r]}) \cap astray = {}
    => \A d \in DependsOn[source[r]] : status[d] = "deployed"

\* When no loop and no coroutine is at work for a task, its row names the last
\* request made for it and shows how that one ended.
TaskFollowsRequest ==
  \A t \in Tasks :
    /\ t \notin astray
    /\ \A r \in Requests : source[r] = t => ~AtWork(r) /\ record[r] # "received"
    /\ \A d \in Loops : loop[d].task # t
    => IF requestOf[t] = None
       THEN status[t] = "backlog" /\ \A r \in Requests : source[r] # t
       ELSE /\ source[requestOf[t]] = t
            /\ status[t] = CASE record[requestOf[t]] = "completed" -> "deployed"
                             [] record[requestOf[t]] = "failed" -> "failed"
                             [] OTHER -> "cancelled"

\* The cascade reaches every task of a project that wants it: once all its
\* dependencies are deployed a waiting task leaves the backlog or is proposed,
\* unless the project is archived, one of the dependencies is taken up again,
\* or the cascade after one of them was skipped: the flag is off by default,
\* and switching it on later reaches nothing by itself.
CascadeReaches ==
  \A t \in Tasks :
    (status[t] = "backlog" /\ DependsOn[t] # {} /\ Unmet(t, status) = {})
      ~> \/ status[t] # "backlog" \/ Unmet(t, status) # {}
         \/ ~active \/ \E r \in Requests : t \in proposed[r]
         \/ \E r \in Requests : work[r] = "skipped" /\ source[r] \in DependsOn[t]
         \/ \A r \in Requests : Exists(r)

=============================================================================
