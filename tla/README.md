# A TLA+ development of the agent team platform

The platform turns a line of text ("build me a login page") into a *request*,
runs a *workflow* of LLM agents for it (analyst, coders, reviewers, tester,
security, devops), commits and deploys the result, and lets outside operators
and its own self-healing loops ask for state changes through an *approval
gate*. Around that it keeps projects with their documents and plans, a
knowledge base, lessons, prompts, costs, and links to Jira and Confluence. It
is a Python/asyncio backend (`src/src`) on one SQLite database, a host process
that deploys (`src/supervisor`), a React frontend, an MCP server and a model
proxy. The development image runs one backend process, the production image
two (`Dockerfile.backend:70`), both on the same database.

Four things make the code hard to test and worth modelling:

* every `await` is a point where any other coroutine of the process, and at any
  time the other process, runs; rows are read, kept over awaits (an agent's
  answer takes minutes) and written back whole;
* coroutines are cancelled at any await, and processes die with everything
  that lives in memory only; the supervisor is restarted between its steps;
* gates decide on artifacts that survive from cycle to cycle, while stages are
  jumped over, repeated and skipped;
* outside services (GitHub, Jira, Confluence, webhooks, model providers) time
  out after having done what they were asked, or before.

This directory holds the models, the TLC configurations that check them, and
proofs of the main theorems. `PROJECT.json` lists components, runs, mutants,
the source lines of every definition, hazards, findings and theorems.

## 1. Inventory

Line numbers are in PROJECT.json ("map", "hazards"). *State* is what survives
between steps; *hard* is what a test would hardly reach; the last column is
what makes the component correct and, in brackets, the module that models it.

| component | state | operations and partners | hard | correct when |
|---|---|---|---|---|
| Approval gate (`routes/proposals.py`, `core/proposal_*.py`, `core/in_process_gate.py`) | `proposals` rows, approval tokens, tasks in flight | create (route, in-process), confirm, reject, approve by token, auto-approve, execute, record, expire, reconcile at start-up; handlers dispatch tasks, write lessons, request rollbacks | decisions race decisions, sweeper and restarts; crash between decision and outcome; several processes | an action runs at most once and only if decided by whom policy says; settled means settled; everything settles [ProposalGate, GateContract] |
| Workflow runner (`workflows/runner.py`, `config/workflows.yaml`) | stage index, artifacts, rework counter, materialised files | stages, three gates, rework jumps, materialise, commit, escalation, verdict; calls executor, code writer, publisher | stale artifacts after a jump, older files laid over newer ones, one budget for three gates, failing agents | no objection ships; what ships is what was on disk when it was vetted; the budget bounds it; every run ends [WorkflowRunner] |
| Request lifecycle (`core/orchestrator.py`, `routes/requests.py`, `core/project_task_status.py`) | `requests`, `subtasks`, `project_tasks`; background tasks in memory | submit, run, record commit, verdict, cancel, delete, status event | whole-row writes of stale objects; writes that fail; cancellation at any await; other process; crash | cancelled stays cancelled; a deleted one is left alone; row, task, subtasks and repository agree; everything settles [RequestLifecycle] |
| Task dispatch (build routes of `projects.py`, `core/auto_dispatch.py`, `core/build_chat.py`, `core/proposal_handlers.py`) | task status, request id, dependencies | batch, scope, all ready, chat, cascade on completion, proposal; cancel by chat | check, submit and stamp over awaits in five entry points | one live request per task; nothing before what it depends on; the cascade, where it is switched on, reaches every task [TaskDispatch] |
| Documents (`projects.py`: brief, PRD, API specification) | artifact rows with versions | generate, patch, finalize, delete | generation of minutes meets edits, finalizations, deletions | one finalized version; finalized work is kept [Documents] |
| Build plan (`projects.py`: epics, features, tasks) | rows per level, versions | generate per level or flat, migrate, finalize, reopen, archive, reset | levels generated side by side; rows inserted one by one before the look at the graph; purge of what was listed earlier | no cycle but through unchecked rows; started work is kept [BuildPlan] |
| Projects (`projects.py`, `sqlite_store.py`) | rows, ports, repositories, trees | create, update, archive, backfill, delete | ports read and inserted apart; late writes of old rows; addresses typed by users | nothing shared that nobody typed; deleted stays deleted [ProjectAdmin] |
| Project deploy and stop (`deploy_supervisor.py`, `core/project_deploy_judge.py`) | deploy columns, `deploy_decisions` | judge, apply, override, deploy, stop; supervisor runs compose | routes and supervisor write one column; a verdict older than the commits it is applied to | a request does not stay pending; a decision is never rewritten [ProjectDeploy] |
| Platform deploy (`deploy_supervisor.py`, `tools/deploy_tools.py`, `tools/github_publisher.py`) | `deployment_states`, git clones | publish, poll, build, staging, dev, roll back, sweep at start; a tool waits for the outcome | restart between two steps; publisher and supervisor both push | main only grows; a revert takes back its own commit; what was reported stays true; deployments end [PlatformDeploy] |
| Ops heal (`core/ops_heal_handler.py`, `tools/auto_rollback.py`, `tools/anomaly_detect.py`) | probes, in-flight set, rollback requests | probe, sweep, judge, propose or queue | two time formats, sample limits, duplicate events | an outage is noticed; a second rollback is not queued beside a pending one [OpsHeal] |
| Code writer (`core/code_writer.py`, `core/orchestrator.py`) | working tree, outputs of all cycles | agents write, materialise, pick up, push | files of several cycles and agents in one push | what is pushed is what was reviewed, and the latest version [CodeWriter] |
| Agent execution, client pool, model resolution (`agents/*.py`) | one object per agent id, clients, overrides | resolve, ground, ask, tools, retries, reload | concurrent invocations of one object, which holds root, knowledge scope and grounding | model, root and knowledge belong to the call [AgentLoop] |
| Events and push bridge (`core/events.py`, `core/push_bridge.py`) | handlers, client queues, bounded buffer | emit, subscribe, forward with tries, stop | full buffer, cancelled emits, lost answers | every payload has a fate [EventDelivery] |
| Knowledge base (`knowledge/*.py`) | documents, chunks, buckets, cache, episodes, candidates | ingest, approve, retire, retrieve, re-index; capture, consolidate, promote, forget | sequences of transactions, a cache of answers, two workers' jobs | only vetted text of the namespace asked for is handed out; folding loses nothing [KnowledgeBase, KnowledgeMemory] |
| Prompt studio (`routes/prompts.py`) | sessions, variants | generate, refine, select | overlapping refinements | one answer per iteration [PromptStudio] |
| Self-learning (`core/self_learning_trigger.py`, `tools/lessons_writer.py`, `routes/lessons.py`) | two lesson files | trigger, draft, approve, reject | files read and written whole, crash between them | no lesson is lost [Lessons] |
| Integrations (`integrations/*.py`) | mappings; remote issues, pages, projects | push epic, feature, document | answers lost, objects deleted, keys kept | one object each [Integrations] |
| Request records (`core/orchestrator.py`) | stories, criteria, test cases, published files | parse and store answers row by row | rows of two requests under one id | what was emitted is stored [RequestRecords] |
| Token tracker (`core/token_tracker.py`, `routes/cost.py`) | `token_usage` | record, attribute, purge, delete | rows that belong to nothing | spend stays on its account [CostLedger] |
| State store (`state/sqlite_store.py`) | all tables | SQL | conditions in WHERE clauses, missing ones | inside the actions of the modules above |
| Scanners, authentication, audit and metrics, configuration, MCP server and proxy, frontend | see section 7 | | mostly I/O, texts or views | not modelled |

## 2. The modules

Two conventions hold everywhere. One action is what runs between two awaits on
the database, an agent or a service: nothing else runs in between, so an action
takes everything the handler does there, and a coroutine that has read
something keeps it in a record (`call[c]`, `seen[r]`, `loop[d]`, `job[w]`) until it writes it back.
And a definition marked `Mutant:` is not part of the specification: it is a
plausible bug in the definition beside it (section 4).

### Core

**ProposalGate.** One variable per column of the `proposals` table that a decision
depends on; `effects` counts how often a handler applied an action. A *slot* of a
worker holds one HTTP request, in-process call or background task; its `pc`
names the await it is at, and one SQL statement is one action. `Create .. Insert`
is `create_proposal` / `submit_gated_action`; `Decide` and `Approve` the
confirm, reject and token routes; `SpendToken`, `Load`, `Validate`, `Cas`,
`Execute`, `Handler*`, `Record` the common path behind them; `SweepScan` and
`SweepOne` the expiry loop with its stale list; `Crash`, `Boot`, `ReconcileOne`,
`Serve` a worker's death and start-up pass. `GateContract` is what a caller may
rely on: an item is proposed, refused or approved, takes effect at most once
while approved, and is closed for good; ProposalGate implements it under the
mapping `Contract`. Abstracted: payloads, audit rows, time (a proposal may be
swept at any moment).

**WorkflowRunner.** `at` and `phase` are the loop of `WorkflowRunner.run`;
`waiting`/`answers` a stage whose agents answer in any order; `artifacts` the
newest report per agent; `rework`, `escalated` the shared budget.
`ReworkCommit`, `ReworkSecurity`, `ReworkTesting` are the three copies of the
jump-back code with their different targets and fall-throughs. `Materialize`
and `Commit` are the orchestrator's system steps, `Settle` its verdict. `builds`
numbers the times the coders were set to work; `built` is what their texts of
*all* cycles come to after the last of them, `disk` what was materialised and
`shipped` what was committed. `built` need not be the newest code: both system steps
write the whole files of earlier cycles again, over what a later cycle edited on
disk. How the texts of several cycles add up is CodeWriter's matter, and that the
result can be an older version is its `LatestVersionWins` (section 6). A report
is what the gate's parser makes of a text: *approve*, *object* or *silent*; the
parsers let silence and absence pass, and so does the model. Only the
code-writing workflows are modelled.

**RequestLifecycle.** Each coroutine keeps the row it read and writes the whole
row back (`Update`), as `update_request` does. `home` is the worker whose memory
holds the background task; `Kill` finds it only there. `Emit` is the status event
whose handler copies the status to the project task. The stages of a run are
reduced to agents that set and clear subtasks, a commit and an end. `Raise` may come
after any step of a run, the commit included; it writes back the object that
`submit()` created. `RecordCommit` stores the commit in the row, which `noted`
remembers; `DropCommit` is the write that fails and is logged, after which the run
goes on. (A write that fails inside the exception path itself is not modelled.)
Requests are deleted through their own route here; deleting a *project* with
`cascade=true` (`projects.py:698-704`) takes its requests in any state and is
not a step of this module, so `NoWorkAfterDelete` speaks of the request route. `Begin` waits
until the submission is answered: `_run_workflow` sleeps half a second "to let
the API response return first"; `Early = FALSE` assumes the same of clients.

**TaskDispatch.** `status`, `requestOf` are the task's row, `record`, `source` the
request's, `loop` the dispatch loop of each call and of each cascade.
`CallBatch`/`CheckBatch`, `CallScope`, `CallAllReady`, `CallChat`,
`Cascade`/`Filter`, `CallProposal` are the entry points with their different
looks at the task; `Create`, `Announce`, `Stamp` the steps of `submit()` and
the stamp behind them; `Begin`, `End`, `Tell`, `CancelRequest` the request's
coroutine and its events, a summary of RequestLifecycle. `Skip` is a cascade that ends without dispatching:
the project's `auto_dispatch_on_deploy` is off, as it is by default
(`auto_dispatch.py:92-93`), or a look-up failed and was logged. `CascadeReaches`
is about the others. `astray` marks the
tasks the chat cancelled behind a running workflow or a stale proposal
dispatched again: nothing is promised for those.

### What runs and must end

**ProjectDeploy.** `deploy` is the project's row; `judge[u]` a user's call between its
read and its write; `supervisor` the step and the action it read. `GetJudge` ..
`Override` is the recommendation with its settlement: a settled one is never
rewritten, but it is applied to whatever has been committed by then
(`CommitsAreJudged`, section 6). `Supervises` is the
disjunction of the supervisor's steps, `Kill` its restart.

**PlatformDeploy.** `origin` and `local` are main on GitHub and in the host's clone,
as sequences of commits, a revert of `r` being `-r`. `ReadRef`, `PatchRef`,
`Record` publish; the supervisor mirrors, judges, builds, stages, goes live,
reverts and rebuilds; `Boot` sweeps what was in flight; `Raise` is an exception
its loop swallows; `Wait` the devops specialist's tool. The revert that is skipped when
a row lacks `rollback_sha` or `commit_sha` (`deploy_supervisor.py:381`) has no step: the
rows the supervisor works off carry both (`code_writer.py:517-525`), and the only
ones without are stored as failed (537-542).

**OpsHeal.** `probes` holds the results of the last hour, minute by minute ("none" is
a minute without a probe), with the windows, the least numbers of samples and
the weight of a failure (`PerFailure`: one failure in fifteen probes breaches a target of 0.99, not
development's 0.90) as constants. `writer` says who stamped them, because stamps with
an offset from UTC raise where they are compared. On a running platform that is
always the supervisor; the store's own insert is called by tests only. The sweep
therefore raises whenever there is something to judge (`OutageIsNoticed`, section 6), and what lies
behind it, handler and verdict, is reached with the tests' stamps only, or with
too few samples; the rollback tool is also called by agents and operators. `Sweep`, `JudgeSlo`, `Propose`, `Confirm`,
`Look`, `Verify`, `Queue` are sweeper, handler and tool, governed or not.

**EventDelivery.** `emits[k]` is the list of handlers an emit has still to run; the
bridge's `buffer` is bounded; `Take`/`Posts` its worker with tries; an answer
may be lost after the webhook has accepted.

### What is written

**Documents**, **BuildPlan**, **ProjectAdmin**: a route's call with what it has read
(`call`, `gen`, `admin`), the rows, and one action per route and await. In BuildPlan an
answer holds any number of tasks, each with dependencies of its own among the
tasks the agent was shown and those of its list; `unchecked` are the rows of an
answer whose INSERTs, check or deletions failed part way (`LoseCheck`). In
ProjectAdmin `typed` are the repository addresses users pasted or patched in, which
nobody compares.
**CodeWriter**: `outputs` the agents' texts as files with change numbers,
`bundle` what materialisation collected, `Materialize` with the snapshot guard
and the pick-up of edited files, `Gates` the rework, `Commit` the push.
**AgentLoop**: one agent object (`root`, which stands for the project root and the
knowledge scope, stored together, and `grounding`, the project whose knowledge was
last retrieved into it) and its invocations
(`agentCall`), `Resolve` with the five layers, `Attempt`, `Retries`, `UseTool`;
assignments and reloads in between. **KnowledgeBase**: `doc` with status and
chunks, `job` an ingestion between its transactions, `look` and `cache` a
retrieval. **KnowledgeMemory**: episodes, the fold of each worker, promotion,
retention and forgetting. **PromptStudio**, **Lessons**, **Integrations**,
**RequestRecords**, **CostLedger**: the remaining read-then-write protocols, each
with the history variable its property needs (`queued`, `excused`, `emitted`,
`gone`, `touched`, `told`).

### Compositions

`Platform` (RequestLifecycle, ProjectDeploy, PlatformDeploy, OpsHeal,
EventDelivery) and `Authoring` (the twelve modules of the previous paragraph) put
components *side by side*. In the abstraction chosen the parts share
no variable (what one uses of another is in its own module: PlatformDeploy has the
publisher, OpsHeal the proposal, TaskDispatch the request), so interleaving them
would only multiply states. The initial state picks the `part` that moves, the
others keep their initial state, and every property is checked in every part.
The state space is the sum of the parts', each of which is explored in full.
Joint properties (`RollbacksAreSound`, `DeploysEnd`, `VersionsInOrder`,
`RecordsAreKept`, `WorkIsKept`) are conjunctions of what the parts' modules state
and explain. KnowledgeBase takes the namespace a search carries as its input;
whose namespace a call carries is read from the shared agent object and is
AgentLoop's matter (`KnowledgeStaysInProject`, section 6).

`Authoring` extends `Planning` (Documents, BuildPlan, ProjectAdmin, PromptStudio,
Integrations: what users plan) and `Making` (CodeWriter, AgentLoop,
KnowledgeBase, KnowledgeMemory, Lessons, RequestRecords, CostLedger: what agents
work with), which declare the variables, instantiate the components and state the
assumptions on the constants. `Platform` does the same for its five.
`MCPlatform` only gives the constants their values, so the specification the
proofs are about is the one TLC checks. `MCAuthoring` does too, and takes fewer
steps of the plan's part (`MCSpec`, section 3): TLC checks that part on a subset of
the behaviours the proofs are about.

## 3. Runs

| run | instance | distinct states | shows |
|---|---|---|---|
| `gate_one_worker` | 1 worker, 2 slots, 1 proposal, both action types, 2 crashes | 40,823 | type, human gate, finality of settled proposals, the contract, and that every proposal settles |
| `gate_two_workers` | 2 workers, 1 slot each, 2 proposals, 1 key, 1 crash, symmetry | 2,988,094 | an action once, refused never runs, one effect per idempotency key |
| `gate_reconcile` | 2 workers, 1 crash | violation | finding 1 |
| `runner_feature` | feature_development, 2 coders, reviewer, tester, security, budget 2 | 313,917 | no objection ships, what ships was on disk when it was vetted, escalation stops, completed is clean, every run ends |
| `runner_bug_fix` | bug_fix, same agents | violation | finding 2 |
| `runner_approved` | feature_development | violation | finding 3 |
| `lifecycle_two_workers` | 2 workers, 1 request, 2 clients | violation | finding 4 |
| `dispatch_serial` | 3 tasks in a triangle, 2 requests, 1 user, cascades, loops one at a time | 219,923 | one live request per task, dependencies first, rows follow requests, the cascade reaches every task unless it is skipped |
| `dispatch_overlap` | the same, 2 users, loops overlap | violation | finding 5 |
| `running_parts` | Platform: lifecycle (1 worker, 1 crash, 1 request, 2 clients); a project's deployment (2 users, 3 calls, 2 commits, 1 restart); platform deployment (2 requests; 1 restart, exception and lost call each); ops heal; 3 events, buffer 1 | 140,068 | cancellation, deletion and agreement of row, task, subtasks, repository; rollbacks sound; history and decisions kept; deployments, requests and events end |
| `written_parts` | Authoring: twelve instances, symmetry in callers; the plan's part cut by `MCNext` | 1,035,891 | what is finalized, started, approved, queued, emitted, spent or pushed is kept, and kept apart |
| `tools_in_project` | one agent, 2 invocations, 1 project | violation | finding 6 |

**Bounds.** The bounds are the sizes of the sets and the constants `Max...`,
`Strays`, `Generations`, and none of them is the code's own except the ones named
below. No state constraint is used; the plan's part alone is cut by its next-state
relation (see *Written parts*).

* *Gate*: proposals share nothing but keys and the policy, so one suffices for the
  properties of one proposal and two for those about a key; two concurrent
  requests are what a compare-and-set race needs, and the same race across
  processes is the two-worker run, where either worker may crash and reconcile
  while the other executes. In the one-worker run the second crash hits the
  reconciliation of the first.
* *Runner*: `MaxRework = 2` (3 in the code) gives a cycle after a cycle and an
  exhausted budget; `Skipped` has one stage so that skipping happens; every agent
  may fail, object, approve or say nothing in every cycle.
* *Lifecycle*: requests share nothing but the crash of their worker, so one is
  enough; two clients give two cancels, a cancel and a delete, two deletes.
* *Dispatch*: the triangle has a task that waits for two others, one of which
  waits for the third; two requests let a task be retried, or two tasks run;
  `Strays` bounds the tasks the chat cancels.
* *Deployments*: two requests let one be published while the other is rolled
  back; one restart or exception may hit any step, and the sweep behind it.
* *Ops*: the windows are scaled (an hour is 4 minutes, 15 minutes 3, 5 minutes 2)
  with the code's order of the windows kept; two samples are the least the current
  window, the target and the rollback's verification need, and one failure
  outweighs one probe but not two.
* *Written parts*: in most modules two callers overlap, and a third call or a crash
  finds what they left. The plan's part is cut in two by `MCNext` (every step of it
  is one of `Authoring`'s; the theorems are about all of them). First one generator
  at a time, on one feature and two tasks, beside users who finalize, reopen, delete
  and reset under it, no check lost. Then two generators over the tasks of two
  features side by side, three tasks with any dependencies, an answer that fails
  half way or loses its check, no users: enough for a cycle within an answer, a task
  of another answer that rests on it, and two checks that race. The code writer has
  one agent (two on one file are covered by the proof only); the knowledge base has
  one document and one ingestion beside its readers, the self-learning one process.
  Two versions, two projects of one port range and one name, two episodes that fold
  and one that is private, two requests that use one story number. In `Integrations`
  two projects shorten to one key and both documents have the same title; a key has
  two spares.

`CHECK_DEADLOCK FALSE` is set where the system really may stop: a run that is over,
a request nobody touches any more, a store nobody writes. The gate runs check
deadlock.

**Fairness.** What is assumed is that an asyncio coroutine that can go on is
scheduled, that database calls return and that agent calls end (the executor has
timeouts): weak fairness of the steps of requests in flight, of the gate's sweeper
and start-up, of the runner, of dispatch loops, of the bridge's worker, whose posts
have a timeout; and of the supervisor's loop (`Supervises`), which never returns.
Nobody has to create, decide, cancel, deploy, stop or confirm, and no crash, loss or
exception is ever forced. Ops heal has none: nothing checked of it is a liveness
property. Strong fairness appears twice: `Fetch` of RequestLifecycle, the end of a
run, competes with starting another agent (that a run does end is `EveryRunEnds`,
with weak fairness only), and the cascade of TaskDispatch (`Cascade`, `Filter` or
`Skip`) may have to wait for the other loops when they are assumed not to overlap.

## 4. Mutants

For every property of a passing run PROJECT.json names a definition and a mutated
one beside it, a bug such as an unconditional UPDATE, a forgotten increment or a
cancel that does not cancel, under which TLC finds the property violated. Joint
properties have one mutant there; the modules hold further ones, each of which
violates another conjunct: `AgentFailsLatest` (FinalizedIsKept),
`TasksWithoutAny` (StartedWorkIsKept), `LookInFlight` (OneRollbackPerEnv),
`RevertHead` (RevertsItsOwn), `PatchRefForced` and `PushForced` (HistoryIsKept),
`PollDeploysOnly` (PendingEnds), `SupersedeAll` and `MarkAnyStatus`
(DecisionsAreFinal), `BackfillAnyRepo` (ProjectsAreApart).

## 5. Proofs

All theorems hold for every value of the constants that the named assumptions
allow. Where a property is checked through a composition, the theorem is about
the composition.

**ProposalGateProofs.** `TypeInv` adds to the types what a request must carry at
each program point. `GateInv` is the ownership argument: each request past its
compare-and-set owns its proposal, an effect exists only where an owner or a
settled status explains it, and two owners exclude each other; it implies
`AtMostOnce` and `RefusedNeverRuns` for any number of workers, crashes and
proposals. `SettledIsIdle`, `TerminalIsFinal` and the refinement `GateContract`
are false with two workers (`gate_reconcile`); they are proved under `OneWorker`
with `SoloInv`: a worker that is not up runs nothing, only a starting one holds
rows to reconcile, and whoever executes a proposal finds it confirmed. `PolicyInv`
carries who decided, and gives `HumanGate` for any number of workers. `OncePerKey`
needs only that an id has no key before its INSERT (`KeyInv`).

**WorkflowRunnerProofs.** `OrderAssumption` (in WorkflowRunner, evaluated by TLC on
both workflows) says what the code-writing workflows have in common: one coding
stage, commit behind every stage that can send the run back, deployment behind
the commit. From it, for any stages, crews and budget: `EscalationStops` (by
`EscInv`: a gate that escalates stands before commit and deployment) and
`ReworkIsBounded` (by `BuildInv`: while the coding stage lies ahead, every build
so far is paid for). `WellGated` says that the gates see everybody: it holds of
feature_development (TLC evaluates it: `FeatureIsGated`) and not of bug_fix, whose
violation is the run `runner_bug_fix`. Under it: `NoObjectionShips` and
`CompletedIsClean` (by `ObjectionInv`: the artifacts, once merged, are the newest
reports, and a standing objection keeps the run before its gate) and
`ShipsWhatWasVetted` (by `DiskInv`: outside development, what the coders' texts of all
cycles come to is on disk, and every report was made about that). It says that
nothing else than what was vetted ships, not that the newest code does (`LatestVersionWins`, section 6).

**RequestLifecycleProofs.** Under `OneWorkerCalm` (one worker, clients know a request
from its answer): `FlowInv` (an ended request has no working coroutine, and
nothing about to be written back is an end), `CallInv` (a cancellation past its
kill has no coroutine against it) and `RecordInv` (until the run raises or is cancelled
the row names a commit exactly if the commit handler wrote one there, and the row read
for the verdict is not older than that) are inductive together and give `NoWorkAfterDelete`,
`RecordMatches` (of completed requests: of one that raised it is false, `RecordIsKept` in section 6, and a
commit whose write failed is in no row) and the action property `CancelledStays` for any number of
requests, clients and crashes. The two-worker run shows that the assumption is
needed. `TaskInv` adds that a request which ended without its task being told has
somebody left to tell it (the closing coroutine, a cancellation or nobody after a
crash), and gives `TaskAgrees`. `NothingSpins` needs no assumption: `SpinInv` says
that a subtask is in progress only inside its agent call, between a kill and the
mark that follows it, or after a crash.

**TaskDispatchProofs.** Under `OneAtATime` (dispatch loops do not overlap; the run
`dispatch_overlap` shows that it is needed): the types, `OneLiveRequest`,
`DependenciesFirst` and `TaskFollowsRequest`, for any dependency graph, number of
requests and callers. `OneLiveRequest` is not
inductive, because a loop dispatches what it read when it started. The
strengthening `IInv` says that a request counts as busy from its INSERT until its
end was told, that a busy request shows in its task's row unless its own loop is
about to write it there (`Shown`), and that the tasks a loop has still to do have
no busy request (`Free`). `RowInv` is about the rows: what a loop has still to do is
unclaimed (`Open`) and, where the loop looked when it started, stands on deployed
tasks (`Ready`); since a deployed task is never dispatched again, except by a stale
proposal, a dependency found deployed stays so until the request that builds on it
has ended (`Built`). A task without a busy request shows how the request its row
names ended (`Settled`), which needs that a row never names another task's request
(`Owned`) and that a busy one is named from its stamp on (`Named`).

**PlatformProofs.** The types of all five parts and `RollbacksAreSound`, for any
number of requests, restarts, exceptions, lost calls, probes and callers, of
`PlatformSafety`, which is `PlatformSpec` without its fairness. `HostInv` ties each
step of the supervisor to the status of its row, says that rows still to do are
on GitHub and not begun, and that the host's clone, too, has every revert right
behind its commit. `OpsInv` counts: the rollbacks that are queued and the callers
that have looked and not yet inserted are together no more than the callers, and
without an overlap there is one such caller or one rollback, never both.
`ProjectInv` needs little beside the types: what a call of the routes may still
write goes with what it is about to do. `RecordsStay` are the halves of
`DeploysEnd` that are no liveness: a settled recommendation is never rewritten, what it
was judged up to never changes, and main on GitHub only grows. That a recommendation is
applied only to the commits it was made for is not among them: it is false
(`CommitsAreJudged`, section 6).
`RequestsAreKept` carries the theorems about a request's life over to the composition
(every step of `Platform` is one of `RequestLifecycle` or leaves its variables alone).

**PlanningProofs**, **MakingProofs** hold one inductive invariant per part of
Authoring, with a lemma per action that keeps it; **AuthoringProofs** composes
them: `PartSteps` says that a step of Authoring is a step of each part or leaves
its variables alone. All invariants and the action property that the run
`written_parts` checks are theorems of `Spec`:

* `TypesHold`: the types of all twelve parts (`TypeOK`).
* `VersionsInOrderHolds`: `DocInv` (rows are used in the order of their ids, the
  version a call is about to insert fits every free row, and a row it holds is of
  its kind) and `StudioInv` (an iteration has a first variant, what a call refines
  is of an earlier iteration, and a call that has inserted made the first variant
  of its own).
* `PlanIsBuildableHolds`: a cycle is a nonempty set in which everything waits for
  something of the set. `StuckIsChecked` says that in each such set of live tasks
  some generation that has still to check its list has put a stuck part of it in, or
  one of the tasks is a row whose check was lost: what is inserted depends only on
  older tasks or on its own list. (That the lost ones stay is `CyclesAreNotKept`, section 6.)
* `ProjectsAreApartHolds`: calls in progress carry rows that they write later; the
  strengthening says who may still hold a repository nobody typed: the project it was
  made for, calls about that project, or the one creation that has not inserted yet.
* `PushedIsReviewedHolds`: `CodeInv` says that what an output lists is on the disk,
  that each cycle adds one output per agent (which bounds the changes), and that
  from the gates on the bundle is all that was touched, as it is on the disk. What
  one materialisation writes is a recursive function over the outputs (`After`);
  `WrittenFacts` shows by induction on their number that its map agrees with the
  disk and holds exactly the files of the blocks so far, unless one was refused.
* `ModelStaysWithCallHolds`: nobody has been asked before the model is resolved.
* `HandedIsVettedHolds`: every answer that may still be handed out, from the cache
  or a retrieval under way, fits the namespace that was asked for, and a document is approved only
  through one of the doors that vet it.
* `OneObjectEachHolds`: a page is found by its title before one is made, whatever was
  lost or overlapped, so a document has one live page without exception. An issue is
  known by its record only: unless excused (two pushes overlapped, or an answer was
  lost), an item has one push under way, the object the push knows of is the one
  recorded, and an object without a record belongs to a push about to record it.
* `RecordsAreKeptHolds`: what a worker is about to expire is in a stored summary
  (`FoldsAreSummed`); what an answer being stored names has its story; a call is on
  its project's account at the latest when the project was looked up. The lessons
  need `OneProcess(w)`, that one process reads and writes the two files: the code
  has one orchestrator do it and takes no lock. (With two, a queued lesson can be
  overwritten; section 6.) The bound on processes is an assumption of this theorem
  only.
* `WorkIsKeptHolds`: the action properties `FinalizedIsKept`, `StartedWorkIsKept` and
  `DeletedStays`, each from the invariant of its part. `StartedWorkIsKept` excuses
  what a check deletes as well as what a purge does: proving it showed that
  the check after an insertion also takes a task a user has started meanwhile.

**Assumptions.** Beside the ones named above: `NullAssumption` and
`NobodyAssumption` (the model values that stand for None are no rows or ids),
`SpacesAssumption`, `BoundsAssumption` and `PlatformBounds` (bounds are naturals),
`ItemsAssumption`, `AccountAssumption` and the like (where a function given as a
constant is defined), `BuildsAssumption` (platform requests are positive numbers,
since a revert of `r` is written `-r`), `OperatorsAssumption` (finitely many callers
confirm proposals). TLC evaluates all of them in the runs.

**Induction.** The library's induction theorems take an operator as a parameter and
cannot be used. Where a proof has to induct it does so over sets of naturals: one
that is not empty has a least member (`LeastMember`, `LeastNatural`, from `WFMin` and
`NatLessThanWellFounded`), hence one that holds 0 and every successor holds all
(`NatSetInduction`). That is enough for the latest version of a document and for
recursive functions on naturals such as `After`, which is why CodeWriter writes
its fold over the outputs as one; a RECURSIVE operator could not be reasoned about.

**Model-checked only.** Liveness is out of the prover's reach: `EveryProposalSettles`,
`EveryRunEnds`, `EveryRequestSettles`, `CascadeReaches`,
`EveryPayloadHasAFate` and the liveness half of `DeploysEnd`. All invariants and
safety action properties of the passing runs are proved, under the assumptions named.

## 6. Findings

1. Start-up reconciliation assumes it is the only process (`gate_reconcile`).
2. bug_fix commits against objections: the combined gate is tied to the stage
   name "testing" (`runner_bug_fix`).
3. Silence passes as approval, against "runs only when both pass" (`runner_approved`).
4. Cancel is local to a process; delete after such a cancel removes rows under a
   live workflow (`lifecycle_two_workers`).
5. Two dispatches that overlap submit two requests for one task, against
   "idempotent" (`dispatch_overlap`).
6. The project root is stored on the shared agent object, and so are the knowledge
   scope and the grounding text: a second invocation moves the first one's tools into
   its own tree (`tools_in_project`), has it search another application's namespace and
   puts that application's text into its prompt (`KnowledgeStaysInProject`, below).

Further promises of the code are stated in the modules, beside the properties that
hold, and are *not* kept by it. No run checks them; TLC refutes each in a few seconds
on its module alone (`Spec`, for `OutageIsNoticed` `FairSpec`, with two of everything):

* `KnowledgeStaysInProject` (AgentLoop): the agent "cannot widen what the Request
  granted" (`tools.py:7-14`); scope and grounding are stored on the agent object
  (`base.py:162`, `165`) and read at every attempt (`410`, `843`).
* `LatestVersionWins` (CodeWriter): "latest emitted version wins"
  (`orchestrator.py:901`); every materialisation writes the whole files of all
  earlier cycles again, over what later cycles edited on disk.
* `RecordIsKept` (RequestLifecycle): "don't overwrite fields that handlers ... may have
  persisted" (`orchestrator.py:479`); the exception path (533-536) writes the object
  of the submission over the row, which loses the commit.
* `CommitsAreJudged` (ProjectDeploy): skip is to advance the baseline "to the
  decision's to_commit_sha" (`projects.py:1021`); it moves to the time of the click
  (1083-1087), and commits made since the judgement are neither deployed nor judged.
* `OutageIsNoticed` (OpsHeal): "close the AE-1 ops loop" (`ops_heal_handler.py:3`); the
  supervisor's stamps carry an offset from UTC (`deploy_supervisor.py:1204`), so every
  sweep that has something to compare raises, and nobody is told.
* `CyclesAreNotKept` (BuildPlan): "Persists tasks ONLY if the resulting graph has no
  cycles" (`projects.py:5503`); the rows go in first (5686), and a failure before the
  look at the graph (5688) leaves them.
* `PastedRepoIsSkipped` (ProjectAdmin): the scaffold's push is "skipped" when the user
  pasted an address (`projects.py:408`); it goes there (269, 412).
* `LegacyIsKept` (BuildPlan): `decompose_legacy_tasks` promises that legacy tasks live
  on (`projects.py:4222`); the generation that follows purges unstarted tasks
  without a feature (`projects.py:5561`).
* `DeleteIsWhole` (ProjectAdmin): a cascade delete removes the requests first and
  then fails on the foreign key of `deploy_decisions` (`projects.py:639`).
* `OutcomeIsFinal` (PlatformDeploy): "once current_step is one of these, no further
  state transitions will happen" (`deploy_tools.py:118`); failed becomes
  rolled_back.

Hazards met while reading that no property covers and that are not among those
of PROJECT.json: the verdict parsers look for substrings that overlap ("NOT
APPROVED", `runner.py:843`); `policy_check` is given texts under keys no agent
result has (`runner.py:587`); a subtask that failed in an early cycle and was
redone still makes the request failed (`orchestrator.py:511`); a request deleted
before its terminal event is handled leaves its task in progress
(`requests.py:475`); a failure between `submit()` and the stamp leaves a request no
task points to (`projects.py:3281`); two workers' approvals can overwrite each
other's lesson file; test cases are keyed by the tester's number alone
(`sqlite_store.py:1398`); the client pool remembers a failed client across reloads;
cached knowledge answers live until their time is over.

## 7. Not modelled

* *Scanners and policy checks*: subprocesses and text matching; their verdict is one of
  the reports of WorkflowRunner.
* *Authentication, service tokens, middleware*: checks of single rows; the gate's
  approval tokens are modelled with the gate.
* *Gate audit, metrics, governance*: append-only records and reports read by people;
  which mode a proposal is created under is an input of the modules.
* *Configuration loader and validator*: parsing at start-up; the shape of the two
  code-writing workflows is data of MCWorkflowRunner.
* *MCP server, model proxy, React frontend*: stateless forwarding and a view that
  polls; their clicks are the callers of the modules.
* *Parts of modelled components*: the research workflow's publish stage; the
  notification service (formats only); `pipeline_service` and `budget.py`
  (no route or start-up code uses them); the `github` package (thin calls only
  its own tests combine); the texts of council and releases; chunking, embedding
  and ranking of the knowledge base; `push_task` and the status handler of the
  integrations (nothing calls the first, so the second finds no mapping).
* *Deleting a project with its requests* (`cascade=true`): ProjectAdmin has the route's
  steps, RequestLifecycle not what they do to the requests, in whatever state these are.
* *Everywhere*: the contents of texts, validation, wording and layout, wall-clock time
  (a timeout is a step that may happen), and SQL statements that fail where the
  code has no path for it.
