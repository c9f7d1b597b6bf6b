------------------------------ MODULE BuildPlan ------------------------------
(***************************************************************************)
(* The plan of one project: epics, the features under them, and tasks.     *)
(*                                                                         *)
(* Each level is generated by an agent: the route looks at what is there,  *)
(* deletes the drafts it will replace, asks the agent for minutes, and     *)
(* inserts the answer.  Rows are finalized level by level or as lists of   *)
(* one version, reopened, archived and deleted by hand meanwhile, and      *)
(* finalized tasks are worked on (TaskDispatch).  The PRD and the API      *)
(* specification are finalized (Documents); titles, texts and the markdown *)
(* files rendered from the rows are left out.                              *)
(***************************************************************************)
EXTENDS Naturals, FiniteSets

CONSTANTS
  MaxEpics, MaxFeatures, MaxTasks,  \* bounds on the rows ever made, which number their ids
  MaxLeft,                          \* bound on the rows left without their check
  Planners,                         \* concurrent calls of the generators
  MayDecompose                      \* whether the migration of a flat list is used

Epics == 1..MaxEpics
Features == 1..MaxFeatures
Tasks == 1..MaxTasks
ListStatus == {"absent", "draft", "finalized", "archived"}

VARIABLES
  epic, feature, task,  \* the rows; version 0 of a row that was never made
  gen,                  \* where each generator is, and what it has read
  legacy,               \* history: unstarted tasks a migration found without a feature
  unchecked             \* history: rows of an answer that failed between insertion and check

planVars == <<epic, feature, task, gen, legacy, unchecked>>

NoGen == [at |-> "idle", op |-> "flat", of |-> 0, version |-> 0, doomed |-> {}, kin |-> {},
          todo |-> {}, whole |-> FALSE]

EpicRow == [status: ListStatus, version: Nat]
FeatureRow == [status: ListStatus, version: Nat, epic: Epics \cup {0}]
TaskRow == [status: ListStatus, version: Nat, feature: Features \cup {0},
            progress: {"backlog", "started", "deployed"}, deps: SUBSET Tasks]
Generator == [at: {"idle", "purge", "ask", "seal", "check", "next", "delete"},
              op: {"flat", "epics", "features", "tasks"},
              of: Epics \cup Features \cup Tasks \cup {0}, version: Nat,
              doomed: SUBSET Tasks, kin: SUBSET Tasks,
              todo: SUBSET (Epics \cup Features), whole: BOOLEAN]

TypeOK ==
  /\ epic \in [Epics -> EpicRow] /\ feature \in [Features -> FeatureRow] /\ task \in [Tasks -> TaskRow]
  /\ gen \in [Planners -> Generator] /\ legacy \subseteq Tasks /\ unchecked \subseteq Tasks

Init ==
  /\ epic = [e \in Epics |-> [status |-> "absent", version |-> 0]]
  /\ feature = [f \in Features |-> [status |-> "absent", version |-> 0, epic |-> 0]]
  /\ task = [t \in Tasks |-> [status |-> "absent", version |-> 0, feature |-> 0,
                              progress |-> "backlog", deps |-> {}]]
  /\ gen = [c \in Planners |-> NoGen]
  /\ legacy = {} /\ unchecked = {}

Top(S) == IF S = {} THEN 0 ELSE CHOOSE n \in S : \A m \in S : m <= n
Live(rows) == {i \in DOMAIN rows : rows[i].status # "absent"}
Having(rows, st) == {i \in DOMAIN rows : rows[i].status = st}
Fresh(rows, n) ==  \* the ids of the next n rows
  {i \in DOMAIN rows : rows[i].version = 0 /\ Cardinality({j \in DOMAIN rows : rows[j].version = 0 /\ j <= i}) <= n}
VersionsOf(rows, st) == {rows[i].version : i \in Having(rows, st)}
FeaturesOf(es) == {f \in Live(feature) : feature[f].epic \in es}
TasksOf(fs) == {t \in Live(task) : task[t].feature \in fs}
Unstarted(t) == task[t].progress = "backlog"

\* list_tasks_for_project without a filter: one version, the highest that is
\* not archived.
Current == Top(VersionsOf(task, "draft") \cup VersionsOf(task, "finalized"))
Shown == {t \in Live(task) : Current # 0 /\ task[t].version = Current}

\* Nothing but its id is left of a deleted row.
Gone == [status |-> "absent", version |-> 1, feature |-> 0, epic |-> 0, progress |-> "backlog", deps |-> {}]
Without(rows, S) ==
  [i \in DOMAIN rows |-> IF i \in S THEN [x \in DOMAIN rows[i] |-> Gone[x]] ELSE rows[i]]

Becomes(rows, S, st) == [i \in DOMAIN rows |-> IF i \in S THEN [rows[i] EXCEPT !.status = st] ELSE rows[i]]

\* Mutant: the cascade deletes tasks that were started, too.
TasksWithoutAny(fs) == Without(task, TasksOf(fs))

\* What deleting features leaves of the tasks: unstarted ones go, the others
\* lose their feature.
TasksWithout(fs) ==
  Without([t \in Tasks |-> IF t \in TasksOf(fs) THEN [task[t] EXCEPT !.feature = 0] ELSE task[t]],
          {t \in TasksOf(fs) : Unstarted(t)})

(***************************************************************************)
(* Generators: what they look at and delete before the agent is asked      *)
(***************************************************************************)
Start(c, g) == gen' = [gen EXCEPT ![c] = g]

GenerateFlat(c) ==
  /\ gen[c].at = "idle" /\ Having(task, "finalized") = {}
  /\ \E v \in IF Having(task, "draft") = {} THEN {0} ELSE VersionsOf(task, "draft") :
       task' = Without(task, {t \in Having(task, "draft") : task[t].version = v})
  /\ Start(c, [NoGen EXCEPT !.at = "ask", !.version = Top(VersionsOf(task, "archived")) + 1])
  /\ UNCHANGED <<epic, feature, legacy, unchecked>>

\* delete_epic, for the epics es.
DropEpics(es) ==
  /\ task' = TasksWithout(FeaturesOf(es))
  /\ feature' = Without(feature, FeaturesOf(es))
  /\ epic' = Without(epic, es)

\* Pass 1; `whole` when generate_build_plan goes on with the other passes.
GenerateEpics(c, whole) ==
  /\ gen[c].at = "idle" /\ Having(epic, "finalized") = {}
  /\ \E v \in IF Having(epic, "draft") = {} THEN {0} ELSE VersionsOf(epic, "draft") :
       DropEpics({e \in Having(epic, "draft") : epic[e].version = v})
  /\ Start(c, [NoGen EXCEPT !.at = "ask", !.op = "epics", !.whole = whole,
                            !.version = Top(VersionsOf(epic, "archived")) + 1])
  /\ UNCHANGED <<legacy, unchecked>>

\* decompose-legacy, not as a dry run.
DecomposeLegacy(c) ==
  /\ MayDecompose /\ Having(epic, "draft") \cup Having(epic, "finalized") = {}
  /\ gen[c].at = "idle"
  /\ Start(c, [NoGen EXCEPT !.at = "ask", !.op = "epics", !.whole = TRUE,
                            !.version = Top(VersionsOf(epic, "archived")) + 1])
  /\ legacy' = {t \in Shown : task[t].feature = 0 /\ Unstarted(t)}
  /\ UNCHANGED <<epic, feature, task, unchecked>>

\* Passes 2 and 3 for one epic or feature, or one after the other for many.
GenerateBelow(c) ==
  /\ gen[c].at = "idle"
  /\ \/ \E es \in SUBSET Live(epic) \ {{}} : Start(c, [NoGen EXCEPT !.at = "next", !.op = "features", !.todo = es])
     \/ \E fs \in SUBSET Live(feature) \ {{}} : Start(c, [NoGen EXCEPT !.at = "next", !.op = "tasks", !.todo = fs])
  /\ UNCHANGED <<epic, feature, task, legacy, unchecked>>

\* Pass 2 replaces the epic's draft features.
NextEpic(c) ==
  /\ gen[c].at = "next" /\ gen[c].op = "features"
  /\ \E e \in gen[c].todo \cap Live(epic) :
       LET drafts == FeaturesOf({e}) \cap Having(feature, "draft") IN
       /\ task' = TasksWithout(drafts)
       /\ feature' = Without(feature, drafts)
       /\ gen' = [gen EXCEPT ![c].at = "ask", ![c].of = e, ![c].version = epic[e].version,
                             ![c].todo = @ \ {e}]
  /\ UNCHANGED <<epic, legacy, unchecked>>

\* Pass 3 looks at the tasks shown: those it will delete, those other features
\* may depend on, and the version the new ones get.
NextFeature(c) ==
  /\ gen[c].at = "next" /\ gen[c].op = "tasks"
  /\ \E f \in gen[c].todo \cap Live(feature) :
       LET drafts == Shown \cap Having(task, "draft")
           others == {t \in drafts : task[t].feature # f} IN
       gen' = [gen EXCEPT ![c].at = "purge", ![c].of = f, ![c].todo = @ \ {f},
                 ![c].doomed = (drafts \ others) \cup {t \in Shown : task[t].feature = 0 /\ Unstarted(t)},
                 ![c].kin = Shown \cap TasksOf(FeaturesOf({feature[f].epic})),
                 ![c].version = IF others # {} THEN Current ELSE Current + 1]
  /\ UNCHANGED <<epic, feature, task, legacy, unchecked>>

Purge(c) ==
  /\ gen[c].at = "purge"
  /\ task' = Without(task, gen[c].doomed)
  /\ gen' = [gen EXCEPT ![c].at = "ask", ![c].doomed = {}]
  /\ UNCHANGED <<epic, feature, legacy, unchecked>>

\* The agent fails, its answer cannot be used, or the next epic or feature is
\* gone: what was deleted stays so.
Fail(c) ==
  /\ \/ gen[c].at = "ask"
     \/ /\ gen[c].at = "next"
        /\ ~(gen[c].todo \subseteq IF gen[c].op = "features" THEN Live(epic) ELSE Live(feature))
  /\ Start(c, NoGen)
  /\ UNCHANGED <<epic, feature, task, legacy, unchecked>>

(***************************************************************************)
(* Generators: inserting the answer                                        *)
(***************************************************************************)
\* A route that has been through everything returns.  The full plan goes on
\* from features to the tasks of all features of its version.
Continue(c, fs) ==
  LET more == IF gen[c].todo = {} /\ gen[c].whole /\ gen[c].op = "features" THEN fs ELSE gen[c].todo IN
  Start(c, IF more = {} THEN NoGen
           ELSE [NoGen EXCEPT !.at = "next", !.op = IF gen[c].todo = {} THEN "tasks" ELSE gen[c].op,
                              !.todo = more, !.whole = gen[c].whole])

InsertFlat(c) ==
  /\ gen[c].at = "ask" /\ gen[c].op = "flat"
  /\ LET new == Fresh(task, 1) IN
       /\ new # {}
       /\ task' = [t \in Tasks |-> IF t \in new THEN [task[t] EXCEPT !.status = "draft", !.version = gen[c].version]
                                   ELSE task[t]]
  /\ Start(c, NoGen)
  /\ UNCHANGED <<epic, feature, legacy, unchecked>>

InsertEpics(c) ==
  /\ gen[c].at = "ask" /\ gen[c].op = "epics"
  /\ LET new == Fresh(epic, 1) IN
       /\ new # {}
       /\ epic' = [e \in Epics |-> IF e \in new THEN [status |-> "draft", version |-> gen[c].version] ELSE epic[e]]
       /\ IF gen[c].whole THEN gen' = [gen EXCEPT ![c].at = "seal", ![c].todo = new] ELSE Start(c, NoGen)
  /\ UNCHANGED <<feature, task, legacy, unchecked>>

\* finalize_epic_list, by generate_build_plan only.
Seal(c) ==
  /\ gen[c].at = "seal"
  /\ epic' = [e \in Epics |->
               IF epic[e].version = gen[c].version /\ e \in Live(epic) THEN [epic[e] EXCEPT !.status = "finalized"]
               ELSE IF epic[e].status = "finalized" THEN [epic[e] EXCEPT !.status = "archived"] ELSE epic[e]]
  /\ gen' = [gen EXCEPT ![c].at = "next", ![c].op = "features"]
  /\ UNCHANGED <<feature, task, legacy, unchecked>>

InsertFeatures(c) ==
  /\ gen[c].at = "ask" /\ gen[c].op = "features"
  /\ LET new == Fresh(feature, 1) IN
       /\ new # {}
       /\ feature' = [f \in Features |-> IF f \in new THEN [status |-> "draft", version |-> gen[c].version,
                                                            epic |-> gen[c].of] ELSE feature[f]]
       /\ Continue(c, new \cup {f \in Live(feature) : feature[f].version = gen[c].version})
  /\ UNCHANGED <<epic, task, legacy, unchecked>>

Leaves(S) == unchecked' = unchecked \cup S /\ (S # {} => Cardinality(unchecked \cup S) <= MaxLeft)

\* The rows go in one by one, each naming others of its answer and tasks seen
\* before the agent was asked; an INSERT that fails, or the worker's end, leaves
\* those that came before it.
InsertTasks(c) ==
  /\ gen[c].at = "ask" /\ gen[c].op = "tasks"
  /\ \E n \in 1..MaxTasks :
       LET new == Fresh(task, n) IN
       /\ Cardinality(new) = n
       /\ \E deps \in [new -> SUBSET (new \cup gen[c].kin)], last \in new :
            LET put == {t \in new : t <= last} IN
            /\ \A t \in new : t \notin deps[t]
            /\ task' = [t \in Tasks |->
                         IF t \in put THEN [status |-> "draft", version |-> gen[c].version, feature |-> gen[c].of,
                                            progress |-> "backlog", deps |-> deps[t]]
                         ELSE IF t \in new THEN [x \in DOMAIN task[t] |-> Gone[x]] ELSE task[t]]
            /\ IF put = new
               THEN /\ gen' = [gen EXCEPT ![c].at = "check", ![c].doomed = new, ![c].kin = {}]
                    /\ UNCHANGED unchecked
               ELSE Start(c, NoGen) /\ Leaves(put)
  /\ UNCHANGED <<epic, feature, legacy>>

\* The look at the graph fails, or the worker ends before it.
LoseCheck(c) ==
  /\ gen[c].at = "check"
  /\ Start(c, NoGen) /\ Leaves(gen[c].doomed)
  /\ UNCHANGED <<epic, feature, task, legacy>>

\* Whether the tasks ts depend on themselves: no part of a finite set in which
\* everything depends on something of the part.
Cyclic(ts) == \E S \in SUBSET ts : S # {} /\ \A t \in S : task[t].deps \cap S # {}

\* Mutant: the graph is not looked at.
KeepTasks(c) ==
  /\ gen[c].at = "check"
  /\ UNCHANGED task
  /\ Continue(c, {})
  /\ UNCHANGED <<epic, feature, legacy, unchecked>>

\* has_task_cycle on the rows of the new version; with a cycle the rows just
\* inserted are deleted again, as far as their deletion does not fail.
CheckTasks(c) ==
  /\ gen[c].at = "check"
  /\ IF Cyclic({t \in Live(task) : task[t].version = gen[c].version})
     THEN \E left \in SUBSET gen[c].doomed :
            /\ task' = Without(task, gen[c].doomed \ left) /\ Leaves(left)
            /\ Start(c, NoGen)
     ELSE UNCHANGED <<task, unchecked>> /\ Continue(c, {})
  /\ UNCHANGED <<epic, feature, legacy>>

(***************************************************************************)
(* By hand                                                                 *)
(***************************************************************************)
FinalizeTasks ==
  /\ \E v \in VersionsOf(task, "draft") :
       task' = [t \in Tasks |->
                 IF t \in Live(task) /\ task[t].version = v THEN [task[t] EXCEPT !.status = "finalized"]
                 ELSE IF task[t].status = "finalized" THEN [task[t] EXCEPT !.status = "archived"] ELSE task[t]]
  /\ UNCHANGED <<epic, feature, gen, legacy, unchecked>>

ArchiveTasks ==
  /\ \E v \in VersionsOf(task, "finalized") :
       task' = Becomes(task, {t \in Live(task) : task[t].version = v}, "archived")
  /\ UNCHANGED <<epic, feature, gen, legacy, unchecked>>

Turn(rows, S, from, to) == Becomes(rows, S \cap Having(rows, from), to)

\* (un)finalize_feature_subtree and (un)finalize_epic_subtree.
TurnFeature(from, to) ==
  /\ \E f \in Live(feature) :
       /\ feature' = Turn(feature, {f}, from, to)
       /\ task' = Turn(task, TasksOf({f}), from, to)
  /\ UNCHANGED <<epic, gen, legacy, unchecked>>

TurnEpic(from, to) ==
  /\ \E e \in Live(epic) :
       /\ epic[e].status # "archived"
       /\ epic' = Turn(epic, {e}, from, to)
       /\ feature' = Turn(feature, FeaturesOf({e}), from, to)
       /\ task' = Turn(task, TasksOf(FeaturesOf({e})), from, to)
  /\ UNCHANGED <<gen, legacy, unchecked>>

\* Singly, in bulk, or all of them and every task that was not started.
DeleteEpics ==
  /\ \E es \in SUBSET Live(epic) \ {{}} : DropEpics(es)
  /\ UNCHANGED <<gen, legacy, unchecked>>

ResetPlan ==
  /\ epic' = Without(epic, Live(epic))
  /\ feature' = Without(feature, FeaturesOf(Live(epic)))
  /\ task' = Without(TasksWithout(FeaturesOf(Live(epic))), {t \in Live(task) : Unstarted(t)})
  /\ Live(epic) \cup Live(task) # {}
  /\ UNCHANGED <<gen, legacy, unchecked>>

\* The task is read, found not to be in flight, and deleted.
DeleteTask(c) ==
  /\ gen[c].at = "idle"
  /\ \E t \in Live(task) : task[t].progress # "started" /\ Start(c, [NoGen EXCEPT !.at = "delete", !.of = t])
  /\ UNCHANGED <<epic, feature, task, legacy, unchecked>>

DeleteRow(c) ==
  /\ gen[c].at = "delete"
  /\ task' = Without(task, {gen[c].of})
  /\ Start(c, NoGen)
  /\ UNCHANGED <<epic, feature, legacy, unchecked>>

\* The chat appends a task to the finalized list that is shown.
AddTask ==
  /\ \E t \in Shown : task[t].status = "finalized"
  /\ task' = [t \in Tasks |-> IF t \in Fresh(task, 1)
                              THEN [task[t] EXCEPT !.status = "finalized", !.version = Current] ELSE task[t]]
  /\ UNCHANGED <<epic, feature, gen, legacy, unchecked>>

\* A finalized task whose dependencies are deployed is built (TaskDispatch).
Work(t) ==
  /\ task[t].status = "finalized"
  /\ \/ /\ task[t].progress = "backlog" /\ t \in Shown
        /\ \A d \in task[t].deps : d \in Shown /\ task[d].progress = "deployed"
        /\ task' = [task EXCEPT ![t].progress = "started"]
     \/ task[t].progress = "started" /\ task' = [task EXCEPT ![t].progress = "deployed"]
  /\ UNCHANGED <<epic, feature, gen, legacy, unchecked>>

Next ==
  \/ \E c \in Planners :
       \/ GenerateFlat(c) \/ GenerateEpics(c, TRUE) \/ GenerateEpics(c, FALSE) \/ DecomposeLegacy(c)
       \/ GenerateBelow(c) \/ NextEpic(c) \/ NextFeature(c) \/ Purge(c) \/ Fail(c)
       \/ InsertFlat(c) \/ InsertEpics(c) \/ Seal(c) \/ InsertFeatures(c) \/ InsertTasks(c)
       \/ LoseCheck(c) \/ CheckTasks(c) \/ DeleteTask(c) \/ DeleteRow(c)
  \/ FinalizeTasks \/ ArchiveTasks \/ DeleteEpics \/ ResetPlan \/ AddTask
  \/ TurnFeature("draft", "finalized") \/ TurnFeature("finalized", "draft")
  \/ TurnEpic("draft", "finalized") \/ TurnEpic("finalized", "draft")
  \/ \E t \in Tasks : Work(t)

Spec == Init /\ [][Next]_planVars

(***************************************************************************)
(* Properties                                                              *)
(***************************************************************************)
\* Every task can be reached by building what it depends on first, whatever
\* lists, versions and features were generated side by side: a cycle runs through
\* rows whose check is due, or failed to take place.
PlanIsBuildable ==
  LET due == UNION {gen[c].doomed : c \in {d \in Planners : gen[d].at = "check"}} IN
  ~Cyclic(Live(task) \ (due \cup unchecked))

\* "Persists tasks ONLY if the resulting graph has no cycles": no cycle is left
\* once no check is due.  The code does not keep it: rows go in one by one before
\* the look at the graph, and a failure leaves them.  No run checks it.
CyclesAreNotKept == (\A c \in Planners : gen[c].at # "check") => ~Cyclic(Live(task))

\* "Dispatched / in-flight / completed tasks keep their rows": generating again,
\* deleting epics and resetting the plan never delete a finalized task that was
\* started, unless the call had looked at it before it was; and the cycle check
\* of an answer takes its rows back, also one that was finalized and started
\* while the check was due.
StartedWorkIsKept ==
  [][\A t \in Tasks :
       task[t].status = "finalized" /\ ~Unstarted(t) /\ task'[t].status = "absent" =>
         \E c \in Planners : \/ gen[c].at \in {"purge", "check"} /\ t \in gen[c].doomed
                             \/ gen[c].at = "delete" /\ gen[c].of = t]_planVars

\* "Does NOT delete legacy tasks -- they continue to live under the synthetic
\* Legacy epic": what a migration found without a feature is not deleted by it.
\* The code does not keep it (projects.py:5561).  No run checks it.
LegacyIsKept ==
  [][\A t \in legacy : task[t].status # "absent" /\ task'[t].status = "absent" =>
       ~ \E c \in Planners : gen[c].at = "purge" /\ gen[c].whole]_planVars
=============================================================================
