----------------------------- MODULE RequestRecords ----------------------------
(***************************************************************************)
(* What the orchestrator keeps of the agents' answers: the analyst's       *)
(* stories with their criteria, the tester's cases with each story's       *)
(* coverage, the stories' way through the pipeline, and the files the      *)
(* research pipeline publishes. One row is one await: requests interleave  *)
(* row by row, a row that cannot be inserted is skipped and the rest goes  *)
(* on, and a killed process leaves what it had written.                    *)
(* Story rows are keyed by the request and the analyst's number, case rows *)
(* by the tester's number alone.                                           *)
(* Abstraction: texts are left out; a table or an answer is the set of     *)
(* numbers in it.                                                          *)
(***************************************************************************)
EXTENDS Naturals, FiniteSets

CONSTANTS Requests, Numbers, Cases, Files, MaxRuns, Null

VARIABLES
  story,   \* stories, by id
  case,    \* test_cases, by id
  job,     \* the answer each request's workflow is storing
  folder,  \* docs/research/<folder> on disk, per request
  repo,    \* and in the repository
  row,     \* published_files and commit of the request row
  runs,    \* bound on answers
  emitted  \* history: the stories of answers stored to the end
recordVars == <<story, case, job, folder, repo, row, runs, emitted>>

Status == <<"todo", "in_progress", "review", "testing", "done">>
\* The analyst writes a number of its own, or repeats an id that already names a
\* request.
Raw == [n : Numbers, of : Requests \cup {Null}]
Ids == (Requests \cup {Null}) \X Numbers

\* A row of the tester's table, and what the rows of a table come to for a story.
CaseRow == [id : Cases, story : Ids, passed : BOOLEAN]
Rate(id, ts) == [passed |-> Cardinality({t \in ts : t.story = id /\ t.passed}), total |-> Cardinality({t \in ts : t.story = id})]
Rates == {Rate(id, ts) : id \in Ids, ts \in SUBSET CaseRow}

StoryRow == [of : Requests, status : 1..5, covered : Rates \cup {Null}, criteria : BOOLEAN]
Job ==
  [kind : {"stories"}, raws : SUBSET Raw, ids : SUBSET Ids, criteria : Ids \cup {Null}]
  \cup [kind : {"status"}, status : 2..5, table : SUBSET CaseRow, todo : SUBSET [id : Ids, was : StoryRow]]
  \cup [kind : {"cases"}, todo : SUBSET CaseRow, stored : SUBSET CaseRow]
  \cup [kind : {"publish"}, files : SUBSET Files, commit : BOOLEAN, tried : BOOLEAN]

TypeOK ==
  /\ story \in [Ids -> StoryRow \cup {Null}] /\ job \in [Requests -> Job \cup {Null}]
  /\ case \in [Cases -> [story : Ids, passed : BOOLEAN] \cup {Null}]
  /\ folder \in [Requests -> SUBSET Files] /\ repo \in [Requests -> SUBSET Files]
  /\ row \in [Requests -> [files : SUBSET Files, commit : BOOLEAN] \cup {Null}]
  /\ runs \in 0..MaxRuns /\ emitted \subseteq [of : Requests, raw : Raw]

Init ==
  /\ story = [id \in Ids |-> Null] /\ case = [k \in Cases |-> Null] /\ job = [r \in Requests |-> Null]
  /\ folder = [r \in Requests |-> {}] /\ repo = folder /\ row = [r \in Requests |-> Null]
  /\ runs = 0 /\ emitted = {}

\* _namespace_story_id: what keeps the US-001 of two requests apart.
NotNamespaced(r, raw) == <<raw.of, raw.n>>
Namespaced(r, raw) == IF raw.of = Null THEN <<r, raw.n>> ELSE <<raw.of, raw.n>>
Own(r) == {id \in Ids : story[id] # Null /\ story[id].of = r}

Begins(r, j) ==
  /\ job[r] = Null /\ runs < MaxRuns /\ runs' = runs + 1
  /\ job' = [job EXCEPT ![r] = j]
  /\ UNCHANGED <<story, case, folder, repo, row, emitted>>
Doing(r, kind) == job[r] # Null /\ job[r].kind = kind

(***************************************************************************)
(* The analyst's stories                                                   *)
(***************************************************************************)
Analyst(r, raws) ==
  Begins(r, [kind |-> "stories", raws |-> raws, ids |-> {Namespaced(r, raw) : raw \in raws}, criteria |-> Null])

\* An insert that fails drops the story, and its criteria with it.
CreateStory(r) ==
  /\ Doing(r, "stories") /\ job[r].criteria = Null
  /\ \E id \in job[r].ids :
       IF story[id] = Null
       THEN /\ story' = [story EXCEPT ![id] = [of |-> r, status |-> 1, covered |-> Null, criteria |-> FALSE]]
            /\ job' = [job EXCEPT ![r].ids = @ \ {id}, ![r].criteria = id]
       ELSE job' = [job EXCEPT ![r].ids = @ \ {id}] /\ UNCHANGED story
  /\ UNCHANGED <<case, folder, repo, row, runs, emitted>>
CreateCriteria(r) ==
  /\ Doing(r, "stories") /\ job[r].criteria # Null
  /\ story' = [story EXCEPT ![job[r].criteria].criteria = TRUE]
  /\ job' = [job EXCEPT ![r].criteria = Null]
  /\ UNCHANGED <<case, folder, repo, row, runs, emitted>>
StoriesStored(r) ==
  /\ Doing(r, "stories") /\ job[r].ids = {} /\ job[r].criteria = Null
  /\ emitted' = emitted \cup [of : {r}, raw : job[r].raws] /\ job' = [job EXCEPT ![r] = Null]
  /\ UNCHANGED <<story, case, folder, repo, row, runs>>

(***************************************************************************)
(* The pipeline's progress, and the tester's cases                         *)
(***************************************************************************)
\* _update_story_statuses: the rows are read at once and written one by one.
\* Only the tester's answer has a table.
Progress(r, s, table) ==
  /\ table # {} => s = 4
  /\ Begins(r, [kind |-> "status", status |-> s, table |-> table,
                todo |-> {[id |-> id, was |-> story[id]] : id \in Own(r)}])
UpdateStatus(r) ==
  /\ Doing(r, "status")
  /\ \E t \in job[r].todo :
       /\ story' = IF t.was.status = 5 THEN story
                   ELSE [story EXCEPT ![t.id].status = job[r].status, ![t.id].covered = t.was.covered]
       /\ job' = [job EXCEPT ![r].todo = @ \ {t}]
  /\ UNCHANGED <<case, folder, repo, row, runs, emitted>>
\* Cases that name no story of this request are not stored.
ReadTable(r) ==
  /\ Doing(r, "status") /\ job[r].todo = {}
  /\ job' = [job EXCEPT ![r] = [kind |-> "cases", todo |-> {t \in job[r].table : t.story \in Own(r)}, stored |-> {}]]
  /\ UNCHANGED <<story, case, folder, repo, row, runs, emitted>>

\* create_test_case: an upsert by the number alone, which takes the row over
\* from another request's case of that number.
CreateCase(r) ==
  /\ Doing(r, "cases")
  /\ \E t \in job[r].todo :
       /\ case' = [case EXCEPT ![t.id] = [story |-> t.story, passed |-> t.passed]]
       /\ job' = [job EXCEPT ![r].todo = @ \ {t}, ![r].stored = @ \cup {t}]
  /\ UNCHANGED <<story, folder, repo, row, runs, emitted>>
Coverage(r) ==
  /\ Doing(r, "cases") /\ job[r].todo = {}
  /\ LET ids == {t.story : t \in job[r].stored} IN
     story' = [id \in Ids |-> IF id \in ids THEN [story[id] EXCEPT !.covered = Rate(id, job[r].stored)] ELSE story[id]]
  /\ job' = [job EXCEPT ![r] = Null]
  /\ UNCHANGED <<case, folder, repo, row, runs, emitted>>

(***************************************************************************)
(* The research pipeline's files                                           *)
(***************************************************************************)
\* A file block the parser refuses, or a rendering that fails, is one file less.
Produced == SUBSET Files \ {{}}
WriteFiles(r, files) ==
  /\ job[r] = Null /\ runs < MaxRuns /\ runs' = runs + 1
  /\ folder' = [folder EXCEPT ![r] = @ \cup files]
  /\ job' = [job EXCEPT ![r] = [kind |-> "publish", files |-> files, commit |-> FALSE, tried |-> FALSE]]
  /\ UNCHANGED <<story, case, repo, row, emitted>>
\* One commit of all files, or a recorded error.
CommitFiles(r, ok) ==
  /\ Doing(r, "publish") /\ ~job[r].tried
  /\ repo' = IF ok THEN [repo EXCEPT ![r] = @ \cup job[r].files] ELSE repo
  /\ job' = [job EXCEPT ![r].tried = TRUE, ![r].commit = ok]
  /\ UNCHANGED <<story, case, folder, row, runs, emitted>>
Persist(r) ==
  /\ Doing(r, "publish") /\ job[r].tried
  /\ row' = [row EXCEPT ![r] = [files |-> job[r].files, commit |-> job[r].commit]]
  /\ job' = [job EXCEPT ![r] = Null]
  /\ UNCHANGED <<story, case, folder, repo, runs, emitted>>

\* The process dies in the middle of an answer, or a call that is not caught
\* row by row fails.
Crash(r) ==
  /\ job[r] # Null /\ job' = [job EXCEPT ![r] = Null]
  /\ UNCHANGED <<story, case, folder, repo, row, runs, emitted>>

Next ==
  \E r \in Requests :
    \/ \E raws \in SUBSET Raw : raws # {} /\ Analyst(r, raws)
    \/ CreateStory(r) \/ CreateCriteria(r) \/ StoriesStored(r)
    \/ \E s \in 2..5, table \in SUBSET [id : Cases, story : Own(r), passed : BOOLEAN] : Progress(r, s, table)
    \/ UpdateStatus(r) \/ ReadTable(r) \/ CreateCase(r) \/ Coverage(r)
    \/ \E files \in Produced : WriteFiles(r, files)
    \/ \E ok \in BOOLEAN : CommitFiles(r, ok)
    \/ Persist(r) \/ Crash(r)
RecordSpec == Init /\ [][Next]_recordVars

(***************************************************************************)
(* Property                                                                *)
(***************************************************************************)
\* A story is never dropped because of another request's: once an answer has
\* been stored to the end, each story the analyst numbered itself is a row of
\* its request, whatever numbers other requests use and in whatever order the
\* rows were written, unless another request's analyst copied that very id.
EmittedIsStored ==
  \A e \in emitted : e.raw.of = Null =>
    \/ \E id \in Own(e.of) : id[2] = e.raw.n
    \/ story[<<e.of, e.raw.n>>] # Null
==============================================================================
