------------------------------ MODULE Documents ------------------------------
(***************************************************************************)
(* The versioned documents of one project: the brief, the PRD and the API  *)
(* specification drafted from it.                                          *)
(*                                                                         *)
(* A generation inserts a blank draft, asks an agent, and then stores the  *)
(* agent's text in that row or deletes the row.  A user edits, finalizes   *)
(* and deletes at any time meanwhile, and PATCH works on the row it read   *)
(* first.  Copies of finalized documents on the host and in the project's  *)
(* repository are written afterwards and never read back: left out.        *)
(***************************************************************************)
EXTENDS Naturals, FiniteSets

CONSTANTS
  Generations, \* bound on the artifact rows ever made, which number their ids
  Callers,     \* concurrent calls of the routes
  Nobody

Artifacts == 1..Generations
Kinds == {"prd", "spec"}
DocStatus == {"absent", "draft", "finalized", "archived"}

VARIABLES
  brief,     \* whether the project has a brief of sufficient length
  row,       \* the artifact rows
  call,      \* where each call is, and what it has read
  executor,  \* whether an agent executor is configured
  orphans    \* history: blank drafts whose generation ended without an answer

docVars == <<brief, row, call, executor, orphans>>

NoCall == [at |-> "idle", kind |-> "prd", id |-> Nobody, version |-> 0,
           seals |-> FALSE]

TypeOK ==
  /\ brief \in BOOLEAN /\ executor \in BOOLEAN
  /\ row \in [Artifacts -> [kind: Kinds, version: 0..Generations,
                            status: DocStatus, text: {"blank", "agent", "user"}]]
  /\ call \in [Callers -> [at: {"idle", "list", "insert", "ask", "save", "seal"}, kind: Kinds,
                           id: Artifacts \cup {Nobody}, version: 0..Generations,
                           seals: BOOLEAN]]
  /\ orphans \subseteq Artifacts

Init ==
  /\ brief = FALSE /\ executor \in BOOLEAN
  /\ row = [d \in Artifacts |-> [kind |-> "prd", version |-> 0, status |-> "absent", text |-> "blank"]]
  /\ call = [c \in Callers |-> NoCall]
  /\ orphans = {}

Used == {d \in Artifacts : row[d].version > 0}

Rows(k) == {d \in Artifacts : row[d].kind = k /\ row[d].status # "absent"}

\* get_artifact without a version, and the head of list_artifacts.
IsLatest(d, k) == d \in Rows(k) /\ \A e \in Rows(k) : row[e].version <= row[d].version

LatestVersion(k) == IF Rows(k) = {} THEN 0 ELSE CHOOSE v \in {row[d].version : d \in Rows(k)} :
                                                  \A d \in Rows(k) : row[d].version <= v

Returns(c) == call' = [call EXCEPT ![c] = NoCall]
Advances(c, at) == call' = [call EXCEPT ![c].at = at]

(***************************************************************************)
(* Generation                                                              *)
(***************************************************************************)
PutBrief ==
  /\ ~brief /\ brief' = TRUE
  /\ UNCHANGED <<row, call, executor, orphans>>

\* Without a brief one is seeded from the description, if that is long enough.
GeneratePrd(c) ==
  /\ call[c].at = "idle"
  /\ brief' = TRUE
  /\ call' = [call EXCEPT ![c] = [NoCall EXCEPT !.at = "list", !.kind = "prd"]]
  /\ UNCHANGED <<row, executor, orphans>>

GenerateSpec(c) ==
  /\ call[c].at = "idle"
  /\ \E d \in Artifacts : IsLatest(d, "prd") /\ row[d].status = "finalized"
  /\ call' = [call EXCEPT ![c] = [NoCall EXCEPT !.at = "list", !.kind = "spec"]]
  /\ UNCHANGED <<brief, row, executor, orphans>>

ListVersions(c) ==
  /\ call[c].at = "list" /\ Used # Artifacts
  /\ call' = [call EXCEPT ![c].at = "insert", ![c].version = LatestVersion(call[c].kind) + 1]
  /\ UNCHANGED <<brief, row, executor, orphans>>

\* One version per kind: a draft inserted since the list was read wins.
Insert(c) ==
  LET k == call[c].kind v == call[c].version IN
  /\ call[c].at = "insert"
  /\ IF \E e \in Rows(k) : row[e].version = v
     THEN Returns(c) /\ UNCHANGED <<row, orphans>>
     ELSE \E d \in Artifacts \ Used :
            /\ \A e \in Artifacts \ Used : d <= e
            /\ row' = [row EXCEPT ![d] = [kind |-> k, version |-> v, status |-> "draft", text |-> "blank"]]
            /\ IF executor
               THEN call' = [call EXCEPT ![c].at = "ask", ![c].id = d] /\ UNCHANGED orphans
               ELSE Returns(c) /\ orphans' = orphans \cup {d}
  /\ UNCHANGED <<brief, executor>>

\* An UPDATE by id, which finds nothing when the row was deleted meanwhile.
AgentAnswers(c) ==
  /\ call[c].at = "ask"
  /\ row' = [row EXCEPT ![call[c].id].text = IF row[call[c].id].status = "absent" THEN @ ELSE "agent"]
  /\ Returns(c)
  /\ UNCHANGED <<brief, executor, orphans>>

\* Mutant: the cleanup deletes the latest version, whoever made it.
AgentFailsLatest(c) ==
  /\ call[c].at = "ask"
  /\ row' = [d \in Artifacts |->
              IF IsLatest(d, call[c].kind) THEN [row[d] EXCEPT !.status = "absent"] ELSE row[d]]
  /\ Returns(c)
  /\ UNCHANGED <<brief, executor, orphans>>

\* An exception or an empty answer: the draft made up front is deleted.
AgentFails(c) ==
  /\ call[c].at = "ask"
  /\ row' = [row EXCEPT ![call[c].id].status = "absent"]
  /\ Returns(c)
  /\ UNCHANGED <<brief, executor, orphans>>

(***************************************************************************)
(* Editing                                                                 *)
(***************************************************************************)
\* PATCH reads the latest row; its body edits, finalizes, or both.
Patch(c) ==
  /\ call[c].at = "idle"
  /\ \E k \in Kinds, d \in Artifacts, edits, seals \in BOOLEAN :
       /\ IsLatest(d, k) /\ (edits \/ seals)
       /\ call' = [call EXCEPT ![c] = [at |-> IF edits THEN "save" ELSE "seal", kind |-> k, id |-> d,
                                       version |-> 0, seals |-> seals]]
  /\ UNCHANGED <<brief, row, executor, orphans>>

Save(c) ==
  /\ call[c].at = "save"
  /\ row' = [row EXCEPT ![call[c].id].text = IF row[call[c].id].status = "absent" THEN @ ELSE "user"]
  /\ IF call[c].seals THEN Advances(c, "seal") ELSE Returns(c)
  /\ UNCHANGED <<brief, executor, orphans>>

\* Mutant: the version finalized before stays finalized.
FinalizeAlone(c) ==
  /\ call[c].at = "seal"
  /\ row' = [row EXCEPT ![call[c].id].status = IF @ = "absent" THEN @ ELSE "finalized"]
  /\ Returns(c)
  /\ UNCHANGED <<brief, executor, orphans>>

\* One transaction; a row that is gone raises.
Finalize(c) ==
  LET d == call[c].id IN
  /\ call[c].at = "seal"
  /\ row' = IF row[d].status = "absent" THEN row
            ELSE [e \in Artifacts |->
                   IF e = d THEN [row[d] EXCEPT !.status = "finalized"]
                   ELSE IF row[e].kind = call[c].kind /\ row[e].status = "finalized"
                   THEN [row[e] EXCEPT !.status = "archived"] ELSE row[e]]
  /\ Returns(c)
  /\ UNCHANGED <<brief, executor, orphans>>

DeleteAll(c, k) ==
  /\ call[c].at = "idle" /\ Rows(k) # {}
  /\ row' = [d \in Artifacts |-> IF d \in Rows(k) THEN [row[d] EXCEPT !.status = "absent"] ELSE row[d]]
  /\ UNCHANGED <<brief, call, executor, orphans>>

\* The process dies: what its calls were doing is not taken up again.
Crash ==
  /\ \E c \in Callers : call[c].at = "ask"
  /\ orphans' = orphans \cup {call[c].id : c \in {x \in Callers : call[x].at = "ask"}}
  /\ call' = [c \in Callers |-> NoCall]
  /\ UNCHANGED <<brief, row, executor>>

Next ==
  \/ PutBrief \/ Crash
  \/ \E c \in Callers :
       \/ GeneratePrd(c) \/ GenerateSpec(c) \/ ListVersions(c) \/ Insert(c)
       \/ AgentAnswers(c) \/ AgentFails(c) \/ Patch(c) \/ Save(c) \/ Finalize(c)
       \/ \E k \in Kinds : DeleteAll(c, k)

Spec == Init /\ [][Next]_docVars

(***************************************************************************)
(* Properties                                                              *)
(***************************************************************************)
\* Whatever generations, edits and finalizations overlap, at most one version of
\* a document is finalized, and a blank draft is explained: its generation still
\* runs, or had no executor or no process to end it.
DocumentsInOrder ==
  /\ \A d, e \in Artifacts :
       row[d].status = "finalized" /\ row[e].status = "finalized" /\ row[d].kind = row[e].kind => d = e
  /\ \A d \in Artifacts : row[d].status # "absent" /\ row[d].text = "blank" =>
       d \in orphans \/ \E c \in Callers : call[c].at = "ask" /\ call[c].id = d

\* A finalized document disappears only when its kind is deleted, and its text
\* changes only by an edit: other generations that end, well or badly, leave it
\* alone.  (Its own generation does not, if it was finalized while still blank.)
FinalizedIsKept ==
  [][\A d \in Artifacts : row[d].status = "finalized" =>
       \/ row'[d].status # "absent" /\ row'[d].text = row[d].text
       \/ \E c \in Callers : call[c].id = d /\ call[c].at \in {"ask", "save"}
       \/ {e \in Rows(row[d].kind) : row'[e].status # "absent"} = {}]_docVars
=============================================================================
