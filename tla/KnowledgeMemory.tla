----------------------------- MODULE KnowledgeMemory ---------------------------
(***************************************************************************)
(* One application's episodic memory: an episode per finished request,     *)
(* the job of every worker process that folds old episodes into a summary  *)
(* and proposes what recurs, the retention sweep, the two kinds of         *)
(* forgetting, and the curator's doorway from a proposal to the citeable   *)
(* knowledge. The job and the approval are sequences of transactions; the  *)
(* sweep, the other worker, a purge or a crash come in between.            *)
(***************************************************************************)
EXTENDS Naturals, FiniteSets

CONSTANTS Episodes, Private, Workers, MinEpisodes, MinPattern, MaxErasures, Null
\* Private: the episodes whose text mentions the one subject that is forgotten.

VARIABLES
  episode,   \* the rows of kind 'episode': not captured, fresh, past the window, deleted
  used,      \* use_count > 0
  summaries, \* the rows of kind 'summary', by the episodes they fold
  candidate, \* the row of kb_promotion_candidates, one per pattern
  lesson,    \* the document the candidate becomes
  fold,      \* consolidate_namespace, per worker
  review,    \* approve_promotion in progress
  erasures,  \* bound on purges, forgettings and crashes
  folded,    \* history: episodes the job deleted
  erased     \* history: summaries purged or forgotten
memoryVars == <<episode, used, summaries, candidate, lesson, fold, review, erasures, folded, erased>>

Idle == [stage |-> "idle", rows |-> {}]

TypeOK ==
  /\ episode \in [Episodes -> {"none", "fresh", "old", "gone"}] /\ used \subseteq Episodes
  /\ summaries \subseteq SUBSET Episodes /\ erased \subseteq SUBSET Episodes /\ folded \subseteq Episodes
  /\ candidate \in {Null} \cup [status : {"pending", "promoted", "rejected"}, private : BOOLEAN]
  /\ lesson \in {"none", "pending", "approved"}
  /\ fold \in [Workers -> [stage : {"idle", "listed", "proposed", "summed"}, rows : SUBSET Episodes]]
  /\ review \in {"idle", "ingest", "approve", "record"} /\ erasures \in 0..MaxErasures

Init ==
  /\ episode = [e \in Episodes |-> "none"] /\ used = {} /\ summaries = {} /\ candidate = Null
  /\ lesson = "none" /\ fold = [w \in Workers |-> Idle] /\ review = "idle"
  /\ erasures = 0 /\ folded = {} /\ erased = {}

Stored == {e \in Episodes : episode[e] \in {"fresh", "old"}}
Old == {e \in Episodes : episode[e] = "old"}
Deleted(rows) == [e \in Episodes |-> IF e \in rows \cap Stored THEN "gone" ELSE episode[e]]

(***************************************************************************)
(* Episodes                                                                *)
(***************************************************************************)
\* One per finished request and outcome: the content hash finds a re-fired event.
Capture(e) ==
  /\ episode[e] = "none" /\ episode' = [episode EXCEPT ![e] = "fresh"]
  /\ UNCHANGED <<used, summaries, candidate, lesson, fold, review, erasures, folded, erased>>

\* Time passes beyond the consolidation window.
Age(e) ==
  /\ episode[e] = "fresh" /\ episode' = [episode EXCEPT ![e] = "old"]
  /\ UNCHANGED <<used, summaries, candidate, lesson, fold, review, erasures, folded, erased>>

\* recall_memory: what it returns is counted as used.
Recall ==
  /\ \E hits \in SUBSET Stored : hits # {} /\ used' = used \cup hits /\ used' # used
  /\ UNCHANGED <<episode, summaries, candidate, lesson, fold, review, erasures, folded, erased>>

\* prune_unused_memory: unread episodes go, summaries and what is used stay.
Unread == Old \ used
\* run_retention_sweep. (No episode is given a life time of its own.)
Prune ==
  /\ Unread # {} /\ episode' = Deleted(Unread)
  /\ UNCHANGED <<used, summaries, candidate, lesson, fold, review, erasures, folded, erased>>

(***************************************************************************)
(* Consolidation, in every worker's loop                                   *)
(***************************************************************************)
List(w) ==
  /\ fold[w] = Idle /\ Cardinality(Old) >= MinEpisodes
  /\ fold' = [fold EXCEPT ![w] = [stage |-> "listed", rows |-> Old]]
  /\ UNCHANGED <<episode, used, summaries, candidate, lesson, review, erasures, folded, erased>>

\* A pattern that recurs is proposed once: ON CONFLICT DO NOTHING, whatever
\* became of the first proposal.
Propose(w) ==
  /\ fold[w].stage = "listed" /\ fold' = [fold EXCEPT ![w] = [@ EXCEPT !.stage = "proposed"]]
  /\ candidate' = IF Cardinality(fold[w].rows) >= MinPattern /\ candidate = Null
                  THEN [status |-> "pending", private |-> fold[w].rows \cap Private # {}] ELSE candidate
  /\ UNCHANGED <<episode, used, summaries, lesson, review, erasures, folded, erased>>

\* insert_memory finds the summary of the same episodes by its content hash.
Summed(w) == summaries' = summaries \cup {fold[w].rows}
Summarise(w) ==
  /\ fold[w].stage = "proposed" /\ fold' = [fold EXCEPT ![w] = [@ EXCEPT !.stage = "summed"]]
  /\ Summed(w)
  /\ UNCHANGED <<episode, used, candidate, lesson, review, erasures, folded, erased>>

\* What is expired: the rows that were read, and a bug's: what is old by now.
OldByNow(w) == Old
Folds(w) == fold[w].rows
Expire(w) ==
  /\ fold[w].stage = "summed" /\ fold' = [fold EXCEPT ![w] = Idle]
  /\ episode' = Deleted(Folds(w)) /\ folded' = folded \cup (Folds(w) \cap Stored)
  /\ UNCHANGED <<used, summaries, candidate, lesson, review, erasures, erased>>

(***************************************************************************)
(* Review of the proposal                                                  *)
(***************************************************************************)
BeginApproval ==
  /\ review = "idle" /\ candidate # Null /\ candidate.status = "pending" /\ review' = "ingest"
  /\ UNCHANGED <<episode, used, summaries, candidate, lesson, fold, erasures, folded, erased>>

\* The text is ingested as a pending document; one that exists is left alone.
Ingest ==
  /\ review = "ingest"
  /\ IF lesson = "none" THEN lesson' = "pending" /\ review' = "approve"
     ELSE review' = "record" /\ UNCHANGED lesson
  /\ UNCHANGED <<episode, used, summaries, candidate, fold, erasures, folded, erased>>

ApproveLesson ==
  /\ review = "approve" /\ review' = "record"
  /\ lesson' = IF lesson = "none" THEN "none" ELSE "approved"
  /\ UNCHANGED <<episode, used, summaries, candidate, fold, erasures, folded, erased>>

\* set_promotion_status moves a pending candidate only.
Moved(status) == IF candidate # Null /\ candidate.status = "pending"
                 THEN [candidate EXCEPT !.status = status] ELSE candidate
RecordApproval ==
  /\ review = "record" /\ review' = "idle" /\ candidate' = Moved("promoted")
  /\ UNCHANGED <<episode, used, summaries, lesson, fold, erasures, folded, erased>>

Reject ==
  /\ candidate # Null /\ candidate.status = "pending" /\ candidate' = Moved("rejected")
  /\ UNCHANGED <<episode, used, summaries, lesson, fold, review, erasures, folded, erased>>

(***************************************************************************)
(* Forgetting and crashes                                                  *)
(***************************************************************************)
Erasure == erasures < MaxErasures /\ erasures' = erasures + 1

\* forget_subject: memory and documents whose text mentions the subject; a
\* summary quotes its episodes' goals. The candidate's text is left.
Forget ==
  /\ Erasure
  /\ LET mention == {s \in summaries : s \cap Private # {}} IN
     /\ episode' = Deleted(Private) /\ summaries' = summaries \ mention /\ erased' = erased \cup mention
     /\ lesson' = IF candidate # Null /\ candidate.private THEN "none" ELSE lesson
  /\ UNCHANGED <<used, candidate, fold, review, folded>>

\* purge_project: every row of the namespaces of a deleted project.
Purge ==
  /\ Erasure /\ episode' = Deleted(Episodes) /\ summaries' = {} /\ erased' = erased \cup summaries
  /\ candidate' = Null /\ lesson' = "none"
  /\ UNCHANGED <<used, fold, review, folded>>

\* A worker dies: its job stops where it is, and so may the approval it runs.
Crash(w) ==
  /\ Erasure /\ fold' = [fold EXCEPT ![w] = Idle] /\ review' \in {review, "idle"}
  /\ fold[w] # Idle \/ review' # review
  /\ UNCHANGED <<episode, used, summaries, candidate, lesson, folded, erased>>

Next ==
  \/ \E e \in Episodes : Capture(e) \/ Age(e)
  \/ \E w \in Workers : List(w) \/ Propose(w) \/ Summarise(w) \/ Expire(w) \/ Crash(w)
  \/ Recall \/ Prune \/ BeginApproval \/ Ingest \/ ApproveLesson \/ RecordApproval \/ Reject
  \/ Forget \/ Purge
MemorySpec == Init /\ [][Next]_memoryVars

(***************************************************************************)
(* Property                                                                *)
(***************************************************************************)
\* Consolidation loses nothing: every episode the job has deleted is in a
\* summary that is stored, or was until somebody had it erased - with two
\* workers folding overlapping windows, episodes that age or are pruned
\* meanwhile, and a worker that dies between any two steps ("folded into one
\* compact summary row, then the raw episodes are deleted", consolidation.py).
NothingIsLost == \A e \in folded : \E s \in summaries \cup erased : e \in s
==============================================================================
