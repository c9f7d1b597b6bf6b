--------------------------------- MODULE Lessons -------------------------------
(***************************************************************************)
(* What the system learns from a failed request. The failure's event       *)
(* starts an analysis in the background; the agent reads the lessons,      *)
(* drafts one, and the writer queues it in the pending file unless a       *)
(* similar one is known; an admin approves it into the canonical file that *)
(* every code-writing agent reads, or rejects it. Both files are read      *)
(* whole, changed and written whole. Within one process nothing comes      *)
(* between a read and its write but a crash; another process may.          *)
(* Abstraction: a single write of a file is atomic, and two signatures are *)
(* similar when they are equal.                                            *)
(***************************************************************************)
EXTENDS Naturals, Sequences, FiniteSets, SequencesExt

CONSTANTS Workers, Requests, Signatures, MaxRuns, MaxDecisions, Null

VARIABLES
  run,       \* the analyses, in the order their events came
  canonical, \* agent-lessons-learned.md
  pending,   \* agent-lessons-learned.pending.md
  edit,      \* the approval or rejection each process is in the middle of
  decisions, \* bound on decisions and crashes
  queued,    \* history: drafts that were queued
  dropped    \* history: drafts an admin rejected
lessonVars == <<run, canonical, pending, edit, decisions, queued, dropped>>

Lesson == [by : 1..MaxRuns, sig : Signatures, id : Nat]
Running == {"scheduled", "reading", "drafting"}

Analysis == [request : Requests, stage : Running \cup {"done"}, next : Nat]
Decision == [verdict : {"approve", "reject"}, lesson : Lesson, step : 1..2, canonical : Seq(Lesson), pending : Seq(Lesson)]

TypeOK ==
  /\ run \in Seq(Analysis) /\ Len(run) <= MaxRuns /\ canonical \in Seq(Lesson) /\ pending \in Seq(Lesson)
  /\ edit \in [Workers -> Decision \cup {Null}]
  /\ decisions \in 0..MaxDecisions /\ dropped \subseteq queued /\ queued \subseteq Lesson

Init ==
  /\ run = <<>> /\ canonical = <<>> /\ pending = <<>> /\ edit = [w \in Workers |-> Null]
  /\ decisions = 0 /\ queued = {} /\ dropped = {}

(***************************************************************************)
(* Analysis of a failure                                                   *)
(***************************************************************************)
\* request.failed may come more than once for a request. The guard looks at the
\* analyses that have started; the one just scheduled adds itself later.
Inflight == {run[k].request : k \in {j \in DOMAIN run : run[j].stage \in {"reading", "drafting"}}}
Trigger(r) ==
  /\ Len(run) < MaxRuns /\ r \notin Inflight
  /\ run' = Append(run, [request |-> r, stage |-> "scheduled", next |-> 0])
  /\ UNCHANGED <<canonical, pending, edit, decisions, queued, dropped>>

Start(k) ==
  /\ run[k].stage = "scheduled" /\ run' = [run EXCEPT ![k].stage = "reading"]
  /\ UNCHANGED <<canonical, pending, edit, decisions, queued, dropped>>

\* action 'read' returns the canonical file, not the queue: the number the
\* agent gives its draft follows the last canonical one.
LastId(file) == IF file = <<>> THEN 0 ELSE (CHOOSE m \in ToSet(file) : \A n \in ToSet(file) : n.id <= m.id).id
Read(k) ==
  /\ run[k].stage = "reading"
  /\ run' = [run EXCEPT ![k].stage = "drafting", ![k].next = LastId(canonical) + 1]
  /\ UNCHANGED <<canonical, pending, edit, decisions, queued, dropped>>

\* append_lesson: no await between the reads, the comparison and the write. The
\* agent may find no new pattern, or fail.
Known(sig) == \E m \in ToSet(canonical \o pending) : m.sig = sig
Queue(k, sig) ==
  LET m == [by |-> k, sig |-> sig, id |-> run[k].next] IN
  pending' = Append(pending, m) /\ queued' = queued \cup {m}
\* However the analysis ends, the request leaves the in-flight set.
Ends(k) == run' = [run EXCEPT ![k].stage = "done"]
Draft(k) ==
  /\ run[k].stage = "drafting" /\ Ends(k)
  /\ \/ UNCHANGED <<pending, queued>>
     \/ \E sig \in Signatures : ~Known(sig) /\ Queue(k, sig)
  /\ UNCHANGED <<canonical, edit, decisions, dropped>>

(***************************************************************************)
(* Review                                                                  *)
(***************************************************************************)
\* _find_pending: the first block with the number the admin names.
First(id) == CHOOSE i \in DOMAIN pending : pending[i].id = id /\ \A j \in 1..(i - 1) : pending[j].id # id
Decide(w, id, verdict, step) ==
  /\ edit[w] = Null /\ decisions < MaxDecisions /\ decisions' = decisions + 1
  /\ \E m \in ToSet(pending) : m.id = id
  /\ edit' = [edit EXCEPT ![w] = [verdict |-> verdict, lesson |-> pending[First(id)], step |-> step,
                                   canonical |-> canonical, pending |-> RemoveAt(pending, First(id))]]
  /\ UNCHANGED <<run, canonical, pending, queued, dropped>>
Approve(w, id) == Decide(w, id, "approve", 1)
Reject(w, id) == Decide(w, id, "reject", 2)

\* An approval writes the canonical file, then the queue: what a bug swaps.
FileSwapped(step) == IF step = 1 THEN "pending" ELSE "canonical"
File(step) == IF step = 1 THEN "canonical" ELSE "pending"
WriteFile(w) ==
  /\ edit[w] # Null
  /\ IF edit[w].verdict = "approve" /\ File(edit[w].step) = "canonical"
     THEN canonical' = Append(edit[w].canonical, edit[w].lesson) /\ UNCHANGED <<pending, dropped>>
     ELSE /\ pending' = edit[w].pending /\ UNCHANGED canonical
          /\ dropped' = IF edit[w].verdict = "reject" THEN dropped \cup {edit[w].lesson} ELSE dropped
  /\ edit' = [edit EXCEPT ![w] = IF @.step = 1 THEN [@ EXCEPT !.step = 2] ELSE Null]
  /\ UNCHANGED <<run, decisions, queued>>

\* The process dies: its analyses and the write it was about to do are lost.
Crash(w) ==
  /\ decisions < MaxDecisions /\ decisions' = decisions + 1 /\ edit' = [edit EXCEPT ![w] = Null]
  /\ run' = [k \in DOMAIN run |-> [run[k] EXCEPT !.stage = "done"]] /\ <<edit', run'>> # <<edit, run>>
  /\ UNCHANGED <<canonical, pending, queued, dropped>>

\* One process does nothing else between the read and the last write of a
\* decision; with several, the others do.
Free == \/ Cardinality(Workers) > 1
        \/ \A w \in Workers : edit[w] = Null
Next ==
  \/ Free /\ \E r \in Requests : Trigger(r)
  \/ Free /\ \E k \in DOMAIN run : Start(k) \/ Read(k) \/ Draft(k)
  \/ \E w \in Workers, m \in ToSet(pending) : Approve(w, m.id) \/ Reject(w, m.id)
  \/ \E w \in Workers : WriteFile(w) \/ Crash(w)
LessonsSpec == Init /\ [][Next]_lessonVars

(***************************************************************************)
(* Property                                                                *)
(***************************************************************************)
\* A lesson that was queued is never lost: it is in the queue or in the
\* canonical file until an admin rejects that very lesson, also when two
\* drafts carry the same number and when the process dies in the middle of an
\* approval ("the pending file is only modified after the canonical write
\* succeeds", approve_lesson).
NoLessonLost == queued \subseteq ToSet(canonical) \cup ToSet(pending) \cup dropped
==============================================================================
