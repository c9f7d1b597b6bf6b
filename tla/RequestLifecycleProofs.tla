----------------------- MODULE RequestLifecycleProofs -----------------------
(***************************************************************************)
(* Theorems about the life of a request, for every number of requests,     *)
(* clients and crashes.  Those about cancellation need one worker (with    *)
(* two, LifecycleTwoWorkers shows a counterexample) and clients that know  *)
(* a request only from the answer to its submission.                       *)
(***************************************************************************)
EXTENDS RequestLifecycle, TLAPS

OneWorkerCalm == (\A v, w \in Workers : v = w) /\ ~Early

Ended == Terminal \cup {"deleted"}

(***************************************************************************)
(* The inductive invariants                                                *)
(***************************************************************************)
\* The coroutine starts after the submission, and a request has an end only
\* when no coroutine works on it; what the commit handler is about to write
\* back is no end either.
FlowOf(r) ==
  /\ submit[r] \in {"idle", "created", "analyzed"} => flow[r] = "off"
  /\ submit[r] = "launched" => flow[r] = "paused"
  /\ status[r] \in Ended => submit[r] = "answered" /\ flow[r] \notin Working
  /\ flow[r] = "committing" => seen[r].status \notin Ended

FlowInv == \A r \in Requests : FlowOf(r)

\* A cancellation that got past its kill has no coroutine against it, and a
\* deletion no request that has not ended.
CallInv ==
  \A c \in Clients :
    /\ call[c].at \in {"mark", "fetch", "write", "tell"} => flow[call[c].req] \notin Live
    /\ call[c].at \in {"kill", "mark", "fetch", "write", "tell"} => submit[call[c].req] = "answered"
    /\ call[c].at = "erase" => status[call[c].req] \in Ended

\* While the run goes on the row has what the commit handler wrote, and so
\* has the copy its verdict will be written from.
RecordOf(r) ==
  /\ submit[r] # "answered" \/ flow[r] \in {"paused", "begun"} => ~recorded[r] /\ ~noted[r]
  /\ flow[r] \in {"running", "agent", "committing", "fetched"} => recorded[r] = noted[r]
  /\ flow[r] = "fetched" => seen[r].recorded = noted[r]
  /\ status[r] = "completed" => recorded[r] = noted[r]

RecordInv == \A r \in Requests : RecordOf(r)

\* A client's call is about a request and was served by a worker.
CallType ==
  \A c \in Clients :
    call[c].at # "idle" => call[c] \in Calls /\ call[c].req \in Requests /\ call[c].worker \in Workers

\* What is announced at the end is the verdict.
SeenInv == \A r \in Requests : flow[r] = "closing" => seen[r].status \in Terminal

TypeInv == TypeOK /\ SeenInv

(***************************************************************************)
(* Types                                                                   *)
(***************************************************************************)
Pending == [at: {"kill", "mark", "fetch", "write", "tell", "erase"}, req: Requests,
            worker: Workers, seen: Rows]

LEMMA CallFacts ==
  /\ Calls = {Idle} \cup Pending
  /\ \A k \in Calls : k.at # "idle" <=> k \in Pending
  /\ \A k \in Calls : k # Idle <=> k.at # "idle"
  /\ Idle.at = "idle"
BY DEF Calls, Idle, Pending

LEMMA CallTyped == TypeOK => CallType
BY CallFacts DEF TypeOK, CallType, Pending

LEMMA RowType == ASSUME TypeOK, NEW r \in Requests PROVE Row(r) \in Rows
BY DEF TypeOK, Row, Rows

LEMMA UpdateType ==
  ASSUME TypeOK, NEW r \in Requests, NEW st \in Status, NEW rec \in BOOLEAN, Update(r, st, rec)
  PROVE  status' \in [Requests -> Status] /\ recorded' \in [Requests -> BOOLEAN]
BY DEF TypeOK, Update, row

LEMMA EmitType ==
  ASSUME TypeOK, NEW r \in Requests, NEW st \in {"analyzing", "in_progress"} \cup Terminal, Emit(r, st)
  PROVE  task' \in [Requests -> TaskStatus]
<1>1. TaskOf(st) \in TaskStatus
  BY Zenon DEF TaskOf, TaskStatus, Terminal
<1>2. QED BY <1>1 DEF TypeOK, Emit

\* A call moves on.
LEMMA GotoType ==
  ASSUME TypeOK, NEW c \in Clients, call[c].at # "idle",
         NEW at \in {"kill", "mark", "fetch", "write", "tell", "erase"}, Goto(c, at)
  PROVE  call' \in [Clients -> Calls]
<1>1. call[c] \in Pending
  BY CallFacts DEF TypeOK
<1>2. [call[c] EXCEPT !.at = at] \in Calls
  BY <1>1, CallFacts DEF Pending
<1>3. QED BY <1>2 DEF Goto, TypeOK

THEOREM TypeInvariance == Spec => []TypeInv
<1>1. Init => TypeInv
  BY LifecycleAssumption, CallFacts
  DEF Init, TypeInv, TypeOK, SeenInv, Status, TaskStatus, Rows, NoRow, Submitting, Live, Working
<1>2. TypeInv /\ [Next]_vars => TypeInv'
  <2> SUFFICES ASSUME TypeInv, [Next]_vars PROVE TypeInv'
    OBVIOUS
  <2> USE DEF TypeInv, row, subtasks
  <2>0. CASE UNCHANGED vars
    BY <2>0 DEF vars, TypeOK, SeenInv
  <2>1. ASSUME NEW r \in Requests, Submit(r) PROVE TypeInv'
    <3>1. CASE Create(r)
      BY <3>1 DEF Create, TypeOK, SeenInv, Status, Submitting
    <3>2. CASE Analyze(r)
      BY <3>2, UpdateType DEF Analyze, TypeOK, SeenInv, Status, Submitting
    <3>3. CASE Launch(r)
      BY <3>3, EmitType DEF Launch, TypeOK, SeenInv, Submitting, Live, Working
    <3>4. CASE Stamp(r)
      BY <3>4 DEF Stamp, TypeOK, SeenInv, TaskStatus
    <3>5. QED BY <2>1, <3>1, <3>2, <3>3, <3>4 DEF Submit
  <2>2. ASSUME NEW r \in Requests, RunWorkflow(r) PROVE TypeInv'
    <3> USE DEF Live, Working
    <3>1. CASE Begin(r)
      BY <3>1, UpdateType DEF Begin, TypeOK, SeenInv, Status
    <3>2. CASE AnnounceStart(r)
      BY <3>2, EmitType DEF AnnounceStart, TypeOK, SeenInv
    <3>3. CASE StartAgent(r) \/ \E fails \in BOOLEAN : EndAgent(r, fails)
      BY <3>3 DEF StartAgent, EndAgent, TypeOK, SeenInv
    <3>4. CASE Push(r) \/ Fetch(r)
      <4>0. Row(r) \in Rows /\ seen' = [seen EXCEPT ![r] = Row(r)]
        BY <3>4, RowType DEF Push, Fetch
      <4>1. seen' \in [Requests -> Rows] /\ noted' \in [Requests -> BOOLEAN]
        <5>1. seen' \in [Requests -> Rows]
          BY <4>0 DEF TypeOK
        <5>2. noted' \in [Requests -> BOOLEAN]
          BY <3>4 DEF Push, Fetch, TypeOK
        <5>3. QED BY <5>1, <5>2
      <4>2. flow' \in [Requests -> {"off", "done", "killed"} \cup Live] /\ flow'[r] # "closing"
        BY <3>4 DEF Push, Fetch, TypeOK
      <4>3. \A q \in Requests : q # r => flow'[q] = flow[q] /\ seen'[q] = seen[q]
        BY <3>4 DEF Push, Fetch, TypeOK
      <4>4. QED BY <3>4, <4>1, <4>2, <4>3 DEF Push, Fetch, TypeOK, SeenInv
    <3>5. CASE RecordCommit(r)
      <4>1. seen[r].status \in Status
        BY DEF TypeOK, Rows
      <4>2. noted' \in [Requests -> BOOLEAN]
        BY <3>5 DEF RecordCommit, TypeOK
      <4>3. QED BY <3>5, <4>1, <4>2, UpdateType DEF RecordCommit, TypeOK, SeenInv
    <3>6. ASSUME NEW escalated \in BOOLEAN, Conclude(r, escalated) PROVE TypeInv'
      <4> DEFINE verdict == IF escalated \/ broken[r] THEN "failed" ELSE "completed"
      <4>1. verdict \in Status /\ verdict \in Terminal /\ seen[r] \in Rows
        BY DEF Status, Terminal, TypeOK
      <4>2. seen[r].recorded \in BOOLEAN /\ [seen[r] EXCEPT !.status = verdict] \in Rows
        BY <4>1 DEF Rows
      <4>3. /\ Update(r, verdict, seen[r].recorded)
            /\ seen' = [seen EXCEPT ![r] = [seen[r] EXCEPT !.status = verdict]]
            /\ flow' = [flow EXCEPT ![r] = "closing"]
            /\ UNCHANGED <<subtasks, task, submit, noted, home, call, lost, crashes>>
        BY <3>6 DEF Conclude, TypeOK
      <4>4. \A q \in Requests : flow'[q] = "closing" => seen'[q].status \in Terminal
        <5> TAKE q \in Requests
        <5>1. CASE q = r
          BY <4>1, <4>3, <5>1 DEF TypeOK, Rows
        <5>2. CASE q # r
          BY <4>3, <5>2 DEF TypeOK, SeenInv
        <5>3. QED BY <5>1, <5>2
      <4>5. QED BY <4>1, <4>2, <4>3, <4>4, UpdateType DEF TypeOK, SeenInv
    <3>7. CASE Raise(r) \/ DropCommit(r)
      BY <3>7 DEF Raise, DropCommit, TypeOK, SeenInv
    <3>8. CASE ConcludeRaised(r)
      <4>1. "failed" \in Status /\ "failed" \in Terminal /\ seen[r] \in Rows
        BY DEF Status, Terminal, TypeOK
      <4>2. [seen[r] EXCEPT !.status = "failed"] \in Rows
        BY <4>1 DEF Rows
      <4>3. seen' = [seen EXCEPT ![r] = [seen[r] EXCEPT !.status = "failed"]]
        BY <3>8 DEF ConcludeRaised, TypeOK
      <4>4. \A q \in Requests : flow'[q] = "closing" => seen'[q].status \in Terminal
        <5> TAKE q \in Requests
        <5>1. CASE q = r
          BY <4>1, <4>3, <5>1 DEF TypeOK, Rows
        <5>2. CASE q # r
          BY <3>8, <4>3, <5>2 DEF ConcludeRaised, TypeOK, SeenInv
        <5>3. QED BY <5>1, <5>2
      <4>5. QED BY <3>8, <4>1, <4>2, <4>3, <4>4, UpdateType DEF ConcludeRaised, TypeOK, SeenInv
    <3>9. CASE AnnounceEnd(r)
      BY <3>9, EmitType DEF AnnounceEnd, TypeOK, SeenInv
    <3>10. QED
      BY <2>2, <3>1, <3>2, <3>3, <3>4, <3>5, <3>6, <3>7, <3>8, <3>9 DEF RunWorkflow
  <2>3. ASSUME NEW c \in Clients, Serve(c) PROVE TypeInv'
    <3>1. call[c].at # "idle" /\ call[c] \in Pending /\ call[c].req \in Requests
      BY <2>3, CallFacts
      DEF Serve, Kill, MarkSubtasks, Refetch, WriteCancelled, Tell, Erase, TypeOK, Pending
    <3>2. CASE Kill(c)
      BY <3>1, <3>2, GotoType DEF Kill, TypeOK, SeenInv
    <3>3. CASE MarkSubtasks(c)
      BY <3>1, <3>3, GotoType DEF MarkSubtasks, TypeOK, SeenInv
    <3>4. CASE Refetch(c)
      <4>1. [call[c] EXCEPT !.at = "write", !.seen = Row(call[c].req)] \in Calls
        BY <3>1, RowType, CallFacts DEF Pending
      <4>2. QED BY <3>4, <4>1 DEF Refetch, TypeOK, SeenInv
    <3>5. CASE WriteCancelled(c)
      <4>1. call[c].seen.recorded \in BOOLEAN /\ "cancelled" \in Status
        BY <3>1 DEF Pending, Rows, Status, Terminal
      <4>2. QED BY <3>1, <3>5, <4>1, UpdateType, GotoType DEF WriteCancelled, TypeOK, SeenInv
    <3>6. CASE Tell(c)
      BY <3>1, <3>6, EmitType, CallFacts DEF Tell, TypeOK, SeenInv, Terminal
    <3>7. CASE Erase(c)
      BY <3>1, <3>7, CallFacts DEF Erase, TypeOK, SeenInv, Status
    <3>8. QED BY <2>3, <3>2, <3>3, <3>4, <3>5, <3>6, <3>7 DEF Serve
  <2>4. ASSUME NEW c \in Clients, NEW r \in Requests, NEW w \in Workers,
               CallCancel(c, r, w) \/ CallDelete(c, r, w)
        PROVE  TypeInv'
    <3>1. ASSUME NEW k \in {"kill", "erase"}
          PROVE  [at |-> k, req |-> r, worker |-> w, seen |-> Row(r)] \in Calls
      BY RowType, CallFacts DEF Pending
    <3>2. QED BY <2>4, <3>1 DEF CallCancel, CallDelete, TypeOK, SeenInv
  <2>5. ASSUME NEW w \in Workers, Crash(w) PROVE TypeInv'
    <3>1. /\ flow' \in [Requests -> {"off", "done", "killed"} \cup Live]
          /\ submit' \in [Requests -> {"idle", "answered"} \cup Submitting]
          /\ call' \in [Clients -> Calls]
      BY <2>5, CallFacts DEF Crash, TypeOK
    <3>2. lost' \in [Requests -> BOOLEAN]
      BY <2>5, Zenon DEF Crash, TypeOK
    <3>3. crashes' \in 0..MaxCrashes
      BY <2>5, LifecycleAssumption DEF Crash, TypeOK
    <3>4. SeenInv'
      BY <2>5 DEF Crash, SeenInv
    <3>5. QED BY <2>5, <3>1, <3>2, <3>3, <3>4 DEF Crash, TypeOK
  <2>6. QED BY <2>0, <2>1, <2>2, <2>3, <2>4, <2>5 DEF Next
<1>3. QED BY <1>1, <1>2, PTL DEF Spec

\* In particular every variable keeps its type.
THEOREM TypeCorrectness == Spec => []TypeOK
<1>1. TypeInv => TypeOK
  BY DEF TypeInv
<1>2. QED BY <1>1, TypeInvariance, PTL

(***************************************************************************)
(* Cancellation                                                            *)
(***************************************************************************)
\* update_request writes its row or, when it is gone, nothing.
LEMMA UpdateFacts ==
  ASSUME TypeOK, NEW r \in Requests, NEW st, NEW rec, Update(r, st, rec)
  PROVE  /\ \A q \in Requests \ {r} : status'[q] = status[q] /\ recorded'[q] = recorded[q]
         /\ IF status[r] = "deleted" THEN status'[r] = "deleted" /\ recorded'[r] = recorded[r]
            ELSE status'[r] = st /\ recorded'[r] = rec
BY DEF TypeOK, Update, row

\* What a step of a request's own coroutines does to the invariants: only that
\* request changes and no call is touched.
Own(r) ==
  /\ call' = call
  /\ \A q \in Requests \ {r} :
       /\ status'[q] = status[q] /\ recorded'[q] = recorded[q] /\ submit'[q] = submit[q]
       /\ flow'[q] = flow[q] /\ seen'[q] = seen[q] /\ noted'[q] = noted[q]

LEMMA OwnSteps ==
  ASSUME TypeInv, NEW r \in Requests, Submit(r) \/ RunWorkflow(r)
  PROVE  Own(r)
<1> USE DEF TypeInv, Own, row, subtasks
<1>1. CASE Submit(r)
  BY <1>1, UpdateFacts DEF Submit, Create, Analyze, Launch, Stamp, TypeOK
<1>2. CASE Begin(r) \/ RecordCommit(r) \/ ConcludeRaised(r)
  BY <1>2, UpdateFacts DEF Begin, RecordCommit, ConcludeRaised, TypeOK
<1>3. CASE \E escalated \in BOOLEAN : Conclude(r, escalated)
  BY <1>3, UpdateFacts DEF Conclude, TypeOK
<1>4. CASE \/ AnnounceStart(r) \/ StartAgent(r) \/ (\E fails \in BOOLEAN : EndAgent(r, fails))
           \/ Push(r) \/ DropCommit(r) \/ Fetch(r) \/ Raise(r) \/ AnnounceEnd(r)
  BY <1>4 DEF AnnounceStart, StartAgent, EndAgent, Push, DropCommit, Fetch, Raise, AnnounceEnd, TypeOK
<1>5. QED BY <1>1, <1>2, <1>3, <1>4 DEF RunWorkflow

\* Submission and workflow keep the invariants of their request.
LEMMA OwnFlow ==
  ASSUME TypeInv, NEW r \in Requests, FlowOf(r), Submit(r) \/ RunWorkflow(r)
  PROVE  FlowOf(r)'
<1> USE DEF TypeInv, FlowOf, Ended, Terminal, Working, row, subtasks
<1>1. CASE Create(r) \/ Launch(r) \/ Stamp(r)
  BY <1>1 DEF Create, Launch, Stamp, TypeOK
<1>2. CASE Analyze(r)
  <2>1. status[r] # "deleted" /\ Update(r, "analyzing", FALSE)
    BY <1>2 DEF Analyze
  <2>2. status'[r] = "analyzing" /\ recorded'[r] = FALSE
    BY <2>1, UpdateFacts
  <2>3. QED BY <1>2, <2>2 DEF Analyze, TypeOK
<1>3. CASE Begin(r)
  <2>1. status[r] # "deleted" /\ Update(r, "in_progress", FALSE)
    BY <1>3 DEF Begin
  <2>2. status'[r] = "in_progress" /\ recorded'[r] = FALSE
    BY <2>1, UpdateFacts
  <2>3. QED BY <1>3, <2>2 DEF Begin, TypeOK
<1>4. CASE AnnounceStart(r) \/ StartAgent(r) \/ (\E fails \in BOOLEAN : EndAgent(r, fails))
  BY <1>4 DEF AnnounceStart, StartAgent, EndAgent, TypeOK
<1>5. CASE Push(r) \/ Fetch(r)
  BY <1>5 DEF Push, Fetch, Row, TypeOK
<1>6. CASE RecordCommit(r)
  BY <1>6, UpdateFacts DEF RecordCommit, TypeOK
<1>7. CASE ConcludeRaised(r) \/ \E escalated \in BOOLEAN : Conclude(r, escalated)
  <2>1. /\ flow[r] \in {"raised", "fetched"} /\ flow'[r] = "closing"
        /\ submit'[r] = submit[r] /\ noted'[r] = noted[r]
    BY <1>7 DEF ConcludeRaised, Conclude, TypeOK
  <2>2. submit[r] = "answered"
    BY <2>1 DEF TypeOK, Submitting
  <2>3. QED BY <2>1, <2>2
<1>8. CASE DropCommit(r) \/ Raise(r) \/ AnnounceEnd(r)
  BY <1>8 DEF DropCommit, Raise, AnnounceEnd, TypeOK
<1>9. QED
  BY <1>1, <1>2, <1>3, <1>4, <1>5, <1>6, <1>7, <1>8 DEF Submit, RunWorkflow

LEMMA OwnRecord ==
  ASSUME TypeInv, NEW r \in Requests, FlowOf(r), RecordOf(r), Submit(r) \/ RunWorkflow(r)
  PROVE  RecordOf(r)'
<1> USE DEF TypeInv, FlowOf, RecordOf, Ended, Terminal, Working, row, subtasks
<1>1. CASE Create(r) \/ Launch(r) \/ Stamp(r)
  BY <1>1 DEF Create, Launch, Stamp, TypeOK
<1>2. CASE Analyze(r)
  <2>1. status[r] # "deleted" /\ Update(r, "analyzing", FALSE)
    BY <1>2 DEF Analyze
  <2>2. status'[r] = "analyzing" /\ recorded'[r] = FALSE
    BY <2>1, UpdateFacts
  <2>3. QED BY <1>2, <2>2 DEF Analyze, TypeOK
<1>3. CASE Begin(r)
  <2>1. status[r] # "deleted" /\ Update(r, "in_progress", FALSE)
    BY <1>3 DEF Begin
  <2>2. status'[r] = "in_progress" /\ recorded'[r] = FALSE
    BY <2>1, UpdateFacts
  <2>3. QED BY <1>3, <2>2 DEF Begin, TypeOK
<1>4. CASE AnnounceStart(r) \/ StartAgent(r) \/ (\E fails \in BOOLEAN : EndAgent(r, fails))
  BY <1>4 DEF AnnounceStart, StartAgent, EndAgent, TypeOK
<1>5. CASE Push(r) \/ Fetch(r)
  <2>1. flow[r] = "running" /\ UNCHANGED <<status, recorded, submit>> /\ submit[r] = "answered"
    BY <1>5 DEF Push, Fetch, TypeOK, Submitting
  <2>2. CASE Push(r)
    BY <2>1, <2>2 DEF Push, TypeOK
  <2>3. CASE Fetch(r)
    <3>1. flow'[r] = "fetched" /\ seen'[r] = Row(r) /\ noted' = noted
      BY <2>3 DEF Fetch, TypeOK
    <3>2. seen'[r].recorded = recorded[r]
      BY <3>1 DEF Row
    <3>3. QED BY <2>1, <3>1, <3>2
  <2>4. QED BY <1>5, <2>2, <2>3
<1>6. CASE RecordCommit(r)
  <2>1. /\ flow[r] = "committing" /\ flow'[r] = "running" /\ noted'[r] = TRUE
        /\ submit'[r] = submit[r] /\ Update(r, seen[r].status, TRUE)
    BY <1>6 DEF RecordCommit, TypeOK
  <2>2. submit[r] = "answered" /\ status[r] # "deleted"
    BY <2>1 DEF TypeOK, Submitting
  <2>3. recorded'[r] = TRUE /\ status'[r] = seen[r].status
    BY <2>1, <2>2, UpdateFacts
  <2>4. QED BY <2>1, <2>2, <2>3
<1>7. CASE ConcludeRaised(r) \/ \E escalated \in BOOLEAN : Conclude(r, escalated)
  <2>1. /\ flow[r] \in {"raised", "fetched"} /\ flow'[r] = "closing"
        /\ submit'[r] = submit[r] /\ noted'[r] = noted[r]
    BY <1>7 DEF ConcludeRaised, Conclude, TypeOK
  <2>2. submit[r] = "answered"
    BY <2>1 DEF TypeOK, Submitting
  <2>3. CASE ConcludeRaised(r)
    <3>0. Update(r, "failed", FALSE)
      BY <2>3 DEF ConcludeRaised
    <3>1. status'[r] \in {"failed", "deleted"}
      BY <3>0, UpdateFacts
    <3>2. QED BY <2>1, <2>2, <3>1
  <2>4. ASSUME NEW escalated \in BOOLEAN, Conclude(r, escalated) PROVE RecordOf(r)'
    <3>1. recorded'[r] = seen[r].recorded /\ seen[r].recorded = noted[r]
      BY <2>1, <2>4, UpdateFacts DEF Conclude
    <3>2. QED BY <2>1, <2>2, <3>1
  <2>5. QED BY <1>7, <2>3, <2>4
<1>8. CASE DropCommit(r) \/ Raise(r) \/ AnnounceEnd(r)
  BY <1>8 DEF DropCommit, Raise, AnnounceEnd, TypeOK
<1>9. QED
  BY <1>1, <1>2, <1>3, <1>4, <1>5, <1>6, <1>7, <1>8 DEF Submit, RunWorkflow

\* What a call of cancel() or of the delete route does to them.
LEMMA ServeFlow ==
  ASSUME TypeInv, CallInv, FlowInv, NEW r \in Requests, NEW c \in Clients, Serve(c)
  PROVE  FlowOf(r)'
<1> USE DEF TypeInv, FlowInv, FlowOf, Ended, Terminal, row, subtasks
<1>1. CASE Kill(c)
  BY <1>1 DEF Kill, TypeOK, Live, Working, CallInv
<1>2. CASE MarkSubtasks(c) \/ Refetch(c) \/ Tell(c)
  BY <1>2 DEF MarkSubtasks, Refetch, Tell
<1>3. CASE WriteCancelled(c)
  <2> DEFINE q == call[c].req
  <2>1. q \in Requests /\ flow[q] \notin Live /\ submit[q] = "answered"
    BY <1>3, CallTyped DEF WriteCancelled, CallInv, CallType
  <2>2. Update(q, "cancelled", call[c].seen.recorded)
        /\ UNCHANGED <<submit, flow, seen>>
    BY <1>3 DEF WriteCancelled
  <2>3. \A x \in Requests \ {q} : status'[x] = status[x]
    BY <2>1, <2>2, UpdateFacts
  <2>4. QED BY <2>1, <2>2, <2>3 DEF Live, Working
<1>4. CASE Erase(c)
  <2> DEFINE q == call[c].req
  <2>1. q \in Requests /\ status[q] \in Ended
    BY <1>4, CallTyped DEF Erase, CallInv, CallType
  <2>2. UNCHANGED <<submit, flow, seen>> /\ \A x \in Requests \ {q} : status'[x] = status[x]
    BY <1>4 DEF Erase, TypeOK
  <2>3. QED BY <2>1, <2>2
<1>5. QED BY <1>1, <1>2, <1>3, <1>4 DEF Serve

LEMMA ServeRecord ==
  ASSUME TypeInv, CallInv, FlowInv, RecordInv, NEW r \in Requests, NEW c \in Clients, Serve(c)
  PROVE  RecordOf(r)'
<1> USE DEF TypeInv, RecordInv, RecordOf, row, subtasks
<1>1. CASE Kill(c)
  BY <1>1 DEF Kill, TypeOK
<1>2. CASE MarkSubtasks(c) \/ Refetch(c) \/ Tell(c)
  BY <1>2 DEF MarkSubtasks, Refetch, Tell
<1>3. CASE WriteCancelled(c)
  <2> DEFINE q == call[c].req
  <2>1. q \in Requests /\ flow[q] \notin Live /\ submit[q] = "answered"
    BY <1>3, CallTyped DEF WriteCancelled, CallInv, CallType
  <2>2. Update(q, "cancelled", call[c].seen.recorded)
        /\ UNCHANGED <<submit, flow, seen, noted>>
    BY <1>3 DEF WriteCancelled
  <2>3. \A x \in Requests \ {q} : status'[x] = status[x] /\ recorded'[x] = recorded[x]
    BY <2>1, <2>2, UpdateFacts
  <2>4. status'[q] \in {"cancelled", "deleted"}
    BY <2>1, <2>2, UpdateFacts
  <2>5. CASE r = q
    BY <2>1, <2>2, <2>4, <2>5 DEF Live, Working
  <2>6. CASE r # q
    BY <2>2, <2>3, <2>6
  <2>7. QED BY <2>5, <2>6
<1>4. CASE Erase(c)
  <2> DEFINE q == call[c].req
  <2>1. q \in Requests /\ submit[q] = "answered" /\ flow[q] \notin Working
    BY <1>4, CallTyped DEF Erase, CallInv, CallType, FlowInv, FlowOf
  <2>2. UNCHANGED <<submit, flow, seen, noted>>
        /\ (\A x \in Requests \ {q} : status'[x] = status[x] /\ recorded'[x] = recorded[x])
        /\ status'[q] = "deleted"
    BY <1>4, <2>1 DEF Erase, TypeOK
  <2>3. CASE r = q
    BY <2>1, <2>2, <2>3 DEF Working
  <2>4. CASE r # q
    BY <2>2, <2>4
  <2>5. QED BY <2>3, <2>4
<1>5. QED BY <1>1, <1>2, <1>3, <1>4 DEF Serve

(***************************************************************************)
(* The calls themselves                                                    *)
(***************************************************************************)
LEMMA OwnCalls ==
  ASSUME TypeInv, FlowInv, CallInv, NEW r \in Requests, Submit(r) \/ RunWorkflow(r)
  PROVE  CallInv'
<1>1. Own(r)
  BY OwnSteps
<1>2. CASE submit[r] # "answered"
  <2>1. status[r] \notin Ended
    BY <1>2 DEF FlowInv, FlowOf
  <2>2. \A c \in Clients : call[c].at \in {"kill", "mark", "fetch", "write", "tell", "erase"}
          => call[c].req # r
    BY <1>2, <2>1 DEF CallInv
  <2>3. \A c \in Clients : call[c].at \in {"kill", "mark", "fetch", "write", "tell", "erase"}
          => call[c].req \in Requests \ {r}
    BY <2>2, CallTyped DEF TypeInv, CallType
  <2>4. QED BY <1>1, <2>3 DEF Own, CallInv
<1>3. CASE submit[r] = "answered"
  <2>1. RunWorkflow(r) /\ submit'[r] = submit[r] /\ flow[r] \in Live
    BY <1>3 DEF Submit, Create, Analyze, Launch, Stamp, RunWorkflow, Begin, AnnounceStart,
                StartAgent, EndAgent, Push, RecordCommit, DropCommit, Fetch, Conclude, Raise, ConcludeRaised,
                AnnounceEnd, Live, Working
  <2>2. status[r] \in Ended => status'[r] = status[r]
    <3> SUFFICES ASSUME status[r] \in Ended PROVE status'[r] = status[r]
      OBVIOUS
    <3>1. flow[r] \notin Working
      BY DEF FlowInv, FlowOf
    <3>2. AnnounceEnd(r)
      BY <2>1, <3>1 DEF RunWorkflow, Begin, AnnounceStart, StartAgent, EndAgent, Push,
                        RecordCommit, DropCommit, Fetch, Conclude, Raise, ConcludeRaised, Working
    <3>3. QED BY <3>2 DEF AnnounceEnd, row
  <2>3. ASSUME NEW c \in Clients
        PROVE  /\ call'[c].at \in {"mark", "fetch", "write", "tell"} => flow'[call'[c].req] \notin Live
               /\ call'[c].at \in {"kill", "mark", "fetch", "write", "tell"}
                    => submit'[call'[c].req] = "answered"
               /\ call'[c].at = "erase" => status'[call'[c].req] \in Ended
    <3>1. CASE call[c].at = "idle"
      BY <1>1, <3>1 DEF Own
    <3>2. CASE call[c].at # "idle" /\ call[c].req = r
      BY <1>1, <1>3, <2>1, <2>2, <3>2 DEF Own, CallInv
    <3>3. CASE call[c].at # "idle" /\ call[c].req # r
      <4>1. call[c].req \in Requests \ {r}
        BY <3>3, CallTyped DEF TypeInv, CallType
      <4>2. QED BY <1>1, <4>1 DEF Own, CallInv
    <3>4. QED BY <3>1, <3>2, <3>3
  <2>4. QED BY <2>3 DEF CallInv
<1>4. QED BY <1>2, <1>3

LEMMA ServeCalls ==
  ASSUME OneWorkerCalm, TypeInv, FlowInv, CallInv, NEW c \in Clients, Serve(c)
  PROVE  CallInv'
<1> USE DEF TypeInv, CallInv, row, subtasks
<1> DEFINE q == call[c].req
<1>1. call[c].at # "idle" /\ q \in Requests /\ call[c].worker \in Workers /\ call[c] \in Pending
  BY CallTyped, CallFacts
  DEF Serve, Kill, MarkSubtasks, Refetch, WriteCancelled, Tell, Erase, CallType, TypeOK
<1>2. \A d \in Clients \ {c} : call'[d] = call[d]
  BY DEF Serve, Kill, MarkSubtasks, Refetch, WriteCancelled, Tell, Erase, Goto, TypeOK
<1>3. submit' = submit
  BY DEF Serve, Kill, MarkSubtasks, Refetch, WriteCancelled, Tell, Erase
<1>4. \A r \in Requests : flow[r] \notin Live => flow'[r] \notin Live
  BY DEF Serve, Kill, MarkSubtasks, Refetch, WriteCancelled, Tell, Erase, TypeOK, Live, Working
<1>5. \A r \in Requests : status[r] \in Ended => status'[r] \in Ended
  <2>1. CASE WriteCancelled(c)
    <3>1. Update(q, "cancelled", call[c].seen.recorded)
      BY <2>1 DEF WriteCancelled
    <3>2. /\ \A x \in Requests \ {q} : status'[x] = status[x]
          /\ status'[q] \in {"cancelled", "deleted"}
      BY <1>1, <3>1, UpdateFacts
    <3>3. QED BY <3>2 DEF Ended, Terminal
  <2>2. CASE Erase(c)
    BY <2>2 DEF Erase, TypeOK, Ended
  <2>3. CASE Kill(c) \/ MarkSubtasks(c) \/ Refetch(c) \/ Tell(c)
    BY <2>3 DEF Kill, MarkSubtasks, Refetch, Tell
  <2>4. QED BY <2>1, <2>2, <2>3 DEF Serve
<1>6. \A d \in Clients \ {c} : call[d].at # "idle" => call[d].req \in Requests
  BY CallTyped DEF CallType
<1>7. /\ call'[c].at \in {"mark", "fetch", "write", "tell", "idle"}
      /\ call'[c].at # "idle" => call'[c].req = q /\ flow'[q] \notin Live /\ submit'[q] = "answered"
  <2>1. CASE Kill(c)
    <3>1. home[q] = call[c].worker
      BY <1>1 DEF OneWorkerCalm, TypeOK
    <3>2. flow'[q] \notin Live
      BY <1>1, <2>1, <3>1 DEF Kill, TypeOK, Live, Working
    <3>3. call'[c].at = "mark" /\ call'[c].req = q /\ submit[q] = "answered"
      BY <1>1, <2>1 DEF Kill, Goto, TypeOK, Pending
    <3>4. QED BY <1>3, <3>2, <3>3
  <2>2. CASE MarkSubtasks(c) \/ Refetch(c) \/ WriteCancelled(c)
    <3>1. flow[q] \notin Live /\ submit[q] = "answered"
      BY <2>2 DEF MarkSubtasks, Refetch, WriteCancelled
    <3>2. call'[c].at \in {"fetch", "write", "tell"} /\ call'[c].req = q
      BY <1>1, <2>2 DEF MarkSubtasks, Refetch, WriteCancelled, Goto, TypeOK, Pending
    <3>3. QED BY <1>1, <1>3, <1>4, <3>1, <3>2
  <2>3. CASE Tell(c) \/ Erase(c)
    BY <2>3, CallFacts DEF Tell, Erase, TypeOK
  <2>4. QED BY <2>1, <2>2, <2>3 DEF Serve
<1>8. QED BY <1>2, <1>3, <1>4, <1>5, <1>6, <1>7

(***************************************************************************)
(* The induction                                                           *)
(***************************************************************************)
CancelInv == FlowInv /\ CallInv /\ RecordInv

LEMMA CancelInit == Init => CancelInv
<1> SUFFICES ASSUME Init PROVE CancelInv
  OBVIOUS
<1>1. FlowInv /\ RecordInv
  BY DEF Init, FlowInv, FlowOf, RecordInv, RecordOf, Ended, Terminal, NoRow
<1>2. CallInv
  BY DEF Init, CallInv, Idle
<1>3. QED BY <1>1, <1>2 DEF CancelInv

LEMMA CancelInduction ==
  ASSUME OneWorkerCalm PROVE TypeInv /\ CancelInv /\ [Next]_vars => CancelInv'
<1> SUFFICES ASSUME TypeInv, CancelInv, [Next]_vars PROVE CancelInv'
  OBVIOUS
<1> USE DEF CancelInv
<1>1. ASSUME NEW r \in Requests, Submit(r) \/ RunWorkflow(r) PROVE CancelInv'
  <2>1. FlowOf(r)' /\ RecordOf(r)'
    BY <1>1, OwnFlow, OwnRecord DEF FlowInv, RecordInv
  <2>2. \A q \in Requests \ {r} : FlowOf(q)' /\ RecordOf(q)'
    BY <1>1, OwnSteps DEF Own, FlowInv, RecordInv, FlowOf, RecordOf
  <2>3. QED BY <1>1, <2>1, <2>2, OwnCalls DEF FlowInv, RecordInv
<1>2. ASSUME NEW c \in Clients, Serve(c) PROVE CancelInv'
  BY <1>2, ServeFlow, ServeRecord, ServeCalls DEF FlowInv, RecordInv
<1>3. ASSUME NEW c \in Clients, NEW r \in Requests, NEW w \in Workers,
             CallCancel(c, r, w) \/ CallDelete(c, r, w)
      PROVE  CancelInv'
  <2>1. FlowInv' /\ RecordInv'
    BY <1>3 DEF CallCancel, CallDelete, FlowInv, RecordInv, FlowOf, RecordOf, row, subtasks
  <2>2. CallInv'
    BY <1>3 DEF CallCancel, CallDelete, CallInv, OneWorkerCalm, TypeInv, TypeOK, Ended, row, subtasks
  <2>3. QED BY <2>1, <2>2
<1>4. ASSUME NEW w \in Workers, Crash(w) PROVE CancelInv'
  <2>1. ASSUME NEW r \in Requests
        PROVE  \/ submit'[r] = submit[r] /\ flow'[r] = flow[r]
               \/ submit'[r] = "answered" /\ flow'[r] = "killed"
               \/ submit'[r] = "answered" /\ flow'[r] = "off" /\ flow[r] = "off"
    <3>1. FlowOf(r)
      BY DEF FlowInv
    <3>2. /\ flow'[r] = IF home[r] = w /\ flow[r] \in Live THEN "killed" ELSE flow[r]
          /\ submit'[r] = IF home[r] = w /\ submit[r] \in Submitting THEN "answered" ELSE submit[r]
      BY <1>4 DEF Crash
    <3>3. submit[r] \in {"idle", "answered"} \cup Submitting
      BY DEF TypeInv, TypeOK
    <3>4. QED BY <3>1, <3>2, <3>3 DEF FlowOf, Live, Working, Submitting
  <2>3. UNCHANGED <<status, recorded, seen, noted>>
    BY <1>4 DEF Crash, row
  <2>4. \A c \in Clients : call'[c] = call[c] \/ call'[c] = Idle
    BY <1>4 DEF Crash, TypeInv, TypeOK
  <2>5. FlowInv'
    BY <2>1, <2>3 DEF FlowInv, FlowOf, Working
  <2>6. RecordInv'
    BY <2>1, <2>3 DEF RecordInv, RecordOf
  <2>7. CallInv'
    BY <2>1, <2>3, <2>4, CallTyped, CallFacts DEF CallInv, CallType, TypeInv, Live, Working, Idle
  <2>8. QED BY <2>5, <2>6, <2>7
<1>5. CASE UNCHANGED vars
  BY <1>5 DEF vars, FlowInv, FlowOf, RecordInv, RecordOf, CallInv
<1>6. QED BY <1>1, <1>2, <1>3, <1>4, <1>5 DEF Next

(***************************************************************************)
(* The theorems                                                            *)
(***************************************************************************)
\* With one worker a deleted request has no workflow behind it.
THEOREM NoWorkAfterDeleteHolds == ASSUME OneWorkerCalm PROVE Spec => []NoWorkAfterDelete
<1>1. TypeInv /\ CancelInv => NoWorkAfterDelete
  BY DEF CancelInv, FlowInv, FlowOf, NoWorkAfterDelete, Ended
<1>2. QED BY <1>1, CancelInit, TypeInvariance, CancelInduction, PTL DEF Spec

\* With one worker the row of a completed request names the commit exactly if
\* the commit handler wrote it there.
THEOREM RecordMatchesHolds == ASSUME OneWorkerCalm PROVE Spec => []RecordMatches
<1>1. TypeInv /\ CancelInv => RecordMatches
  BY DEF CancelInv, RecordInv, RecordOf, RecordMatches
<1>2. QED BY <1>1, CancelInit, TypeInvariance, CancelInduction, PTL DEF Spec

\* With one worker a cancelled request stays cancelled until it is deleted.
THEOREM CancelledStaysHolds == ASSUME OneWorkerCalm PROVE Spec => CancelledStays
<1>1. TypeInv /\ CancelInv /\ [Next]_vars
        => [\A r \in Requests : status[r] = "cancelled" => status'[r] \in {"cancelled", "deleted"}]_vars
  <2> SUFFICES ASSUME TypeInv, CancelInv, [Next]_vars, NEW r \in Requests, status[r] = "cancelled"
               PROVE  status'[r] \in {"cancelled", "deleted"}
    OBVIOUS
  <2> USE DEF row
  <2>1. submit[r] = "answered" /\ flow[r] \notin Working
    BY DEF CancelInv, FlowInv, FlowOf, Ended, Terminal
  <2>2. ASSUME NEW q \in Requests, Submit(q) \/ RunWorkflow(q) PROVE status'[r] = status[r]
    <3>1. CASE q # r
      BY <2>2, <3>1, OwnSteps DEF Own
    <3>2. CASE q = r
      <4>1. AnnounceEnd(r)
        BY <2>1, <2>2, <3>2
        DEF Submit, Create, Analyze, Launch, Stamp, RunWorkflow, Begin, AnnounceStart, StartAgent,
            EndAgent, Push, RecordCommit, DropCommit, Fetch, Conclude, Raise, ConcludeRaised, Working
      <4>2. QED BY <4>1 DEF AnnounceEnd
    <3>3. QED BY <3>1, <3>2
  <2>3. ASSUME NEW c \in Clients, Serve(c) PROVE status'[r] \in {"cancelled", "deleted"}
    <3>1. CASE WriteCancelled(c)
      <4>1. call[c].req \in Requests /\ Update(call[c].req, "cancelled", call[c].seen.recorded)
        BY <3>1, CallTyped DEF WriteCancelled, CallType, TypeInv
      <4>2. QED BY <4>1, UpdateFacts DEF TypeInv
    <3>2. CASE Erase(c)
      BY <3>2 DEF Erase, TypeInv, TypeOK
    <3>3. CASE Kill(c) \/ MarkSubtasks(c) \/ Refetch(c) \/ Tell(c)
      BY <3>3 DEF Kill, MarkSubtasks, Refetch, Tell
    <3>4. QED BY <2>3, <3>1, <3>2, <3>3 DEF Serve
  <2>4. ASSUME NEW c \in Clients, NEW q \in Requests, NEW w \in Workers,
               CallCancel(c, q, w) \/ CallDelete(c, q, w)
        PROVE  status'[r] = status[r]
    BY <2>4 DEF CallCancel, CallDelete
  <2>5. CASE UNCHANGED vars
    BY <2>5 DEF vars
  <2>6. ASSUME NEW w \in Workers, Crash(w) PROVE status'[r] = status[r]
    BY <2>6 DEF Crash
  <2>7. QED BY <2>2, <2>3, <2>4, <2>5, <2>6 DEF Next
<1>2. QED
  BY <1>1, CancelInit, TypeInvariance, CancelInduction, PTL DEF Spec, CancelledStays

(***************************************************************************)
(* What is left behind.  The subtask rows and the task of a request are    *)
(* settled by the coroutine or by the call that ended it, and whichever it *)
(* is still has it before it.                                              *)
(***************************************************************************)
Cancelling(c, r) == call[c].at \in {"kill", "mark", "fetch", "write", "tell"} /\ call[c].req = r

\* A subtask shown as running belongs to an agent, or to a workflow that a
\* cancellation has just killed and whose rows it is about to mark.
SpinOf(r) ==
  /\ submit[r] \in {"idle", "created", "analyzed"} => flow[r] = "off"
  /\ spinning[r] => \/ lost[r]
                    \/ flow[r] = "agent"
                    \/ \E c \in Clients : call[c].at = "mark" /\ call[c].req = r

SpinInv == \A r \in Requests : SpinOf(r)

\* What a coroutine announces at the end is what it wrote; a request that
\* ended without its task being told has somebody left to tell it.
TaskOfRequest(r) ==
  /\ flow[r] = "closing" => status[r] \in {seen[r].status, "deleted"}
  /\ status[r] \in Terminal =>
       \/ lost[r] \/ flow[r] = "closing" \/ (\E c \in Clients : Cancelling(c, r))
       \/ task[r] = TaskOf(status[r])

TaskInv ==
  /\ \A r \in Requests : TaskOfRequest(r)
  /\ \A c \in Clients : call[c].at = "tell" => status[call[c].req] \in {"cancelled", "deleted"}

\* A request's own coroutines leave the subtasks and tasks of others alone.
LEMMA OwnRest ==
  ASSUME TypeInv, NEW r \in Requests, Submit(r) \/ RunWorkflow(r)
  PROVE  /\ lost' = lost
         /\ \A q \in Requests \ {r} : spinning'[q] = spinning[q] /\ task'[q] = task[q]
<1> USE DEF TypeInv, subtasks
<1>1. CASE Submit(r)
  BY <1>1 DEF Submit, Create, Analyze, Launch, Stamp, Emit, TypeOK
<1>2. CASE RunWorkflow(r)
  <2>1. CASE Begin(r) \/ AnnounceStart(r) \/ StartAgent(r) \/ \E fails \in BOOLEAN : EndAgent(r, fails)
    BY <2>1 DEF Begin, AnnounceStart, StartAgent, EndAgent, Emit, TypeOK
  <2>2. CASE \/ Push(r) \/ RecordCommit(r) \/ Fetch(r) \/ Raise(r) \/ ConcludeRaised(r)
             \/ DropCommit(r) \/ \E escalated \in BOOLEAN : Conclude(r, escalated)
    BY <2>2 DEF Push, RecordCommit, DropCommit, Fetch, Conclude, Raise, ConcludeRaised
  <2>3. CASE AnnounceEnd(r)
    BY <2>3 DEF AnnounceEnd, Emit, TypeOK
  <2>4. QED BY <1>2, <2>1, <2>2, <2>3 DEF RunWorkflow
<1>3. QED BY <1>1, <1>2

LEMMA SpinStep ==
  ASSUME TypeInv, SpinInv, [Next]_vars
  PROVE  SpinInv'
<1> USE DEF TypeInv, subtasks
<1>1. ASSUME NEW r \in Requests, Submit(r) \/ RunWorkflow(r) PROVE SpinInv'
  <2>1. Own(r) /\ lost' = lost /\ \A q \in Requests \ {r} : spinning'[q] = spinning[q]
    BY <1>1, OwnSteps, OwnRest
  <2>2. /\ spinning'[r] => (spinning[r] /\ flow[r] # "agent") \/ flow'[r] = "agent"
        /\ submit'[r] \in {"idle", "created", "analyzed"} => flow'[r] = "off"
    <3>1. CASE Submit(r)
      BY <3>1 DEF Submit, Create, Analyze, Launch, Stamp, SpinInv, SpinOf, TypeOK
    <3>2. CASE RunWorkflow(r)
      <4>1. flow[r] # "off" /\ submit' = submit
        BY <3>2 DEF RunWorkflow, Begin, AnnounceStart, StartAgent, EndAgent, Push, RecordCommit, DropCommit, Fetch,
                    Conclude, Raise, ConcludeRaised, AnnounceEnd
      <4>2. spinning'[r] => (spinning[r] /\ flow[r] # "agent") \/ flow'[r] = "agent"
        BY <3>2 DEF RunWorkflow, Begin, AnnounceStart, StartAgent, EndAgent, Push, RecordCommit, DropCommit, Fetch,
                    Conclude, Raise, ConcludeRaised, AnnounceEnd, TypeOK
      <4>3. QED BY <4>1, <4>2 DEF SpinInv, SpinOf
    <3>3. QED BY <1>1, <3>1, <3>2
  <2>3. SpinOf(r)'
    BY <2>1, <2>2 DEF SpinInv, SpinOf, Own
  <2>4. \A q \in Requests \ {r} : SpinOf(q)'
    BY <2>1 DEF SpinInv, SpinOf, Own
  <2>5. QED BY <2>3, <2>4 DEF SpinInv
<1>2. ASSUME NEW c \in Clients, Serve(c) PROVE SpinInv'
  <2> DEFINE q == call[c].req
  <2>1. /\ q \in Requests /\ call[c] \in Pending
        /\ lost' = lost /\ submit' = submit
        /\ \A d \in Clients \ {c} : call'[d] = call[d]
    <3>1. call[c].at # "idle"
      BY <1>2 DEF Serve, Kill, MarkSubtasks, Refetch, WriteCancelled, Tell, Erase
    <3>2. q \in Requests /\ call[c] \in Pending
      BY <3>1, CallTyped, CallFacts DEF CallType, TypeOK
    <3>3. lost' = lost /\ submit' = submit /\ \A d \in Clients \ {c} : call'[d] = call[d]
      BY <1>2 DEF Serve, Kill, MarkSubtasks, Refetch, WriteCancelled, Tell, Erase, Goto, TypeOK
    <3>4. QED BY <3>2, <3>3
  <2>2. CASE Kill(c)
    <3>1. /\ call'[c].at = "mark" /\ call'[c].req = q /\ spinning' = spinning
          /\ \A r \in Requests \ {q} : flow'[r] = flow[r]
          /\ flow[q] = "off" => flow'[q] = "off"
      BY <2>1, <2>2 DEF Kill, Goto, TypeOK, Pending, Live, Working
    <3>2. call[c].at # "mark"
      BY <2>2 DEF Kill
    <3>3. ASSUME NEW r \in Requests PROVE SpinOf(r)'
      <4>1. CASE r = q
        <5>1. \E d \in Clients : call'[d].at = "mark" /\ call'[d].req = r
          BY <3>1, <4>1
        <5>2. submit'[r] \in {"idle", "created", "analyzed"} => flow'[r] = "off"
          BY <2>1, <3>1, <4>1 DEF SpinInv, SpinOf
        <5>3. QED BY <5>1, <5>2 DEF SpinOf
      <4>2. CASE r # q
        <5>1. \A d \in Clients : call[d].at = "mark" => call'[d] = call[d]
          BY <2>1, <3>2
        <5>2. flow'[r] = flow[r] /\ spinning'[r] = spinning[r] /\ submit'[r] = submit[r]
          BY <2>1, <3>1, <4>2
        <5>3. SpinOf(r)
          BY DEF SpinInv
        <5>4. QED BY <2>1, <5>1, <5>2, <5>3 DEF SpinOf
      <4>3. QED BY <4>1, <4>2
    <3>4. QED BY <3>3 DEF SpinInv
  <2>3. CASE MarkSubtasks(c) \/ Erase(c)
    <3>1. /\ spinning' = [spinning EXCEPT ![q] = FALSE] /\ flow' = flow
      BY <2>3 DEF MarkSubtasks, Erase
    <3>2. ASSUME NEW r \in Requests PROVE SpinOf(r)'
      <4>1. CASE r = q
        <5>1. ~spinning'[r]
          BY <3>1, <4>1 DEF TypeOK
        <5>2. QED BY <2>1, <3>1, <5>1 DEF SpinInv, SpinOf
      <4>2. CASE r # q
        <5>1. spinning'[r] = spinning[r] /\ flow'[r] = flow[r]
          BY <3>1, <4>2 DEF TypeOK
        <5>2. QED BY <2>1, <4>2, <5>1 DEF SpinInv, SpinOf
      <4>3. QED BY <4>1, <4>2
    <3>3. QED BY <3>2 DEF SpinInv
  <2>4. CASE Refetch(c) \/ WriteCancelled(c) \/ Tell(c)
    <3>1. call[c].at # "mark" /\ spinning' = spinning /\ flow' = flow
      BY <2>4 DEF Refetch, WriteCancelled, Tell
    <3>2. QED BY <2>1, <3>1 DEF SpinInv, SpinOf
  <2>5. QED BY <1>2, <2>2, <2>3, <2>4 DEF Serve
<1>3. ASSUME NEW c \in Clients, NEW r \in Requests, NEW w \in Workers,
             CallCancel(c, r, w) \/ CallDelete(c, r, w)
      PROVE  SpinInv'
  <2>1. call[c].at # "mark" /\ \A d \in Clients \ {c} : call'[d] = call[d]
    BY <1>3 DEF CallCancel, CallDelete, Idle, TypeOK
  <2>2. UNCHANGED <<spinning, flow, lost, submit>>
    BY <1>3 DEF CallCancel, CallDelete
  <2>3. QED BY <2>1, <2>2 DEF SpinInv, SpinOf
<1>4. ASSUME NEW w \in Workers, Crash(w) PROVE SpinInv'
  <2>1. ASSUME NEW r \in Requests, spinning'[r], ~lost'[r]
        PROVE  flow'[r] = "agent" \/ \E c \in Clients : call'[c].at = "mark" /\ call'[c].req = r
    <3>1. /\ spinning[r] /\ ~lost[r]
          /\ ~(home[r] = w /\ flow[r] \in Live)
          /\ \A c \in Clients : Busy(c, r) => call[c].worker # w
      BY <1>4, <2>1 DEF Crash
    <3>2. flow'[r] = flow[r]
      BY <1>4, <3>1 DEF Crash
    <3>3. ASSUME NEW c \in Clients, call[c].at = "mark", call[c].req = r PROVE call'[c] = call[c]
      <4>1. call[c] # Idle
        BY <3>3 DEF Idle
      <4>2. QED BY <1>4, <3>1, <3>3, <4>1 DEF Crash, Busy
    <3>4. QED BY <3>1, <3>2, <3>3 DEF SpinInv, SpinOf
  <2>2. ASSUME NEW r \in Requests, submit'[r] \in {"idle", "created", "analyzed"} PROVE flow'[r] = "off"
    <3>1. submit[r] = submit'[r]
      BY <1>4, <2>2 DEF Crash
    <3>2. flow[r] = "off"
      BY <2>2, <3>1 DEF SpinInv, SpinOf
    <3>3. QED BY <1>4, <3>2 DEF Crash, Live, Working
  <2>3. QED BY <2>1, <2>2 DEF SpinInv, SpinOf
<1>5. CASE UNCHANGED vars
  BY <1>5 DEF vars, SpinInv, SpinOf
<1>6. QED BY <1>1, <1>2, <1>3, <1>4, <1>5 DEF Next

\* When all is quiet no subtask is shown as running, with any number of
\* workers and even for clients that cancel early.
THEOREM NothingSpinsHolds == Spec => []NothingSpins
<1>1. Init => SpinInv
  BY DEF Init, SpinInv, SpinOf
<1>2. TypeInv /\ SpinInv /\ [Next]_vars => SpinInv'
  BY SpinStep
<1>3. SpinInv => NothingSpins
  BY DEF SpinInv, SpinOf, NothingSpins, Quiet, Busy, Idle, Live, Working
<1>4. QED BY <1>1, <1>2, <1>3, TypeInvariance, PTL DEF Spec

\* Telling a task what its request has become makes it agree.
LEMMA EmitFacts ==
  ASSUME TypeOK, NEW r \in Requests, NEW st, Emit(r, st)
  PROVE  /\ \A q \in Requests \ {r} : task'[q] = task[q]
         /\ status[r] # "deleted" => task'[r] = TaskOf(st)
BY DEF TypeOK, Emit

\* With a terminal status the only step its own coroutine has left is to
\* announce the end; a step that writes one is about to.
LEMMA TaskOwn ==
  ASSUME TypeInv, NEW r \in Requests, FlowOf(r), TaskOfRequest(r), Submit(r) \/ RunWorkflow(r)
  PROVE  TaskOfRequest(r)'
<1> USE DEF TypeInv, FlowOf, Ended, row, subtasks
<1>1. call' = call /\ lost' = lost
  BY OwnSteps, OwnRest DEF Own
<1>2. CASE ConcludeRaised(r) \/ \E escalated \in BOOLEAN : Conclude(r, escalated)
  <2>1. PICK st \in {"completed", "failed"}, rec \in BOOLEAN :
          /\ flow' = [flow EXCEPT ![r] = "closing"]
          /\ seen' = [seen EXCEPT ![r].status = st]
          /\ Update(r, st, rec)
    <3>1. seen[r].recorded \in BOOLEAN
      BY DEF TypeOK, Rows
    <3>2. QED BY <1>2, <3>1 DEF ConcludeRaised, Conclude
  <2>0. flow'[r] = "closing" /\ seen'[r].status = st
    <3>1. seen[r] \in Rows
      BY DEF TypeOK
    <3>2. QED BY <2>1, <3>1 DEF TypeOK, Rows
  <2>2. status'[r] \in {seen'[r].status, "deleted"}
    BY <2>0, <2>1, UpdateFacts
  <2>3. QED BY <2>0, <2>2 DEF TaskOfRequest
<1>3. CASE AnnounceEnd(r)
  <2>1. /\ flow[r] = "closing" /\ flow'[r] = "done" /\ status' = status
        /\ Emit(r, seen[r].status)
    BY <1>3 DEF AnnounceEnd, TypeOK
  <2>2. status[r] \in Terminal => task'[r] = TaskOf(status[r])
    BY <2>1, EmitFacts DEF TaskOfRequest, Terminal
  <2>3. QED BY <2>1, <2>2 DEF TaskOfRequest
<1>4. CASE /\ ~AnnounceEnd(r) /\ ~ConcludeRaised(r)
           /\ ~ \E escalated \in BOOLEAN : Conclude(r, escalated)
  <2>1. flow'[r] # "closing" /\ status[r] \notin Ended
    BY <1>4 DEF Submit, Create, Analyze, Launch, Stamp, RunWorkflow, Begin, AnnounceStart, StartAgent,
                EndAgent, Push, RecordCommit, DropCommit, Fetch, Raise, TypeOK, Working, Terminal
  <2>2. status'[r] \notin Terminal
    <3>1. CASE RecordCommit(r)
      <4>1. seen[r].status \notin Ended /\ Update(r, seen[r].status, TRUE)
        BY <3>1 DEF RecordCommit
      <4>2. status'[r] \in {seen[r].status, "deleted"}
        BY <4>1, UpdateFacts
      <4>3. QED BY <4>1, <4>2 DEF Terminal
    <3>2. CASE Analyze(r) \/ Begin(r)
      <4>1. Update(r, "analyzing", FALSE) \/ Update(r, "in_progress", FALSE)
        BY <3>2 DEF Analyze, Begin
      <4>2. status'[r] \in {"analyzing", "in_progress", "deleted"}
        BY <4>1, UpdateFacts
      <4>3. QED BY <4>2 DEF Terminal
    <3>3. CASE ~RecordCommit(r) /\ ~Analyze(r) /\ ~Begin(r)
      BY <1>4, <2>1, <3>3
      DEF Submit, Create, Launch, Stamp, RunWorkflow, AnnounceStart, StartAgent,
          EndAgent, Push, DropCommit, Fetch, Raise, TypeOK, Terminal
    <3>4. QED BY <3>1, <3>2, <3>3
  <2>3. QED BY <2>1, <2>2 DEF TaskOfRequest
<1>5. QED BY <1>2, <1>3, <1>4

LEMMA TaskStep ==
  ASSUME OneWorkerCalm, TypeInv, CancelInv, TaskInv, [Next]_vars
  PROVE  TaskInv'
<1> USE DEF TypeInv, CancelInv, row, subtasks
<1>1. ASSUME NEW r \in Requests, Submit(r) \/ RunWorkflow(r) PROVE TaskInv'
  <2>1. Own(r) /\ lost' = lost /\ \A q \in Requests \ {r} : task'[q] = task[q]
    BY <1>1, OwnSteps, OwnRest
  <2>2. TaskOfRequest(r)'
    BY <1>1, TaskOwn DEF TaskInv, FlowInv
  <2>3. \A q \in Requests \ {r} : TaskOfRequest(q)'
    BY <2>1 DEF TaskInv, TaskOfRequest, Own, Cancelling
  <2>4. ASSUME NEW c \in Clients, call'[c].at = "tell"
        PROVE  status'[call'[c].req] \in {"cancelled", "deleted"}
    <3> DEFINE q == call[c].req
    <3>1. /\ call'[c] = call[c] /\ call[c].at = "tell" /\ q \in Requests
          /\ status[q] \in {"cancelled", "deleted"} /\ flow[q] \notin Live /\ submit[q] = "answered"
      BY <2>1, <2>4, CallTyped DEF Own, TaskInv, CallInv, CallType
    <3>2. q # r
      BY <1>1, <3>1
      DEF Submit, Create, Analyze, Launch, Stamp, RunWorkflow, Begin, AnnounceStart, StartAgent,
          EndAgent, Push, RecordCommit, DropCommit, Fetch, Conclude, Raise, ConcludeRaised, AnnounceEnd, Live, Working
    <3>3. QED BY <2>1, <3>1, <3>2 DEF Own
  <2>5. QED BY <2>2, <2>3, <2>4 DEF TaskInv
<1>2. ASSUME NEW c \in Clients, Serve(c) PROVE TaskInv'
  <2> DEFINE q == call[c].req
  <2>1. q \in Requests /\ call[c] \in Pending
    <3>1. call[c].at # "idle"
      BY <1>2 DEF Serve, Kill, MarkSubtasks, Refetch, WriteCancelled, Tell, Erase
    <3>2. QED BY <3>1, CallTyped, CallFacts DEF CallType, TypeOK
  <2>2. /\ lost' = lost /\ seen' = seen
        /\ \A d \in Clients \ {c} : call'[d] = call[d]
    BY <1>2 DEF Serve, Kill, MarkSubtasks, Refetch, WriteCancelled, Tell, Erase, Goto, TypeOK
  <2>3. CASE Kill(c) \/ MarkSubtasks(c) \/ Refetch(c)
    <3>1. /\ Cancelling(c, q) /\ call'[c].req = q
          /\ call'[c].at \in {"mark", "fetch", "write"}
      BY <2>1, <2>3 DEF Kill, MarkSubtasks, Refetch, Cancelling, Goto, TypeOK, Pending
    <3>2. /\ status' = status /\ task' = task
          /\ \A r \in Requests : flow'[r] # flow[r] => r = q /\ flow'[r] = "killed"
      <4>1. status' = status /\ task' = task
        BY <2>3 DEF Kill, MarkSubtasks, Refetch
      <4>2. flow' = flow \/ flow' = [flow EXCEPT ![q] = "killed"]
        BY <2>3 DEF Kill, MarkSubtasks, Refetch
      <4>3. QED BY <2>1, <4>1, <4>2 DEF TypeOK
    <3>3. ASSUME NEW r \in Requests PROVE TaskOfRequest(r)'
      <4>1. CASE r = q
        <5>1. flow'[r] = "closing" => flow[r] = "closing"
          BY <3>2
        <5>2. flow'[r] = "closing" => status'[r] \in {seen'[r].status, "deleted"}
          BY <2>2, <3>2, <5>1 DEF TaskInv, TaskOfRequest
        <5>3. \E d \in Clients : Cancelling(d, r)'
          BY <3>1, <4>1 DEF Cancelling
        <5>4. QED BY <5>2, <5>3 DEF TaskOfRequest
      <4>2. CASE r # q
        <5>1. \A d \in Clients : Cancelling(d, r) => Cancelling(d, r)'
          BY <2>2, <3>1, <4>2 DEF Cancelling
        <5>2. QED BY <2>2, <3>2, <4>2, <5>1 DEF TaskInv, TaskOfRequest
      <4>3. QED BY <4>1, <4>2
    <3>4. QED BY <2>2, <3>1, <3>2, <3>3 DEF TaskInv
  <2>4. CASE WriteCancelled(c)
    <3>1. Cancelling(c, q) /\ call'[c].at = "tell" /\ call'[c].req = q
      BY <2>1, <2>4 DEF WriteCancelled, Cancelling, Goto, TypeOK, Pending
    <3>2. flow' = flow /\ task' = task /\ flow[q] \notin Live
          /\ Update(q, "cancelled", call[c].seen.recorded)
      BY <2>4 DEF WriteCancelled, CallInv
    <3>3. /\ \A r \in Requests \ {q} : status'[r] = status[r]
          /\ status'[q] \in {"cancelled", "deleted"}
      BY <2>1, <3>2, UpdateFacts
    <3>4. ASSUME NEW r \in Requests PROVE TaskOfRequest(r)'
      <4>1. CASE r = q
        <5>1. flow'[r] # "closing"
          BY <3>2, <4>1 DEF Live
        <5>2. \E d \in Clients : Cancelling(d, r)'
          BY <3>1, <4>1 DEF Cancelling
        <5>3. QED BY <5>1, <5>2 DEF TaskOfRequest
      <4>2. CASE r # q
        <5>1. \A d \in Clients : Cancelling(d, r) => Cancelling(d, r)'
          BY <2>2, <3>1, <4>2 DEF Cancelling
        <5>2. QED BY <2>2, <3>2, <3>3, <4>2, <5>1 DEF TaskInv, TaskOfRequest
      <4>3. QED BY <4>1, <4>2
    <3>5. ASSUME NEW d \in Clients, call'[d].at = "tell"
          PROVE  status'[call'[d].req] \in {"cancelled", "deleted"}
      <4>1. CASE d = c
        BY <3>1, <3>3, <4>1
      <4>2. CASE d # c
        <5>1. call[d].at = "tell" /\ call[d].req \in Requests /\ call'[d] = call[d]
          BY <2>2, <3>5, <4>2, CallTyped DEF CallType
        <5>2. QED BY <3>3, <5>1 DEF TaskInv
      <4>3. QED BY <4>1, <4>2
    <3>6. QED BY <3>4, <3>5 DEF TaskInv
  <2>5. CASE Tell(c)
    <3>1. /\ status' = status /\ flow' = flow /\ Emit(q, "cancelled")
          /\ status[q] \in {"cancelled", "deleted"} /\ call'[c].at # "tell" /\ Cancelling(c, q)
      BY <2>1, <2>5 DEF Tell, TaskInv, Idle, TypeOK, Cancelling
    <3>2. ASSUME NEW r \in Requests PROVE TaskOfRequest(r)'
      <4>1. CASE r = q
        <5>1. status[r] # "deleted" => task'[r] = TaskOf("cancelled")
          BY <3>1, <4>1, EmitFacts
        <5>2. QED BY <2>2, <3>1, <4>1, <5>1 DEF TaskInv, TaskOfRequest, Terminal
      <4>2. CASE r # q
        <5>1. \A d \in Clients : Cancelling(d, r) => Cancelling(d, r)'
          BY <2>2, <3>1, <4>2 DEF Cancelling
        <5>2. task'[r] = task[r]
          BY <2>1, <3>1, <4>2, EmitFacts
        <5>3. QED BY <2>2, <3>1, <4>2, <5>1, <5>2 DEF TaskInv, TaskOfRequest
      <4>3. QED BY <4>1, <4>2
    <3>3. QED BY <2>2, <3>1, <3>2 DEF TaskInv
  <2>6. CASE Erase(c)
    <3>1. /\ status' = [status EXCEPT ![q] = "deleted"] /\ flow' = flow /\ task' = task
          /\ call'[c].at # "tell" /\ call[c].at = "erase"
      BY <2>1, <2>6 DEF Erase, Idle, TypeOK
    <3>2. status'[q] = "deleted" /\ \A r \in Requests \ {q} : status'[r] = status[r]
      BY <2>1, <3>1 DEF TypeOK
    <3>3. \A d \in Clients, r \in Requests : Cancelling(d, r) => Cancelling(d, r)'
      BY <2>2, <3>1 DEF Cancelling
    <3>4. ASSUME NEW r \in Requests PROVE TaskOfRequest(r)'
      <4>1. CASE r = q
        BY <3>2, <4>1 DEF TaskOfRequest, Terminal
      <4>2. CASE r # q
        BY <2>2, <3>1, <3>2, <3>3, <4>2 DEF TaskInv, TaskOfRequest
      <4>3. QED BY <4>1, <4>2
    <3>5. ASSUME NEW d \in Clients, call'[d].at = "tell"
          PROVE  status'[call'[d].req] \in {"cancelled", "deleted"}
      <4>1. d # c /\ call'[d] = call[d] /\ call[d].req \in Requests
        BY <2>2, <3>1, <3>5, CallTyped DEF CallType
      <4>2. QED BY <3>2, <3>5, <4>1 DEF TaskInv
    <3>6. QED BY <3>4, <3>5 DEF TaskInv
  <2>7. QED BY <1>2, <2>3, <2>4, <2>5, <2>6 DEF Serve
<1>3. ASSUME NEW c \in Clients, NEW r \in Requests, NEW w \in Workers,
             CallCancel(c, r, w) \/ CallDelete(c, r, w)
      PROVE  TaskInv'
  <2>1. /\ call[c].at = "idle" /\ call'[c].at \in {"kill", "erase"}
        /\ \A d \in Clients \ {c} : call'[d] = call[d]
    BY <1>3 DEF CallCancel, CallDelete, Idle, TypeOK
  <2>2. UNCHANGED <<status, flow, seen, lost, task>>
    BY <1>3 DEF CallCancel, CallDelete
  <2>3. \A d \in Clients, q \in Requests : Cancelling(d, q) => Cancelling(d, q)'
    BY <2>1 DEF Cancelling
  <2>4. QED BY <2>1, <2>2, <2>3 DEF TaskInv, TaskOfRequest
<1>4. ASSUME NEW w \in Workers, Crash(w) PROVE TaskInv'
  <2>1. UNCHANGED <<status, seen, task>> /\ \A c \in Clients : call'[c] = call[c] \/ call'[c] = Idle
    BY <1>4 DEF Crash, TypeOK
  <2>2. ASSUME NEW r \in Requests PROVE TaskOfRequest(r)'
    <3>1. CASE lost'[r]
      BY <1>4, <2>1, <3>1 DEF Crash, TaskInv, TaskOfRequest
    <3>2. CASE ~lost'[r]
      <4>1. /\ ~lost[r] /\ flow'[r] = flow[r]
            /\ \A c \in Clients : Busy(c, r) => call[c].worker # w
        BY <1>4, <3>2 DEF Crash
      <4>2. ASSUME NEW c \in Clients, Cancelling(c, r) PROVE Cancelling(c, r)'
        <5>1. Busy(c, r)
          BY <4>2 DEF Cancelling, Busy, Idle
        <5>2. call'[c] = call[c]
          BY <1>4, <4>1, <5>1 DEF Crash, Busy
        <5>3. QED BY <4>2, <5>2 DEF Cancelling
      <4>3. QED BY <2>1, <4>1, <4>2 DEF TaskInv, TaskOfRequest
    <3>3. QED BY <3>1, <3>2
  <2>3. QED BY <2>1, <2>2 DEF TaskInv, Idle
<1>5. CASE UNCHANGED vars
  BY <1>5 DEF vars, TaskInv, TaskOfRequest, Cancelling
<1>6. QED BY <1>1, <1>2, <1>3, <1>4, <1>5 DEF Next

\* With one worker the task shows how its request ended once all is quiet,
\* in whatever order rows were written and events handled.
THEOREM TaskAgreesHolds == ASSUME OneWorkerCalm PROVE Spec => []TaskAgrees
<1>1. Init => TaskInv
  BY DEF Init, TaskInv, TaskOfRequest, Terminal, Idle
<1>2. TypeInv /\ CancelInv /\ TaskInv /\ [Next]_vars => TaskInv'
  BY TaskStep
<1>3. TaskInv => TaskAgrees
  <2> SUFFICES ASSUME TaskInv, NEW r \in Requests, Quiet(r), status[r] \in Terminal
               PROVE  task[r] = TaskOf(status[r])
    BY DEF TaskAgrees, TaskOf, Terminal
  <2>1. ~lost[r] /\ flow[r] # "closing" /\ \A c \in Clients : ~Cancelling(c, r)
    BY DEF Quiet, Live, Busy, Cancelling, Idle
  <2>2. QED BY <2>1 DEF TaskInv, TaskOfRequest
<1>4. QED
  BY <1>1, <1>2, <1>3, CancelInit, TypeInvariance, CancelInduction, PTL DEF Spec

=============================================================================
