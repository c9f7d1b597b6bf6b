-------------------------- MODULE TaskDispatchProofs ---------------------------
(***************************************************************************)
(* Proofs, for any number of tasks, dependencies, requests and callers and *)
(* for dispatch loops that do not overlap (without that assumption they    *)
(* fail), that no two workflows build the same task, that none is launched *)
(* before what it builds on is deployed, and that the row of a task tells  *)
(* how its last request ended.                                             *)
(*                                                                         *)
(* OneLiveRequest is not inductive: a loop dispatches what it read when it *)
(* was started.  The strengthening says that the tasks a loop has still to *)
(* do have no request in flight, that a request in flight shows in its     *)
(* task's row unless its loop is about to write it there, and that a       *)
(* request counts until its end has been told.                             *)
(***************************************************************************)
EXTENDS TaskDispatch, TLAPS

\* From the INSERT until the event of the end has been handled.
Busy(r) == record[r] = "received" \/ work[r] \in {"waiting", "working", "completed", "failed"}
Announcing(r) == \E d \in Loops : loop[d].at = "announce" /\ loop[d].req = r
Stamping(r) == \E d \in Loops : loop[d].at = "stamp" /\ loop[d].req = r

OnlyOne == \A d, e \in Loops : loop[d].at # "idle" /\ loop[e].at # "idle" => d = e

Sane(d, h) ==
  /\ h.at \in {"announce", "stamp"} => /\ h.req \in Requests /\ h.task \in Tasks
                                       /\ source[h.req] = h.task
  /\ h.at = "announce" => record[h.req] = "received" /\ work[h.req] = "off"
  /\ h.at \in {"idle", "check", "filter", "next"} => h.req = None
  /\ h.at \in {"row", "mark"} => h.task \in Tasks
  /\ h.at \in {"idle", "row", "mark"} => h.todo = {}
  /\ h.req # None => source[h.req] # None
  /\ d \in Requests /\ h.at # "idle" => work[d] = "cascade"
LoopsSane == \A d \in Loops : Sane(d, loop[d])

Sourced ==
  /\ \A r \in Requests : source[r] = None => record[r] = "absent" /\ work[r] = "off"
  /\ \A t \in Tasks : requestOf[t] # None => source[requestOf[t]] # None
Received == \A r \in Requests : record[r] = "received" => Announcing(r)

\* A request in flight shows in the row of its task.
Shown ==
  \A r \in Requests : Busy(r) /\ source[r] \notin astray =>
    \/ Announcing(r)
    \/ status[source[r]] \in InFlight /\ (requestOf[source[r]] # None \/ Stamping(r))

\* What a loop has still to do is free.
Free(h) ==
  h.at # "filter" /\ h.op # "proposal" =>
    \A t \in h.todo, r \in Requests : t \notin astray /\ Busy(r) /\ source[r] = t => h.req = r
ToDoFree == \A d \in Loops : Free(loop[d])

OneBusy ==
  \A r, s \in Requests : Busy(r) /\ Busy(s) /\ source[r] = source[s] /\ source[r] \notin astray => r = s

IInv ==
  TypeOK /\ OnlyOne /\ LoopsSane /\ Sourced /\ Received /\ Shown /\ ToDoFree /\ OneBusy

(***************************************************************************)
(* Facts about a state                                                     *)
(***************************************************************************)
\* When a loop is at work there is no other, nor when one may start.
LEMMA NoOther ==
  ASSUME IInv, NEW d \in Loops, loop[d].at \notin {"idle", "announce", "stamp"}
  PROVE  \A r : ~Announcing(r) /\ ~Stamping(r)
BY DEF IInv, OnlyOne, Announcing, Stamping

LEMMA NoneAtAll ==
  ASSUME OneAtATime, MayStart
  PROVE  \A r : ~Announcing(r) /\ ~Stamping(r)
BY DEF MayStart, Announcing, Stamping

\* A request in flight whose loop is gone blocks its task.
LEMMA BusyIsTaken ==
  ASSUME IInv, NEW r \in Requests, Busy(r), source[r] \notin astray, ~Announcing(r), ~Stamping(r)
  PROVE  status[source[r]] \in InFlight /\ requestOf[source[r]] # None
BY DEF IInv, Shown

LEMMA BusyHasTask ==
  ASSUME IInv, NEW r \in Requests, Busy(r) \/ work[r] = "cascade"
  PROVE  source[r] \in Tasks
BY DispatchAssumption DEF IInv, Busy, Sourced, TypeOK

LEMMA RequestsAreLoops == ASSUME NEW r \in Requests PROVE r \in Loops
BY DEF Loops

LEMMA NoLoopTyped ==
  /\ NoLoop \in LoopState /\ NoLoop.at = "idle" /\ NoLoop.req = None /\ NoLoop.todo = {}
  /\ NoLoop.op = "batch"
BY DEF NoLoop, LoopState, Ops

(***************************************************************************)
(* A loop starts                                                           *)
(***************************************************************************)
LEMMA StartKeeps ==
  ASSUME OneAtATime, IInv, MayStart, NEW d \in Loops, NEW h \in LoopState,
         loop' = [loop EXCEPT ![d] = h], h.at \in {"check", "filter", "next", "row"}, Sane(d, h),
         h.at # "filter" /\ h.op # "proposal" =>
           \A t \in h.todo : ~(status[t] \in InFlight /\ requestOf[t] # None),
         UNCHANGED <<board, ledger, work, context>>, proposed' \in [Requests -> SUBSET Tasks]
  PROVE  IInv'
<1>1. loop'[d] = h /\ \A e \in Loops \ {d} : loop'[e] = loop[e]
  BY DEF IInv, TypeOK
<1>2. \A e \in Loops : loop[e].at = "idle"
  BY DEF MayStart
<1>3. UNCHANGED <<status, requestOf, source, looked, record, work, active, astray>>
  BY DEF board, ledger, context
<1>4. TypeOK'
  BY <1>3 DEF IInv, TypeOK
<1>5. OnlyOne'
  BY <1>1, <1>2 DEF OnlyOne
<1>6. LoopsSane'
  BY <1>1, <1>3 DEF IInv, LoopsSane, Sane
<1>7. Sourced' /\ OneBusy'
  BY <1>3 DEF IInv, Sourced, OneBusy, Busy
<1>8. \A r : ~Announcing(r) /\ ~Stamping(r)
  BY NoneAtAll
<1>9. Received'
  BY <1>3, <1>8 DEF IInv, Received
<1>10. \A r \in Requests : Busy(r) /\ source[r] \notin astray =>
         status[source[r]] \in InFlight /\ requestOf[source[r]] # None
  BY <1>8, BusyIsTaken
<1>11. Shown'
  BY <1>3, <1>10 DEF Shown, Busy
<1>12. ToDoFree'
  <2>1. Free(h)'
    BY <1>3, <1>10 DEF Free, Busy
  <2>2. ASSUME NEW e \in Loops \ {d} PROVE Free(loop[e])'
    BY <1>3 DEF IInv, ToDoFree, Free, Busy
  <2> QED
    BY <1>1, <1>3, <2>1, <2>2 DEF ToDoFree, Free, Busy
<1> QED
  BY <1>4, <1>5, <1>6, <1>7, <1>9, <1>11, <1>12 DEF IInv

LEMMA BeginsHow ==
  ASSUME NEW d, NEW op \in Ops, NEW at \in {"check", "filter", "next"}, NEW todo \in SUBSET Tasks,
         Begins(d, op, at, todo)
  PROVE  \E h \in LoopState : /\ loop' = [loop EXCEPT ![d] = h] /\ h.at = at /\ h.op = op
                              /\ h.todo = todo /\ h.req = None
<1> DEFINE h == [NoLoop EXCEPT !.at = at, !.op = op, !.todo = todo]
<1>1. h \in LoopState /\ h.at = at /\ h.op = op /\ h.todo = todo /\ h.req = None
  BY DEF NoLoop, LoopState, Ops
<1> QED
  BY <1>1 DEF Begins

LEMMA CallKeeps ==
  ASSUME OneAtATime, IInv, NEW c \in Calls, Call(c)
  PROVE  IInv'
<1>1. c \in Loops /\ c \notin Requests
  BY DispatchAssumption DEF Loops
<1>2. ASSUME NEW op \in Ops, NEW at \in {"check", "next"}, NEW todo \in SUBSET Tasks, Begins(c, op, at, todo), MayStart,
             op # "proposal" => \A t \in todo : ~(status[t] \in InFlight /\ requestOf[t] # None),
             UNCHANGED <<board, ledger, work, context>>, proposed' \in [Requests -> SUBSET Tasks]
      PROVE  IInv'
  <2>1. PICK h \in LoopState : /\ loop' = [loop EXCEPT ![c] = h] /\ h.at = at /\ h.op = op
                               /\ h.todo = todo /\ h.req = None
    BY <1>2, BeginsHow
  <2>2. Sane(c, h)
    BY <1>1, <2>1 DEF Sane
  <2> QED
    BY <1>1, <1>2, <2>1, <2>2, StartKeeps
<1>3. CASE CallBatch(c)
  <2>1. PICK S \in Selections : Begins(c, "batch", "check", {t \in S : ~Taken(t)})
    BY <1>3 DEF CallBatch
  <2>2. {t \in S : ~Taken(t)} \in SUBSET Tasks
    BY DispatchAssumption
  <2>3. \A t \in {x \in S : ~Taken(x)} : ~(status[t] \in InFlight /\ requestOf[t] # None)
    BY DEF Taken
  <2> QED
    BY <1>2, <1>3, <2>1, <2>2, <2>3 DEF CallBatch, Ops, IInv, TypeOK
<1>4. CASE CallScope(c)
  <2>1. PICK S \in Selections : Begins(c, "scope", "next", {t \in S : status[t] \notin InFlight \cup {"deployed"}})
    BY <1>4 DEF CallScope
  <2>2. {t \in S : status[t] \notin InFlight \cup {"deployed"}} \in SUBSET Tasks
    BY DispatchAssumption
  <2> QED
    BY <1>2, <1>4, <2>1, <2>2 DEF CallScope, Ops, IInv, TypeOK
<1>5. CASE CallAllReady(c)
  BY <1>2, <1>5 DEF CallAllReady, Ops, IInv, TypeOK, Dispatchable, InFlight
<1>6. CASE CallChat(c)
  <2>1. PICK t \in Tasks : (status[t] = "backlog" \/ requestOf[t] = None) /\ Begins(c, "chat", "next", {t})
    BY <1>6 DEF CallChat
  <2> QED
    BY <1>2, <1>6, <2>1 DEF CallChat, Ops, IInv, TypeOK, InFlight
<1>7. CASE CallProposal(c)
  <2>1. PICK r \in Requests : Begins(c, "proposal", "next", proposed[r]) /\ proposed' = [proposed EXCEPT ![r] = {}]
    BY <1>7 DEF CallProposal
  <2> QED
    BY <1>2, <1>7, <2>1 DEF CallProposal, Ops, IInv, TypeOK
<1>8. CASE CallCancelTask(c)
  <2>1. PICK t \in Tasks :
          loop' = [loop EXCEPT ![c] = [NoLoop EXCEPT !.at = "row", !.op = "cancel", !.task = t, !.req = requestOf[t]]]
    BY <1>8 DEF CallCancelTask
  <2> DEFINE h == [NoLoop EXCEPT !.at = "row", !.op = "cancel", !.task = t, !.req = requestOf[t]]
  <2>2. requestOf[t] \in Requests \cup {None}
    BY DEF IInv, TypeOK
  <2>3. h \in LoopState /\ h.at = "row" /\ h.todo = {} /\ h.task = t /\ h.req = requestOf[t]
    BY <2>2 DEF NoLoop, LoopState, Ops
  <2> HIDE DEF h
  <2>4. Sane(c, h)
    BY <1>1, <2>3 DEF Sane, IInv, Sourced
  <2>5. loop' = [loop EXCEPT ![c] = h]
    BY <2>1 DEF h
  <2> QED
    BY <1>1, <1>8, <2>3, <2>4, <2>5, StartKeeps DEF CallCancelTask, IInv, TypeOK
<1> QED
  BY <1>3, <1>4, <1>5, <1>6, <1>7, <1>8 DEF Call

LEMMA CascadeKeeps ==
  ASSUME OneAtATime, IInv, NEW r \in Requests, Cascade(r)
  PROVE  IInv'
<1>1. Dispatchable(status) \in SUBSET Tasks
  BY DEF Dispatchable
<1>2. PICK h \in LoopState : /\ loop' = [loop EXCEPT ![r] = h] /\ h.at = "filter" /\ h.op = "auto"
                             /\ h.todo = Dispatchable(status) /\ h.req = None
  BY <1>1, BeginsHow DEF Cascade, Ops
<1>3. Sane(r, h) /\ MayStart
  BY <1>2 DEF Sane, Cascade
<1> QED
  BY <1>2, <1>3, RequestsAreLoops, StartKeeps DEF Cascade, IInv, TypeOK
(***************************************************************************)
(* A loop goes on, and changes nothing but itself                          *)
(***************************************************************************)
LEMMA ContinueKeeps ==
  ASSUME IInv, NEW d \in Loops, NEW h \in LoopState, loop' = [loop EXCEPT ![d] = h],
         \/ loop[d].at \in {"check", "filter", "next"}
         \/ loop[d].at = "idle" /\ h.at = "idle" /\ OneAtATime /\ MayStart,
         h.at \in {"check", "next", "idle"}, h.req = None,
         h.at = "idle" => h.todo = {},
         Free(h), UNCHANGED <<board, ledger, context>>, proposed' \in [Requests -> SUBSET Tasks],
         \/ UNCHANGED work
         \/ /\ d \in Requests /\ h.at = "idle" /\ work[d] = "cascade"
            /\ \E w \in {"over", "skipped"} : work' = [work EXCEPT ![d] = w]
  PROVE  IInv'
<1>1. loop'[d] = h /\ \A e \in Loops \ {d} : loop'[e] = loop[e]
  BY DEF IInv, TypeOK
<1>2. UNCHANGED <<status, requestOf, source, looked, record, active, astray>>
  BY DEF board, ledger, context
<1>3. \A r : ~Announcing(r) /\ ~Stamping(r)
  BY NoOther, NoneAtAll
<1>4. \A r \in Requests : record[r] # "received"
  BY <1>3 DEF IInv, Received
<1>5. /\ work' \in [Requests -> {"off", "waiting", "working", "completed", "failed", "cascade", "over", "skipped"}]
      /\ \A r \in Requests : Busy(r)' => Busy(r)
      /\ \A r \in Requests : work'[r] # work[r] => r = d /\ work[r] = "cascade" /\ h.at = "idle"
  <2>1. CASE UNCHANGED work
    BY <1>2, <2>1 DEF IInv, TypeOK, Busy
  <2>2. ASSUME d \in Requests, h.at = "idle", work[d] = "cascade",
               NEW w \in {"over", "skipped"}, work' = [work EXCEPT ![d] = w]
        PROVE  <1>5!1 /\ <1>5!2 /\ <1>5!3
    <3>1. work[d] = "cascade"
      BY <2>2
    <3>2. work'[d] \in {"over", "skipped"} /\ \A r \in Requests \ {d} : work'[r] = work[r]
      BY <2>2 DEF IInv, TypeOK
    <3>3. work' \in [Requests -> {"off", "waiting", "working", "completed", "failed", "cascade", "over", "skipped"}]
      BY <2>2 DEF IInv, TypeOK
    <3> QED
      BY <1>2, <2>2, <3>1, <3>2, <3>3 DEF Busy
  <2> QED
    BY <2>1, <2>2
<1>6. TypeOK'
  BY <1>2, <1>5 DEF IInv, TypeOK
<1>7. OnlyOne'
  BY <1>1 DEF IInv, OnlyOne
<1>8. LoopsSane'
  <2>1. Sane(d, h)'
    BY <1>2, <1>5 DEF IInv, LoopsSane, Sane
  <2>2. ASSUME NEW e \in Loops \ {d} PROVE loop[e].at = "idle"
    BY DEF IInv, OnlyOne, MayStart
  <2>3. ASSUME NEW e \in Loops \ {d} PROVE Sane(e, loop[e])'
    BY <1>1, <1>2, <2>2 DEF IInv, LoopsSane, Sane
  <2> QED
    BY <1>1, <2>1, <2>3 DEF LoopsSane, Sane
<1>9. Sourced'
  <2>1. \A r \in Requests : source[r] = None => work'[r] = work[r]
    BY <1>5 DEF IInv, Sourced
  <2> QED
    BY <1>2, <2>1 DEF IInv, Sourced
<1>10. Received'
  BY <1>2, <1>4 DEF Received
<1>11. Shown'
  BY <1>2, <1>3, <1>5 DEF IInv, Shown
<1>12. OneBusy'
  BY <1>2, <1>5 DEF IInv, OneBusy
<1>13. ToDoFree'
  <2>1. Free(h)'
    BY <1>2, <1>5 DEF Free
  <2>2. ASSUME NEW e \in Loops \ {d} PROVE Free(loop[e])'
    BY <1>1, <1>2, <1>5 DEF IInv, ToDoFree, Free
  <2> QED
    BY <1>1, <2>1, <2>2 DEF ToDoFree, Free
<1> QED
  BY <1>6, <1>7, <1>8, <1>9, <1>10, <1>11, <1>12, <1>13 DEF IInv

LEMMA LoopEdits ==
  ASSUME IInv, NEW d \in Loops, NEW at \in {"check", "filter", "next", "announce", "stamp", "row", "mark"},
         NEW todo \in SUBSET Tasks
  PROVE  /\ [loop[d] EXCEPT !.at = at] \in LoopState /\ [loop[d] EXCEPT !.at = at].at = at
         /\ [loop[d] EXCEPT !.at = at].op = loop[d].op /\ [loop[d] EXCEPT !.at = at].todo = loop[d].todo
         /\ [loop[d] EXCEPT !.at = at].task = loop[d].task /\ [loop[d] EXCEPT !.at = at].req = loop[d].req
         /\ [loop[d] EXCEPT !.todo = todo] \in LoopState /\ [loop[d] EXCEPT !.todo = todo].at = loop[d].at
         /\ [loop[d] EXCEPT !.todo = todo].op = loop[d].op /\ [loop[d] EXCEPT !.todo = todo].todo = todo
         /\ [loop[d] EXCEPT !.todo = todo].req = loop[d].req
<1>1. loop[d] \in LoopState
  BY DEF IInv, TypeOK
<1> QED
  BY <1>1 DEF LoopState

\* A task is taken out of what is still to do.
LEMMA SkipKeeps ==
  ASSUME IInv, NEW d \in Loops, loop[d].at = "next", NEW t,
         loop' = [loop EXCEPT ![d].todo = @ \ {t}], UNCHANGED <<board, ledger, work, proposed, context>>
  PROVE  IInv'
<1> DEFINE todo == loop[d].todo \ {t}
           h == [loop[d] EXCEPT !.todo = todo]
<1>1. loop[d].todo \in SUBSET Tasks
  BY DEF IInv, TypeOK, LoopState
<1>2. todo \in SUBSET Tasks
  BY <1>1
<1>3. h \in LoopState /\ h.at = "next" /\ h.op = loop[d].op /\ h.todo = todo /\ h.req = loop[d].req
  BY <1>2, LoopEdits
<1>4. loop' = [loop EXCEPT ![d] = h]
  OBVIOUS
<1> HIDE DEF h
<1>5. h.req = None
  BY <1>3 DEF IInv, LoopsSane, Sane
<1>6. Free(h)
  BY <1>3 DEF IInv, ToDoFree, Free
<1> QED
  BY <1>3, <1>4, <1>5, <1>6, ContinueKeeps DEF IInv, TypeOK

LEMMA GoOnKeeps ==
  ASSUME IInv, NEW d \in Loops, CheckBatch(d) \/ Blocked(d) \/ Refuse(d) \/ Finish(d)
  PROVE  IInv'
<1>0. Free(NoLoop)
  BY NoLoopTyped DEF Free
<1>1. CASE CheckBatch(d)
  <2>1. loop[d].at = "check" /\ UNCHANGED <<board, ledger, work, proposed, context>>
    BY <1>1 DEF CheckBatch
  <2>2. CASE loop' = [loop EXCEPT ![d] = NoLoop]
    BY <1>0, <2>1, <2>2, NoLoopTyped, ContinueKeeps DEF IInv, TypeOK
  <2>3. CASE Goes(d, "next")
    <3> DEFINE h == [loop[d] EXCEPT !.at = "next"]
    <3>1. h \in LoopState /\ h.at = "next" /\ h.op = loop[d].op /\ h.todo = loop[d].todo /\ h.req = loop[d].req
      BY LoopEdits
    <3>2. loop' = [loop EXCEPT ![d] = h]
      BY <2>3 DEF Goes
    <3> HIDE DEF h
    <3>3. h.req = None /\ Free(h)
      BY <2>1, <3>1 DEF IInv, LoopsSane, Sane, ToDoFree, Free
    <3> QED
      BY <2>1, <3>1, <3>2, <3>3, ContinueKeeps DEF IInv, TypeOK
  <2> QED
    BY <1>1, <2>2, <2>3 DEF CheckBatch
<1>2. CASE Blocked(d) \/ Refuse(d)
  BY <1>2, SkipKeeps DEF Blocked, Refuse
<1>3. CASE Finish(d)
  <2>1. /\ loop[d].at = "next" /\ loop' = [loop EXCEPT ![d] = NoLoop]
        /\ UNCHANGED <<board, ledger, proposed, context>>
        /\ work' = IF d \in Requests THEN [work EXCEPT ![d] = "over"] ELSE work
    BY <1>3 DEF Finish
  <2>2. d \in Requests => work[d] = "cascade"
    BY <2>1 DEF IInv, LoopsSane, Sane
  <2> QED
    BY <1>0, <2>1, <2>2, NoLoopTyped, ContinueKeeps DEF IInv, TypeOK
<1> QED
  BY <1>1, <1>2, <1>3

LEMMA SkipsKeep ==
  ASSUME OneAtATime, IInv, NEW r \in Requests, Skip(r)
  PROVE  IInv'
<1>1. /\ r \in Loops /\ work[r] = "cascade"
      /\ loop[r].at = "filter" \/ (loop[r].at = "idle" /\ MayStart)
      /\ loop' = [loop EXCEPT ![r] = NoLoop] /\ work' = [work EXCEPT ![r] = "skipped"]
      /\ UNCHANGED <<board, ledger, proposed, context>>
  BY RequestsAreLoops DEF Skip
<1>2. Free(NoLoop)
  BY NoLoopTyped DEF Free
<1> QED
  BY <1>1, <1>2, NoLoopTyped, ContinueKeeps DEF IInv, TypeOK

LEMMA FilterKeeps ==
  ASSUME IInv, NEW r \in Requests, Filter(r)
  PROVE  IInv'
<1> DEFINE fresh == {t \in loop[r].todo : status[t] = "backlog"}
           Resumes(todo) == loop' = [loop EXCEPT ![r] = [@ EXCEPT !.at = "next", !.todo = todo]]
<1>1. r \in Loops /\ loop[r].at = "filter" /\ UNCHANGED <<board, ledger, work, context>>
  BY RequestsAreLoops DEF Filter
<1>2. fresh \in SUBSET Tasks
  BY <1>1 DEF IInv, TypeOK, LoopState
<1>3. ASSUME NEW todo \in SUBSET fresh, Resumes(todo), proposed' \in [Requests -> SUBSET Tasks]
      PROVE  IInv'
  <2> DEFINE h == [loop[r] EXCEPT !.at = "next", !.todo = todo]
  <2>1. loop[r] \in LoopState /\ todo \in SUBSET Tasks
    BY <1>1, <1>2, <1>3 DEF IInv, TypeOK
  <2>2. h \in LoopState /\ h.at = "next" /\ h.todo = todo /\ h.req = loop[r].req
    BY <2>1 DEF LoopState
  <2>3. loop' = [loop EXCEPT ![r] = h]
    BY <1>3
  <2> HIDE DEF h
  <2>4. h.req = None
    BY <1>1, <2>2 DEF IInv, LoopsSane, Sane
  <2>5. Free(h)
    <3>1. ASSUME NEW t \in todo, NEW s \in Requests, t \notin astray, Busy(s), source[s] = t PROVE FALSE
      <4>1. ~Announcing(s) /\ ~Stamping(s)
        BY <1>1, NoOther
      <4>2. status[t] \in InFlight
        BY <3>1, <4>1, BusyIsTaken
      <4>3. status[t] = "backlog"
        BY <1>3
      <4> QED
        BY <4>2, <4>3 DEF InFlight
    <3> QED
      BY <2>2, <3>1 DEF Free
  <2> QED
    BY <1>1, <1>3, <2>2, <2>3, <2>4, <2>5, ContinueKeeps
<1>4. PICK governed \in Governed :
        IF governed
        THEN proposed' = [proposed EXCEPT ![r] = fresh] /\ Resumes({})
        ELSE Resumes(fresh) /\ UNCHANGED proposed
  BY DEF Filter
<1>5. CASE governed
  <2>1. proposed' \in [Requests -> SUBSET Tasks]
    BY <1>2, <1>4, <1>5 DEF IInv, TypeOK
  <2> HIDE DEF fresh, Resumes
  <2> QED
    BY <1>3, <1>4, <1>5, <2>1
<1>6. CASE ~governed
  <2>1. proposed' \in [Requests -> SUBSET Tasks]
    BY <1>4, <1>6 DEF IInv, TypeOK
  <2> HIDE DEF fresh, Resumes
  <2> QED
    BY <1>3, <1>4, <1>6, <2>1
<1> QED
  BY <1>5, <1>6
(***************************************************************************)
(* A loop submits a task                                                   *)
(***************************************************************************)
LEMMA OthersIdle ==
  ASSUME IInv, NEW d \in Loops, loop[d].at # "idle", NEW e \in Loops \ {d}
  PROVE  loop[e].at = "idle" /\ loop[e].todo = {} /\ loop[e].req = None
BY DEF IInv, OnlyOne, LoopsSane, Sane

\* The loops that are idle stay as they should be.
LEMMA IdleSane ==
  ASSUME IInv, NEW d \in Loops, loop[d].at # "idle", \A e \in Loops \ {d} : loop'[e] = loop[e]
  PROVE  \A e \in Loops \ {d} : Sane(e, loop[e])' /\ Free(loop[e])'
BY OthersIdle DEF Sane, Free

LEMMA CreateKeeps ==
  ASSUME IInv, NEW d \in Loops, Create(d)
  PROVE  IInv'
<1>1. PICK r \in Requests, t \in loop[d].todo :
        /\ source[r] = None
        /\ source' = [source EXCEPT ![r] = t]
        /\ looked' = IF loop[d].op \in {"chat", "proposal"} THEN looked ELSE looked \cup {r}
        /\ record' = [record EXCEPT ![r] = "received"]
        /\ loop' = [loop EXCEPT ![d].at = "announce", ![d].task = t, ![d].req = r]
        /\ astray' = IF loop[d].op = "proposal" /\ status[t] \in InFlight \cup {"deployed"}
                     THEN astray \cup {t} ELSE astray
  <2> DEFINE r == CHOOSE id \in Requests : source[id] = None
  <2>1. r \in Requests /\ source[r] = None
    BY DEF Create
  <2> HIDE DEF r
  <2>2. PICK t \in loop[d].todo :
        /\ source' = [source EXCEPT ![r] = t]
        /\ looked' = IF loop[d].op \in {"chat", "proposal"} THEN looked ELSE looked \cup {r}
        /\ record' = [record EXCEPT ![r] = "received"]
        /\ loop' = [loop EXCEPT ![d].at = "announce", ![d].task = t, ![d].req = r]
        /\ astray' = IF loop[d].op = "proposal" /\ status[t] \in InFlight \cup {"deployed"}
                     THEN astray \cup {t} ELSE astray
    BY DEF Create, r
  <2> QED
    BY <2>1, <2>2
<1>3. loop[d].at = "next" /\ UNCHANGED <<status, requestOf, work, proposed, active>>
  BY DEF Create, board
<1>4. loop[d] \in LoopState /\ t \in Tasks /\ t # None /\ r # None
  BY <1>1, DispatchAssumption DEF IInv, TypeOK, LoopState
<1>5. PICK h \in LoopState :
        /\ loop' = [loop EXCEPT ![d] = h]
        /\ h.at = "announce" /\ h.task = t /\ h.req = r /\ h.todo = loop[d].todo /\ h.op = loop[d].op
  <2> DEFINE h == [loop[d] EXCEPT !.at = "announce", !.task = t, !.req = r]
  <2>1. h \in LoopState /\ h.at = "announce" /\ h.task = t /\ h.req = r /\ h.todo = loop[d].todo /\ h.op = loop[d].op
    BY <1>1, <1>4 DEF LoopState
  <2>2. loop' = [loop EXCEPT ![d] = h]
    BY <1>1
  <2> HIDE DEF h
  <2> QED
    BY <2>1, <2>2
<1>6. loop' = [loop EXCEPT ![d] = h]
  BY <1>5
<1>7. loop'[d] = h /\ \A e \in Loops \ {d} : loop'[e] = loop[e]
  BY <1>6 DEF IInv, TypeOK
<1>8. /\ source'[r] = t /\ \A q \in Requests \ {r} : source'[q] = source[q]
      /\ record'[r] = "received" /\ \A q \in Requests \ {r} : record'[q] = record[q]
  BY <1>1 DEF IInv, TypeOK
<1>9. \A q : ~Announcing(q) /\ ~Stamping(q)
  BY <1>3, NoOther
<1>10. work[r] = "off" /\ ~Busy(r) /\ \A q \in Requests \ {r} : Busy(q)' = Busy(q)
  BY <1>1, <1>3, <1>8 DEF IInv, Sourced, Busy
<1>11. astray \subseteq astray'
  BY <1>1
<1>12. ASSUME NEW q \in Requests \ {r}, Busy(q), source[q] \in loop[d].todo, source[q] \notin astray'
       PROVE  source[q] # t /\ loop[d].op = "proposal"
  <2>1. status[source[q]] \in InFlight
    BY <1>9, <1>11, <1>12, BusyIsTaken
  <2>2. loop[d].req = None /\ Free(loop[d])
    BY <1>3 DEF IInv, LoopsSane, Sane, ToDoFree
  <2>3. q # None /\ source[q] \notin astray
    BY <1>11, <1>12, DispatchAssumption
  <2>4. loop[d].op = "proposal"
    BY <1>3, <1>12, <2>2, <2>3 DEF Free
  <2> QED
    BY <1>1, <1>12, <2>1, <2>4
<1>13. TypeOK'
  <2>1. source' \in [Requests -> Tasks \cup {None}]
    BY <1>1, <1>4 DEF IInv, TypeOK
  <2>2. record' \in [Requests -> {"absent", "received", "analyzing", "in_progress",
                                 "completed", "failed", "cancelled"}]
    BY <1>1 DEF IInv, TypeOK
  <2>4. loop' \in [Loops -> LoopState]
    BY <1>5, <1>6 DEF IInv, TypeOK
  <2>3. looked' \subseteq Requests /\ astray' \subseteq Tasks
    BY <1>1, <1>4 DEF IInv, TypeOK
  <2> QED
    BY <1>3, <2>1, <2>2, <2>3, <2>4 DEF IInv, TypeOK
<1>14. OnlyOne'
  BY <1>3, <1>7 DEF IInv, OnlyOne
<1>15. LoopsSane'
  <2>1. Sane(d, h)'
    BY <1>1, <1>3, <1>4, <1>5, <1>8, <1>10 DEF IInv, LoopsSane, Sane
  <2>2. \A e \in Loops \ {d} : Sane(e, loop[e])'
    BY <1>3, <1>7, IdleSane
  <2> QED
    BY <1>7, <2>1, <2>2 DEF LoopsSane, Sane
<1>16. Sourced'
  <2>1. \A q \in Requests : source'[q] = None => source[q] = None /\ record'[q] = record[q] /\ work'[q] = work[q]
    BY <1>3, <1>4, <1>8
  <2>2. \A x \in Tasks : requestOf[x] # None => requestOf[x] \in Requests /\ source'[requestOf[x]] # None
    BY <1>4, <1>8 DEF IInv, Sourced, TypeOK
  <2> QED
    BY <1>3, <2>1, <2>2 DEF IInv, Sourced
<1>17. Received'
  BY <1>5, <1>7, <1>8, <1>9 DEF IInv, Received, Announcing
<1>18. Shown'
  <2>1. Announcing(r)'
    BY <1>5, <1>7 DEF Announcing
  <2>2. ASSUME NEW q \in Requests \ {r}, Busy(q), source[q] \notin astray
        PROVE  status[source[q]] \in InFlight /\ requestOf[source[q]] # None
    BY <1>9, <2>2, BusyIsTaken
  <2> QED
    BY <1>3, <1>8, <1>10, <1>11, <2>1, <2>2 DEF Shown
<1>19. OneBusy'
  <2>1. ASSUME NEW q \in Requests \ {r}, Busy(q), source[q] = t, t \notin astray' PROVE FALSE
    BY <1>12, <2>1
  <2> QED
    BY <1>8, <1>10, <1>11, <2>1 DEF IInv, OneBusy
<1>20. ToDoFree'
  <2>1. Free(h)'
    BY <1>5, <1>8, <1>10, <1>12 DEF Free
  <2>2. \A e \in Loops \ {d} : Free(loop[e])'
    BY <1>3, <1>7, IdleSane
  <2> QED
    BY <1>7, <2>1, <2>2 DEF ToDoFree, Free
<1> QED
  BY <1>13, <1>14, <1>15, <1>16, <1>17, <1>18, <1>19, <1>20 DEF IInv

LEMMA AnnounceKeeps ==
  ASSUME IInv, NEW d \in Loops, Announce(d)
  PROVE  IInv'
<1>0. loop[d].at = "announce" /\ loop[d] \in LoopState /\ Sane(d, loop[d])
  BY DEF Announce, IInv, TypeOK, LoopsSane
<1>1. PICK r \in Requests, t \in Tasks :
        r = loop[d].req /\ t = loop[d].task /\ source[r] = t /\ record[r] = "received" /\ work[r] = "off"
  BY <1>0 DEF Sane
<1>2. /\ record' = [record EXCEPT ![r] = "analyzing"] /\ status' = [status EXCEPT ![t] = "dispatched"]
      /\ work' = [work EXCEPT ![r] = "waiting"]
      /\ UNCHANGED <<requestOf, source, looked, proposed, active, astray>>
  BY <1>1 DEF Announce, context
<1>3. PICK h \in LoopState :
        /\ loop' = [loop EXCEPT ![d] = h] /\ h.at = "stamp"
        /\ h.task = t /\ h.req = r /\ h.todo = loop[d].todo /\ h.op = loop[d].op
  <2> DEFINE h == [loop[d] EXCEPT !.at = "stamp"]
  <2>1. h \in LoopState /\ h.at = "stamp" /\ h.task = t /\ h.req = r /\ h.todo = loop[d].todo /\ h.op = loop[d].op
    BY <1>1, LoopEdits
  <2>2. loop' = [loop EXCEPT ![d] = h]
    BY DEF Announce, Goes
  <2> HIDE DEF h
  <2> QED
    BY <2>1, <2>2
<1>4. loop' = [loop EXCEPT ![d] = h]
  BY <1>3
<1>5. loop'[d] = h /\ \A e \in Loops \ {d} : loop'[e] = loop[e]
  BY <1>4 DEF IInv, TypeOK
<1>6. /\ record'[r] = "analyzing" /\ work'[r] = "waiting" /\ status'[t] = "dispatched"
      /\ \A q \in Requests \ {r} : record'[q] = record[q] /\ work'[q] = work[q]
      /\ \A x \in Tasks \ {t} : status'[x] = status[x]
  BY <1>1, <1>2 DEF IInv, TypeOK
<1>7. \A q \in Requests \ {r} : ~Announcing(q) /\ ~Stamping(q)
  BY <1>0, <1>1 DEF IInv, OnlyOne, Announcing, Stamping
<1>8. Busy(r) /\ \A q \in Requests : Busy(q)' = Busy(q)
  BY <1>1, <1>6 DEF Busy
<1>9. t = source[r]
  BY <1>1
<1>10. TypeOK'
  BY <1>1, <1>2, <1>3, <1>4 DEF IInv, TypeOK, TaskStatus, InFlight
<1>11. OnlyOne'
  BY <1>0, <1>5 DEF IInv, OnlyOne
<1>12. LoopsSane'
  <2>1. Sane(d, h)'
    BY <1>0, <1>1, <1>2, <1>3, <1>6, <1>9 DEF Sane
  <2>2. \A e \in Loops \ {d} : Sane(e, loop[e])'
    BY <1>0, <1>5, IdleSane
  <2> QED
    BY <1>5, <2>1, <2>2 DEF LoopsSane, Sane
<1>13. Sourced'
  <2>1. source[r] # None
    BY <1>1, <1>9, DispatchAssumption
  <2> QED
    BY <1>2, <1>6, <2>1 DEF IInv, Sourced
<1>14. Received'
  BY <1>6, <1>7 DEF IInv, Received
<1>15. Shown'
  <2>1. Stamping(r)'
    BY <1>3, <1>5 DEF Stamping
  <2>2. ASSUME NEW q \in Requests \ {r}, Busy(q), source[q] \notin astray
        PROVE  status'[source[q]] \in InFlight /\ requestOf[source[q]] # None
    <3>1. status[source[q]] \in InFlight /\ requestOf[source[q]] # None
      BY <1>7, <2>2, BusyIsTaken
    <3>2. source[q] # t /\ source[q] \in Tasks
      BY <1>8, <1>9, <2>2, BusyHasTask, <1>1 DEF IInv, OneBusy
    <3> QED
      BY <1>6, <3>1, <3>2
  <2>3. "dispatched" \in InFlight
    BY DEF InFlight
  <2> QED
    BY <1>2, <1>6, <1>8, <1>9, <2>1, <2>2, <2>3 DEF Shown
<1>16. OneBusy'
  BY <1>2, <1>8 DEF IInv, OneBusy
<1>17. ToDoFree'
  <2>1. Free(h)'
    <3>1. Free(loop[d])
      BY DEF IInv, ToDoFree
    <3> QED
      BY <1>0, <1>1, <1>2, <1>3, <1>8, <3>1 DEF Free
  <2>2. \A e \in Loops \ {d} : Free(loop[e])'
    BY <1>0, <1>5, IdleSane
  <2> QED
    BY <1>5, <2>1, <2>2 DEF ToDoFree, Free
<1> QED
  BY <1>10, <1>11, <1>12, <1>13, <1>14, <1>15, <1>16, <1>17 DEF IInv

LEMMA StampKeeps ==
  ASSUME IInv, NEW d \in Loops, Stamp(d)
  PROVE  IInv'
<1>1. loop[d].at = "stamp" /\ loop[d] \in LoopState /\ Sane(d, loop[d]) /\ Free(loop[d])
  BY DEF Stamp, IInv, TypeOK, LoopsSane, ToDoFree
<1>2. PICK r \in Requests, t \in Tasks : r = loop[d].req /\ t = loop[d].task /\ source[r] = t
  BY <1>1 DEF Sane
<1>3. /\ status' = [status EXCEPT ![t] = "dispatched"] /\ requestOf' = [requestOf EXCEPT ![t] = r]
      /\ UNCHANGED <<source, looked, record, work, proposed, active, astray>>
  BY <1>2 DEF Stamp, ledger, context
<1>4. PICK h \in LoopState :
        /\ loop' = [loop EXCEPT ![d] = h]
        /\ h.at = "next" /\ h.op = loop[d].op /\ h.req = None /\ h.todo = loop[d].todo \ {t}
  <2> DEFINE h == [loop[d] EXCEPT !.at = "next", !.todo = @ \ {loop[d].task}, !.task = None, !.req = None]
  <2>1. h \in LoopState /\ h.at = "next" /\ h.op = loop[d].op /\ h.req = None /\ h.todo = loop[d].todo \ {t}
    BY <1>1, <1>2 DEF LoopState
  <2>2. loop' = [loop EXCEPT ![d] = h]
    BY DEF Stamp
  <2> HIDE DEF h
  <2> QED
    BY <2>1, <2>2
<1>5. loop'[d] = h /\ \A e \in Loops \ {d} : loop'[e] = loop[e]
  BY <1>4 DEF IInv, TypeOK
<1>6. /\ status'[t] = "dispatched" /\ requestOf'[t] = r
      /\ \A x \in Tasks \ {t} : status'[x] = status[x] /\ requestOf'[x] = requestOf[x]
  BY <1>2, <1>3 DEF IInv, TypeOK
<1>7. \A q : ~Announcing(q) /\ (Stamping(q) => q = r)
  BY <1>1, <1>2 DEF IInv, OnlyOne, Announcing, Stamping
<1>8. r # None /\ t # None
  BY DispatchAssumption
<1>9. TypeOK'
  BY <1>2, <1>3, <1>4 DEF IInv, TypeOK, TaskStatus, InFlight
<1>10. OnlyOne'
  BY <1>1, <1>5 DEF IInv, OnlyOne
<1>11. LoopsSane'
  <2>1. Sane(d, h)'
    BY <1>1, <1>3, <1>4 DEF Sane
  <2>2. \A e \in Loops \ {d} : Sane(e, loop[e])'
    BY <1>1, <1>5, IdleSane
  <2> QED
    BY <1>5, <2>1, <2>2 DEF LoopsSane, Sane
<1>12. Sourced'
  BY <1>2, <1>3, <1>6, <1>8 DEF IInv, Sourced
<1>13. Received'
  BY <1>3, <1>7 DEF IInv, Received
<1>14. Shown'
  <2>1. ASSUME NEW q \in Requests, Busy(q), source[q] \notin astray
        PROVE  status'[source[q]] \in InFlight /\ requestOf'[source[q]] # None
    <3>1. CASE source[q] = t
      BY <1>6, <1>8, <3>1 DEF InFlight
    <3>2. CASE source[q] # t
      <4>1. status[source[q]] \in InFlight /\ requestOf[source[q]] # None
        BY <1>2, <1>7, <2>1, <3>2, BusyIsTaken
      <4> QED
        BY <1>6, <2>1, <3>2, <4>1, BusyHasTask
    <3> QED
      BY <3>1, <3>2
  <2> QED
    BY <1>3, <2>1 DEF Shown, Busy
<1>15. OneBusy'
  BY <1>3 DEF IInv, OneBusy, Busy
<1>16. ToDoFree'
  <2>1. Free(h)'
    BY <1>1, <1>2, <1>3, <1>4 DEF Free, Busy
  <2>2. \A e \in Loops \ {d} : Free(loop[e])'
    BY <1>1, <1>5, IdleSane
  <2> QED
    BY <1>5, <2>1, <2>2 DEF ToDoFree, Free
<1> QED
  BY <1>9, <1>10, <1>11, <1>12, <1>13, <1>14, <1>15, <1>16 DEF IInv

(***************************************************************************)
(* The chat's cancel_task                                                  *)
(***************************************************************************)
LEMMA CancelKeeps ==
  ASSUME IInv, NEW d \in Loops, CancelRow(d) \/ CancelMark(d)
  PROVE  IInv'
<1>1. loop[d].at \in {"row", "mark"} /\ loop[d] \in LoopState /\ Sane(d, loop[d])
  BY DEF CancelRow, CancelMark, IInv, TypeOK, LoopsSane
<1>2. PICK h \in LoopState :
        /\ loop' = [loop EXCEPT ![d] = h] /\ h.at \in {"mark", "idle"} /\ h.todo = {}
        /\ h.at = "mark" => h.task = loop[d].task /\ h.req = loop[d].req
        /\ h.at = "idle" => h.req = None
  <2>1. CASE CancelRow(d)
    <3> DEFINE h == [loop[d] EXCEPT !.at = "mark"]
    <3>1. h \in LoopState /\ h.at = "mark" /\ h.task = loop[d].task /\ h.req = loop[d].req /\ h.todo = loop[d].todo
      BY LoopEdits
    <3>2. loop' = [loop EXCEPT ![d] = h] /\ loop[d].todo = {}
      BY <1>1, <2>1 DEF CancelRow, Goes, Sane
    <3> HIDE DEF h
    <3> QED
      BY <3>1, <3>2
  <2>2. CASE CancelMark(d)
    BY <2>2, NoLoopTyped DEF CancelMark
  <2> QED
    BY <2>1, <2>2
<1>3. loop'[d] = h /\ \A e \in Loops \ {d} : loop'[e] = loop[e]
  BY <1>2 DEF IInv, TypeOK
<1>4. UNCHANGED <<requestOf, source, looked, work, proposed, active>>
  BY DEF CancelRow, CancelMark, board, ledger, context
<1>5. \A q : ~Announcing(q) /\ ~Stamping(q)
  BY <1>1, NoOther
<1>6. /\ record' \in [Requests -> {"absent", "received", "analyzing", "in_progress",
                                    "completed", "failed", "cancelled"}]
      /\ \A q \in Requests : record'[q] = record[q] \/ (record'[q] = "cancelled" /\ source[q] # None)
  <2>1. loop[d].req = None \/ (loop[d].req \in Requests /\ source[loop[d].req] # None)
    BY <1>1 DEF LoopState, Sane
  <2>2. CASE UNCHANGED record
    BY <2>2 DEF IInv, TypeOK
  <2>3. CASE loop[d].req # None /\ record' = [record EXCEPT ![loop[d].req] = "cancelled"]
    BY <2>1, <2>3 DEF IInv, TypeOK
  <2> QED
    BY <2>2, <2>3 DEF CancelRow, CancelMark, ledger
<1>7. \A q \in Requests : Busy(q)' => Busy(q)
  BY <1>4, <1>6 DEF Busy
<1>8. /\ status' \in [Tasks -> TaskStatus] /\ astray \subseteq astray' /\ astray' \subseteq Tasks
      /\ \A x \in Tasks \ astray' : status'[x] = status[x]
  <2>1. CASE CancelRow(d)
    BY <2>1 DEF CancelRow, board, context, IInv, TypeOK
  <2>2. CASE CancelMark(d)
    <3>1. loop[d].task \in Tasks
      BY <1>1 DEF Sane
    <3> QED
      BY <2>2, <3>1 DEF CancelMark, IInv, TypeOK, TaskStatus
  <2> QED
    BY <2>1, <2>2
<1>9. TypeOK'
  BY <1>2, <1>4, <1>6, <1>8 DEF IInv, TypeOK
<1>10. OnlyOne'
  BY <1>1, <1>3 DEF IInv, OnlyOne
<1>11. LoopsSane'
  <2>1. Sane(d, h)'
    BY <1>1, <1>2, <1>4 DEF Sane
  <2>2. \A e \in Loops \ {d} : Sane(e, loop[e])'
    BY <1>1, <1>3, IdleSane
  <2> QED
    BY <1>3, <2>1, <2>2 DEF LoopsSane, Sane
<1>12. Sourced'
  BY <1>4, <1>6 DEF IInv, Sourced
<1>13. Received'
  BY <1>5, <1>6 DEF IInv, Received
<1>14. Shown'
  <2>1. ASSUME NEW q \in Requests, Busy(q), source[q] \notin astray'
        PROVE  status'[source[q]] \in InFlight /\ requestOf[source[q]] # None
    BY <1>5, <1>8, <2>1, BusyIsTaken, BusyHasTask
  <2> QED
    BY <1>4, <1>7, <2>1 DEF Shown
<1>15. OneBusy'
  BY <1>4, <1>7, <1>8 DEF IInv, OneBusy
<1>16. ToDoFree'
  <2>1. Free(h)'
    BY <1>2 DEF Free
  <2>2. \A e \in Loops \ {d} : Free(loop[e])'
    BY <1>1, <1>3, IdleSane
  <2> QED
    BY <1>3, <2>1, <2>2 DEF ToDoFree, Free
<1> QED
  BY <1>9, <1>10, <1>11, <1>12, <1>13, <1>14, <1>15, <1>16 DEF IInv

(***************************************************************************)
(* The coroutine of a request                                              *)
(***************************************************************************)
LEMMA WorkKeeps ==
  ASSUME IInv, NEW r \in Requests, work[r] \in {"waiting", "working", "completed", "failed"},
         NEW w \in {"working", "completed", "failed", "cascade", "over"}, work' = [work EXCEPT ![r] = w],
         NEW c \in {"in_progress", "completed", "failed", "cancelled"},
         UNCHANGED record \/ record' = [record EXCEPT ![r] = c],
         NEW v \in TaskStatus, UNCHANGED status \/ status' = [status EXCEPT ![source[r]] = v],
         w \in {"working", "completed", "failed"} => UNCHANGED status \/ v \in InFlight,
         UNCHANGED <<requestOf, source, looked, loop, proposed, context>>
  PROVE  IInv'
<1>1. UNCHANGED <<active, astray>>
  BY DEF context
<1>2. Busy(r) /\ source[r] \in Tasks
  BY BusyHasTask DEF Busy
<1>3. record[r] # "received"
  BY DEF IInv, Received, Announcing, LoopsSane, Sane
<1>4. work'[r] = w /\ \A q \in Requests \ {r} : work'[q] = work[q]
  BY DEF IInv, TypeOK
<1>5. record'[r] # "received" /\ \A q \in Requests \ {r} : record'[q] = record[q]
  BY <1>3 DEF IInv, TypeOK
<1>6. \A q \in Requests : Busy(q)' => Busy(q)
  BY <1>2, <1>4, <1>5 DEF Busy
<1>7. \A x \in Tasks \ {source[r]} : status'[x] = status[x]
  BY <1>2 DEF IInv, TypeOK
<1>8. TypeOK'
  <2>1. status' \in [Tasks -> TaskStatus]
    BY <1>2 DEF IInv, TypeOK
  <2>2. /\ work' \in [Requests -> {"off", "waiting", "working", "completed", "failed", "cascade", "over", "skipped"}]
        /\ record' \in [Requests -> {"absent", "received", "analyzing", "in_progress",
                                      "completed", "failed", "cancelled"}]
    BY DEF IInv, TypeOK
  <2> QED
    BY <1>1, <2>1, <2>2 DEF IInv, TypeOK
<1>9. OnlyOne'
  BY DEF IInv, OnlyOne
<1>10. LoopsSane'
  <2>1. ASSUME NEW d \in Loops PROVE Sane(d, loop[d])'
    <3>1. Sane(d, loop[d])
      BY DEF IInv, LoopsSane
    <3>2. loop[d].at = "announce" => loop[d].req # r
      BY <3>1 DEF Sane
    <3>3. d \in Requests /\ loop[d].at # "idle" => d # r
      BY <3>1 DEF Sane
    <3> QED
      BY <1>4, <1>5, <3>1, <3>2, <3>3 DEF Sane
  <2> QED
    BY <2>1 DEF LoopsSane
<1>11. Sourced'
  BY <1>2, <1>4, <1>5, DispatchAssumption DEF IInv, Sourced
<1>12. Received'
  BY <1>5 DEF IInv, Received, Announcing
<1>13. Shown'
  <2>1. ASSUME NEW q \in Requests \ {r}, Busy(q), source[q] \notin astray
        PROVE  status'[source[q]] = status[source[q]]
    BY <1>2, <1>7, <2>1, BusyHasTask DEF IInv, OneBusy
  <2>2. Busy(r)' => status'[source[r]] = status[source[r]] \/ status'[source[r]] \in InFlight
    BY <1>2, <1>4, <1>5 DEF IInv, TypeOK, Busy
  <2>3. ASSUME NEW q \in Requests, Busy(q)', source[q] \notin astray
        PROVE  Announcing(q) \/ (status'[source[q]] \in InFlight /\ (requestOf[source[q]] # None \/ Stamping(q)))
    BY <1>6, <2>1, <2>2, <2>3 DEF IInv, Shown
  <2> QED
    BY <1>1, <2>3 DEF Shown, Announcing, Stamping
<1>14. OneBusy'
  BY <1>1, <1>6 DEF IInv, OneBusy
<1>15. ToDoFree'
  BY <1>1, <1>6 DEF IInv, ToDoFree, Free
<1> QED
  BY <1>8, <1>9, <1>10, <1>11, <1>12, <1>13, <1>14, <1>15 DEF IInv

LEMMA CoroutineKeeps ==
  ASSUME IInv, NEW r \in Requests, Begin(r) \/ End(r) \/ Tell(r) \/ CancelRequest(r)
  PROVE  IInv'
<1> USE DEF TaskStatus, InFlight
<1>1. CASE Begin(r)
  BY <1>1, WorkKeeps DEF Begin
<1>2. CASE End(r)
  <2>1. PICK outcome \in {"completed", "failed"} :
          work' = [work EXCEPT ![r] = outcome] /\ record' = [record EXCEPT ![r] = outcome]
    BY <1>2 DEF End
  <2> QED
    BY <1>2, <2>1, WorkKeeps DEF End, board
<1>3. CASE Tell(r)
  BY <1>3, WorkKeeps DEF Tell, ledger
<1>4. CASE CancelRequest(r)
  BY <1>4, WorkKeeps DEF CancelRequest
<1> QED
  BY <1>1, <1>2, <1>3, <1>4

(***************************************************************************)
(* The theorems                                                            *)
(***************************************************************************)
LEMMA InvInit == Init => IInv
<1> SUFFICES ASSUME Init PROVE IInv
  OBVIOUS
<1>1. \A d \in Loops : loop[d] = NoLoop
  BY DEF Init
<1>2. \A r : ~Announcing(r)
  BY <1>1, NoLoopTyped DEF Announcing
<1>3. \A r \in Requests : ~Busy(r) /\ source[r] = None /\ record[r] = "absent" /\ work[r] = "off"
  BY DEF Init, Busy
<1>4. TypeOK
  BY NoLoopTyped DEF Init, TypeOK, TaskStatus
<1>5. OnlyOne
  BY <1>1, NoLoopTyped DEF OnlyOne
<1>6. LoopsSane
  BY <1>1, NoLoopTyped DEF LoopsSane, Sane
<1>7. Sourced /\ Received /\ Shown /\ OneBusy
  BY <1>3 DEF Init, Sourced, Received, Shown, OneBusy
<1>8. ToDoFree
  BY <1>1, NoLoopTyped DEF ToDoFree, Free
<1> QED
  BY <1>4, <1>5, <1>6, <1>7, <1>8 DEF IInv

LEMMA InvNext == OneAtATime /\ IInv /\ [Next]_vars => IInv'
<1> SUFFICES ASSUME OneAtATime, IInv, [Next]_vars PROVE IInv'
  OBVIOUS
<1>1. CASE Archive
  <2>1. active' \in BOOLEAN /\ UNCHANGED <<status, requestOf, source, looked, record, work, loop, proposed, astray>>
    BY <1>1 DEF Archive, board, ledger
  <2>2. TypeOK'
    BY <2>1 DEF IInv, TypeOK
  <2>3. (OnlyOne /\ LoopsSane /\ Sourced /\ Received)'
    BY <2>1 DEF IInv, OnlyOne, LoopsSane, Sane, Sourced, Received, Announcing
  <2>4. (Shown /\ ToDoFree /\ OneBusy)'
    BY <2>1 DEF IInv, Shown, Announcing, Stamping, Busy, ToDoFree, Free, OneBusy
  <2> QED
    BY <2>2, <2>3, <2>4 DEF IInv
<1>2. ASSUME NEW c \in Calls, Call(c) PROVE IInv'
  BY <1>2, CallKeeps
<1>3. ASSUME NEW d \in Loops, Loop(d) PROVE IInv'
  BY <1>3, GoOnKeeps, CreateKeeps, AnnounceKeeps, StampKeeps, CancelKeeps DEF Loop
<1>4. ASSUME NEW r \in Requests, Cascade(r) PROVE IInv'
  BY <1>4, CascadeKeeps
<1>5. ASSUME NEW r \in Requests, Filter(r) \/ Skip(r) PROVE IInv'
  BY <1>5, FilterKeeps, SkipsKeep
<1>6. ASSUME NEW r \in Requests, Begin(r) \/ End(r) \/ Tell(r) \/ CancelRequest(r) PROVE IInv'
  BY <1>6, CoroutineKeeps
<1>7. CASE UNCHANGED vars
  BY <1>7 DEF vars, board, ledger, context, IInv, TypeOK, OnlyOne, LoopsSane, Sane, Sourced, Received, Announcing,
         Stamping, Shown, Busy, ToDoFree, Free, OneBusy
<1> QED
  BY <1>1, <1>2, <1>3, <1>4, <1>5, <1>6, <1>7 DEF Next

\* The variables keep their types while dispatch loops do not overlap
\* (build_dispatch, auto_dispatch, build_chat).
THEOREM TypeCorrect == ASSUME OneAtATime PROVE Spec => []TypeOK
<1>1. Init => IInv
  BY InvInit
<1>2. IInv /\ [Next]_vars => IInv'
  BY InvNext
<1>3. IInv => TypeOK
  BY DEF IInv
<1> QED
  BY <1>1, <1>2, <1>3, PTL DEF Spec

\* A task has at most one request in flight, unless the chat cancelled it behind
\* its workflow's back or a stale proposal dispatched it once more
\* (_dispatch_one_task, maybe_auto_dispatch), when dispatch loops do not overlap.
THEOREM OneLiveRequestHolds == ASSUME OneAtATime PROVE Spec => []OneLiveRequest
<1>1. Init => IInv
  BY InvInit
<1>2. IInv /\ [Next]_vars => IInv'
  BY InvNext
<1>3. IInv => OneLiveRequest
  BY DEF IInv, OneBusy, Busy, OneLiveRequest, Pending
<1> QED
  BY <1>1, <1>2, <1>3, PTL DEF Spec
(***************************************************************************)
(* Dependencies, and what a task's row says of its last request.  Both     *)
(* rest on what a loop knows of the tasks it has still to do: they are not *)
(* claimed by a request, and where the loop has looked at them already     *)
(* their dependencies stay deployed.                                       *)
(***************************************************************************)
Claimed(t) == status[t] \in InFlight \cup {"deployed"}
BeingStamped(t) == \E d \in Loops : loop[d].at = "stamp" /\ loop[d].task = t
Marking(t) == \E d \in Loops : loop[d].at = "mark" /\ loop[d].task = t

\* The task of a claimed row has a request, or is about to get it.
Kept == \A t \in Tasks : Claimed(t) /\ t \notin astray => requestOf[t] # None \/ BeingStamped(t)

\* A request whose loop has not stamped it sleeps; what is being cancelled is
\* the request of its task; only dispatch loops dispatch.
Steady(h) ==
  /\ h.at = "stamp" => work[h.req] = "waiting"
  /\ h.at = "row" => h.req = requestOf[h.task]
  /\ h.at \in {"check", "filter", "next", "announce", "stamp"} => h.op # "cancel"

\* What a loop has still to do is unclaimed (a proposal does not look), and
\* what it is dispatching is not deployed.
Open(h) ==
  /\ h.at \in {"check", "next", "announce"} /\ h.op # "proposal" =>
       \A t \in h.todo \ astray : ~Claimed(t)
  /\ h.at = "stamp" /\ h.op # "proposal" => \A t \in h.todo \ (astray \cup {h.task}) : ~Claimed(t)
  /\ h.at = "announce" /\ h.task \notin astray => ~Claimed(h.task)
  /\ h.at = "stamp" /\ h.task \notin astray => status[h.task] # "deployed"

\* What a task builds on is there, as far as it has not gone astray.
Standing(t) ==
  (DependsOn[t] \cup {t}) \cap astray = {} => \A x \in DependsOn[t] : status[x] = "deployed"

Cleared == {t \in Tasks : \A x \in DependsOn[t] : status[x] = "deployed"}

\* The loops that look at dependencies when they start, rather than task by task.
Ready(h) ==
  (h.op = "batch" /\ h.at # "check") \/ h.op \in {"all", "auto"} => \A t \in h.todo : Standing(t)

LoopsReady == \A d \in Loops : Steady(loop[d]) /\ Open(loop[d]) /\ Ready(loop[d])

Built ==
  \A r \in Requests : r \in looked => source[r] # None /\ (Busy(r) => Standing(source[r]))

\* The row names the request in flight, from its stamp on, and never the
\* request of another task.
Named ==
  \A r \in Requests : Busy(r) /\ source[r] \notin astray =>
    requestOf[source[r]] = r \/ Announcing(r) \/ Stamping(r)

Owned == \A t \in Tasks : requestOf[t] # None => source[requestOf[t]] = t

\* A task without a request has had none; one whose requests are over shows
\* how the one it names ended.
Outcome(st) == CASE st = "completed" -> "deployed" [] st = "failed" -> "failed" [] OTHER -> "cancelled"

Untouched ==
  \A t \in Tasks : t \notin astray /\ requestOf[t] = None /\ ~BeingStamped(t) =>
    status[t] = "backlog" /\ \A r \in Requests : source[r] = t => Busy(r)

Settled ==
  \A t \in Tasks :
    /\ t \notin astray /\ requestOf[t] # None /\ ~Marking(t)
    /\ \A r \in Requests : source[r] = t => ~Busy(r)
    => status[t] = Outcome(record[requestOf[t]])

Recorded ==
  \A r \in Requests : source[r] \notin astray /\ ~Marking(source[r]) =>
    /\ work[r] \in {"completed", "failed"} => record[r] = work[r]
    /\ work[r] = "cascade" => record[r] = "completed"

RowInv == Kept /\ LoopsReady /\ Built /\ Named /\ Owned /\ Untouched /\ Settled /\ Recorded

\* What is deployed stays deployed, so what was standing stays standing.
LEMMA StandingStays ==
  ASSUME DispatchAssumption, astray \subseteq astray', NEW t \in Tasks, Standing(t),
         \A x \in Tasks : status[x] = "deployed" /\ x \notin astray' => status'[x] = "deployed"
  PROVE  Standing(t)'
BY DEF Standing, DispatchAssumption

\* A loop moves, and no request or task with it.
LEMMA LoopMoves ==
  ASSUME IInv, RowInv, NEW d \in Loops, NEW h \in LoopState, loop' = [loop EXCEPT ![d] = h],
         \A e \in Loops \ {d} : loop[e].at = "idle" /\ loop[e].todo = {},
         loop[d].at \notin {"announce", "stamp", "mark"}, h.at \notin {"announce", "stamp", "mark"},
         Steady(h), Open(h), Ready(h), UNCHANGED <<board, ledger, context>>,
         \/ UNCHANGED work
         \/ /\ d \in Requests /\ work[d] = "cascade"
            /\ \E w \in {"over", "skipped"} : work' = [work EXCEPT ![d] = w]
  PROVE  RowInv'
<1>1. loop'[d] = h /\ \A e \in Loops \ {d} : loop'[e] = loop[e]
  BY DEF IInv, TypeOK
<1>2. UNCHANGED <<status, requestOf, source, looked, record, active, astray>>
  BY DEF board, ledger, context
<1>3. \A e \in Loops : /\ loop[e].at \notin {"announce", "stamp", "mark"}
                       /\ loop'[e].at \notin {"announce", "stamp", "mark"}
  BY <1>1
<1>4. /\ \A r : ~Announcing(r) /\ ~Stamping(r) /\ ~BeingStamped(r) /\ ~Marking(r)
      /\ \A r : ~Announcing(r)' /\ ~Stamping(r)' /\ ~BeingStamped(r)' /\ ~Marking(r)'
  BY <1>3 DEF Announcing, Stamping, BeingStamped, Marking
<1>5. \A r \in Requests : /\ Busy(r)' <=> Busy(r)
                          /\ work'[r] # work[r] => work[r] = "cascade" /\ work'[r] \in {"over", "skipped"}
  BY <1>2 DEF Busy, IInv, TypeOK
<1>6. Kept' /\ Owned' /\ Untouched' /\ Settled'
  BY <1>2, <1>4, <1>5 DEF RowInv, Kept, Owned, Untouched, Settled, Claimed
<1>7. Built' /\ Named' /\ Recorded'
  BY <1>2, <1>4, <1>5 DEF RowInv, Built, Named, Recorded, Standing
<1>8. (Steady(h) /\ Open(h) /\ Ready(h))'
  BY <1>2 DEF Steady, Open, Ready, Standing, Claimed
<1>9. ASSUME NEW e \in Loops \ {d} PROVE (Steady(loop[e]) /\ Open(loop[e]) /\ Ready(loop[e]))'
  BY <1>1 DEF Steady, Open, Ready
<1> QED
  BY <1>1, <1>6, <1>7, <1>8, <1>9 DEF RowInv, LoopsReady, Steady, Open, Ready, Standing, Claimed

\* No loop is at work when one may start.
LEMMA AllIdle ==
  ASSUME OneAtATime, IInv, MayStart
  PROVE  \A e \in Loops : loop[e].at = "idle" /\ loop[e].todo = {} /\ loop[e].req = None
BY DEF MayStart, IInv, LoopsSane, Sane

LEMMA CallMoves ==
  ASSUME OneAtATime, IInv, RowInv, NEW c \in Calls, Call(c)
  PROVE  RowInv'
<1>1. c \in Loops
  BY DEF Loops
<1>2. MayStart /\ UNCHANGED <<board, ledger, work, context>>
  <2>1. CASE CallBatch(c) \/ CallScope(c) \/ CallAllReady(c) \/ CallChat(c)
    BY <2>1 DEF CallBatch, CallScope, CallAllReady, CallChat
  <2>2. CASE CallProposal(c)
    BY <2>2 DEF CallProposal
  <2>3. CASE CallCancelTask(c)
    BY <2>3, Zenon DEF CallCancelTask
  <2> QED
    BY <2>1, <2>2, <2>3 DEF Call
<1>3. /\ \A e \in Loops : loop[e].at = "idle" /\ loop[e].todo = {} /\ loop[e].req = None
      /\ \A t : ~BeingStamped(t)
  BY <1>2, AllIdle DEF BeingStamped
<1>4. \A t \in Tasks : Claimed(t) /\ t \notin astray => requestOf[t] # None
  BY <1>3 DEF RowInv, Kept
<1>5. ASSUME NEW op \in Ops \ {"cancel"}, NEW at \in {"check", "next"}, NEW todo \in SUBSET Tasks,
             Begins(c, op, at, todo),
             op # "proposal" => \A t \in todo \ astray : ~Claimed(t),
             (op = "batch" /\ at # "check") \/ op \in {"all", "auto"} => \A t \in todo : Standing(t)
      PROVE  RowInv'
  <2>1. PICK h \in LoopState : /\ loop' = [loop EXCEPT ![c] = h] /\ h.at = at /\ h.op = op
                               /\ h.todo = todo /\ h.req = None
    BY <1>5, BeginsHow
  <2>2. Steady(h) /\ Open(h) /\ Ready(h)
    BY <1>5, <2>1 DEF Steady, Open, Ready
  <2>3. h.at \notin {"announce", "stamp", "mark"} /\ loop[c].at \notin {"announce", "stamp", "mark"}
    BY <1>1, <1>3, <2>1
  <2> QED
    BY <1>1, <1>2, <1>3, <2>1, <2>2, <2>3, LoopMoves
<1>6. CASE CallBatch(c)
  <2>1. PICK S \in Selections : Begins(c, "batch", "check", {t \in S : ~Taken(t)})
    BY <1>6 DEF CallBatch
  <2>2. {t \in S : ~Taken(t)} \in SUBSET Tasks
    BY DispatchAssumption DEF DispatchAssumption
  <2>3. \A t \in {x \in S : ~Taken(x)} \ astray : ~Claimed(t)
    BY <1>4, <2>2 DEF Taken, Claimed
  <2> QED
    BY <1>5, <2>1, <2>2, <2>3 DEF Ops
<1>7. CASE CallScope(c)
  <2>1. PICK S \in Selections : Begins(c, "scope", "next", {t \in S : status[t] \notin InFlight \cup {"deployed"}})
    BY <1>7 DEF CallScope
  <2>2. {t \in S : status[t] \notin InFlight \cup {"deployed"}} \in SUBSET Tasks
    BY DispatchAssumption DEF DispatchAssumption
  <2> QED
    BY <1>5, <2>1, <2>2 DEF Ops, Claimed
<1>8. CASE CallAllReady(c)
  <2>1. Begins(c, "all", "next", Dispatchable(status)) /\ Dispatchable(status) \in SUBSET Tasks
    BY <1>8 DEF CallAllReady, Dispatchable
  <2>2. \A t \in Dispatchable(status) : ~Claimed(t) /\ Standing(t)
    BY DEF Dispatchable, Unmet, Standing, Claimed, InFlight
  <2> QED
    BY <1>5, <2>1, <2>2 DEF Ops
<1>9. CASE CallChat(c)
  <2>1. PICK t \in Tasks : (status[t] = "backlog" \/ requestOf[t] = None) /\ Begins(c, "chat", "next", {t})
    BY <1>9 DEF CallChat
  <2>2. t \notin astray => ~Claimed(t)
    BY <1>4, <2>1 DEF Claimed, InFlight
  <2> QED
    BY <1>5, <2>1, <2>2 DEF Ops
<1>10. CASE CallProposal(c)
  <2>1. PICK r \in Requests : Begins(c, "proposal", "next", proposed[r])
    BY <1>10 DEF CallProposal
  <2>2. proposed[r] \in SUBSET Tasks
    BY DEF IInv, TypeOK
  <2> QED
    BY <1>5, <2>1, <2>2 DEF Ops
<1>11. CASE CallCancelTask(c)
  <2>1. PICK t \in Tasks :
          loop' = [loop EXCEPT ![c] = [NoLoop EXCEPT !.at = "row", !.op = "cancel", !.task = t,
                                                     !.req = requestOf[t]]]
    BY <1>11, Zenon DEF CallCancelTask
  <2> DEFINE h == [NoLoop EXCEPT !.at = "row", !.op = "cancel", !.task = t, !.req = requestOf[t]]
  <2>2. requestOf[t] \in Requests \cup {None}
    BY DEF IInv, TypeOK
  <2>3. h \in LoopState /\ h.at = "row" /\ h.op = "cancel" /\ h.task = t /\ h.req = requestOf[t] /\ h.todo = {}
    BY <2>2 DEF NoLoop, LoopState, Ops
  <2>4. PICK k \in LoopState : k = h
    BY <2>3
  <2>5. Steady(k) /\ Open(k) /\ Ready(k) /\ k.at = "row"
    BY <2>3, <2>4 DEF Steady, Open, Ready
  <2>6. loop' = [loop EXCEPT ![c] = k]
    BY <2>1, <2>4
  <2>7. k.at \notin {"announce", "stamp", "mark"} /\ loop[c].at \notin {"announce", "stamp", "mark"}
    BY <1>1, <1>3, <2>5
  <2> QED
    BY <1>1, <1>2, <1>3, <2>5, <2>6, <2>7, LoopMoves
<1> QED
  BY <1>6, <1>7, <1>8, <1>9, <1>10, <1>11 DEF Call

LEMMA CascadeMoves ==
  ASSUME OneAtATime, IInv, RowInv, NEW r \in Requests, Cascade(r)
  PROVE  RowInv'
<1>1. r \in Loops /\ MayStart /\ UNCHANGED <<board, ledger, work, context>>
  BY RequestsAreLoops DEF Cascade
<1>2. \A e \in Loops : loop[e].at = "idle" /\ loop[e].todo = {} /\ loop[e].req = None
  BY <1>1, AllIdle
<1>3. Dispatchable(status) \in SUBSET Tasks /\ \A t \in Dispatchable(status) : Standing(t)
  BY DEF Dispatchable, Unmet, Standing
<1>4. PICK h \in LoopState : /\ loop' = [loop EXCEPT ![r] = h] /\ h.at = "filter" /\ h.op = "auto"
                             /\ h.todo = Dispatchable(status) /\ h.req = None
  BY <1>3, BeginsHow DEF Cascade, Ops
<1>5. Steady(h) /\ Open(h) /\ Ready(h)
  BY <1>3, <1>4 DEF Steady, Open, Ready
<1>6. h.at \notin {"announce", "stamp", "mark"} /\ loop[r].at \notin {"announce", "stamp", "mark"}
  BY <1>1, <1>2, <1>4
<1> QED
  BY <1>1, <1>2, <1>4, <1>5, <1>6, LoopMoves

LEMMA SkipMoves ==
  ASSUME OneAtATime, IInv, RowInv, NEW r \in Requests, Skip(r)
  PROVE  RowInv'
<1>1. /\ r \in Loops /\ work[r] = "cascade"
      /\ loop[r].at = "filter" \/ (loop[r].at = "idle" /\ MayStart)
      /\ loop' = [loop EXCEPT ![r] = NoLoop] /\ work' = [work EXCEPT ![r] = "skipped"]
      /\ UNCHANGED <<board, ledger, context>>
  BY RequestsAreLoops DEF Skip
<1>2. \A e \in Loops \ {r} : loop[e].at = "idle" /\ loop[e].todo = {}
  BY <1>1, OthersIdle, AllIdle
<1>3. Steady(NoLoop) /\ Open(NoLoop) /\ Ready(NoLoop)
  BY NoLoopTyped DEF Steady, Open, Ready
<1> QED
  BY <1>1, <1>2, <1>3, NoLoopTyped, LoopMoves

LEMMA FilterMoves ==
  ASSUME IInv, RowInv, NEW r \in Requests, Filter(r)
  PROVE  RowInv'
<1> DEFINE fresh == {t \in loop[r].todo : status[t] = "backlog"}
           Resumes(todo) == loop' = [loop EXCEPT ![r] = [@ EXCEPT !.at = "next", !.todo = todo]]
<1>1. r \in Loops /\ loop[r].at = "filter" /\ UNCHANGED <<board, ledger, work, context>>
  BY RequestsAreLoops DEF Filter
<1>2. loop[r] \in LoopState /\ fresh \in SUBSET Tasks
  BY <1>1 DEF IInv, TypeOK, LoopState
<1>3. PICK todo \in SUBSET fresh : Resumes(todo)
  <2>1. Resumes({}) \/ Resumes(fresh)
    BY DEF Filter
  <2>2. {} \in SUBSET fresh /\ fresh \in SUBSET fresh
    OBVIOUS
  <2> HIDE DEF fresh, Resumes
  <2> QED
    BY <2>1, <2>2
<1> DEFINE g == [loop[r] EXCEPT !.at = "next", !.todo = todo]
<1>4. g \in LoopState /\ g.at = "next" /\ g.op = loop[r].op /\ g.todo = todo
  BY <1>2 DEF LoopState
<1>5. PICK h \in LoopState : h = g
  BY <1>4
<1>6. loop' = [loop EXCEPT ![r] = h] /\ h.at = "next" /\ h.op = loop[r].op /\ h.todo = todo
  BY <1>3, <1>4, <1>5
<1> HIDE DEF g
<1>7. Steady(loop[r]) /\ Ready(loop[r])
  BY <1>1 DEF RowInv, LoopsReady
<1>8. Steady(h) /\ Open(h) /\ Ready(h)
  BY <1>1, <1>6, <1>7 DEF Steady, Open, Ready, Claimed, InFlight
<1>9. \A e \in Loops \ {r} : loop[e].at = "idle" /\ loop[e].todo = {}
  BY <1>1, OthersIdle
<1>10. h.at \notin {"announce", "stamp", "mark"} /\ loop[r].at \notin {"announce", "stamp", "mark"}
  BY <1>1, <1>6
<1> QED
  BY <1>1, <1>6, <1>8, <1>9, <1>10, LoopMoves

LEMMA GoOnMoves ==
  ASSUME IInv, RowInv, NEW d \in Loops, CheckBatch(d) \/ Blocked(d) \/ Refuse(d) \/ Finish(d)
  PROVE  RowInv'
<1>1. loop[d].at \in {"check", "next"} /\ UNCHANGED <<board, ledger, context>>
  BY DEF CheckBatch, Blocked, Refuse, Finish
<1>2. loop[d] \in LoopState /\ loop[d].todo \in SUBSET Tasks /\ Sane(d, loop[d])
      /\ Steady(loop[d]) /\ Open(loop[d]) /\ Ready(loop[d])
  BY DEF IInv, TypeOK, LoopsSane, RowInv, LoopsReady, LoopState
<1>3. \A e \in Loops \ {d} : loop[e].at = "idle" /\ loop[e].todo = {}
  BY <1>1, OthersIdle
<1>4. ASSUME NEW h \in LoopState, loop' = [loop EXCEPT ![d] = h], h.at \in {"idle", "next"},
             Steady(h), Open(h), Ready(h),
             \/ UNCHANGED work
             \/ d \in Requests /\ work[d] = "cascade" /\ work' = [work EXCEPT ![d] = "over"]
      PROVE  RowInv'
  BY <1>1, <1>3, <1>4, LoopMoves
<1>5. Steady(NoLoop) /\ Open(NoLoop) /\ Ready(NoLoop)
  BY NoLoopTyped DEF Steady, Open, Ready
<1>6. CASE CheckBatch(d)
  <2>1. loop[d].at = "check" /\ UNCHANGED work
    BY <1>6 DEF CheckBatch
  <2>2. CASE loop' = [loop EXCEPT ![d] = NoLoop]
    BY <1>4, <1>5, <2>1, <2>2, NoLoopTyped
  <2>3. CASE /\ Goes(d, "next")
             /\ \A t \in loop[d].todo : status[t] \in InFlight \cup {"deployed"} \/ Unmet(t, status) = {}
    <3>1. PICK h \in LoopState : h = [loop[d] EXCEPT !.at = "next"]
      BY LoopEdits
    <3>2. loop' = [loop EXCEPT ![d] = h] /\ h.at = "next" /\ h.op = loop[d].op /\ h.todo = loop[d].todo
      BY <2>3, <3>1, LoopEdits DEF Goes
    <3>3. Steady(h) /\ Open(h)
      BY <1>2, <2>1, <3>2 DEF Steady, Open
    <3>4. Ready(h)
      <4> SUFFICES ASSUME h.op \in {"batch", "all", "auto"}, NEW t \in h.todo,
                          (DependsOn[t] \cup {t}) \cap astray = {}
                   PROVE  \A x \in DependsOn[t] : status[x] = "deployed"
        BY DEF Ready, Standing
      <4>1. ~Claimed(t)
        BY <1>2, <2>1, <3>2 DEF Open
      <4> QED
        BY <2>3, <3>2, <4>1 DEF Claimed, Unmet
    <3> QED
      BY <1>4, <2>1, <3>2, <3>3, <3>4
  <2> QED
    BY <1>6, <2>2, <2>3 DEF CheckBatch
<1>7. CASE Blocked(d) \/ Refuse(d)
  <2>1. PICK t : loop' = [loop EXCEPT ![d].todo = @ \ {t}]
    BY <1>7 DEF Blocked, Refuse
  <2>2. loop[d].at = "next" /\ UNCHANGED work
    BY <1>7 DEF Blocked, Refuse
  <2>3. loop[d].todo \ {t} \in SUBSET Tasks
    BY <1>2
  <2>4. PICK h \in LoopState : h = [loop[d] EXCEPT !.todo = loop[d].todo \ {t}]
    BY <2>3, LoopEdits
  <2>5. loop' = [loop EXCEPT ![d] = h] /\ h.at = "next" /\ h.op = loop[d].op /\ h.todo = loop[d].todo \ {t}
    BY <2>1, <2>2, <2>3, <2>4, LoopEdits
  <2>6. Steady(h) /\ Open(h) /\ Ready(h)
    BY <1>2, <2>2, <2>5 DEF Steady, Open, Ready
  <2> QED
    BY <1>4, <2>2, <2>5, <2>6
<1>8. CASE Finish(d)
  <2>1. loop' = [loop EXCEPT ![d] = NoLoop] /\ loop[d].at = "next"
        /\ work' = IF d \in Requests THEN [work EXCEPT ![d] = "over"] ELSE work
    BY <1>8 DEF Finish
  <2>2. d \in Requests => work[d] = "cascade"
    BY <1>2, <2>1 DEF Sane
  <2> QED
    BY <1>4, <1>5, <2>1, <2>2, NoLoopTyped
<1> QED
  BY <1>6, <1>7, <1>8

LEMMA CreateMoves ==
  ASSUME IInv, RowInv, NEW d \in Loops, Create(d)
  PROVE  RowInv'
<1>1. PICK r \in Requests, t \in loop[d].todo :
        /\ source[r] = None
        /\ loop[d].op = "scope" => t \in Cleared
        /\ source' = [source EXCEPT ![r] = t]
        /\ looked' = IF loop[d].op \in {"chat", "proposal"} THEN looked ELSE looked \cup {r}
        /\ record' = [record EXCEPT ![r] = "received"]
        /\ loop' = [loop EXCEPT ![d].at = "announce", ![d].task = t, ![d].req = r]
        /\ astray' = IF loop[d].op = "proposal" /\ status[t] \in InFlight \cup {"deployed"}
                     THEN astray \cup {t} ELSE astray
  <2> DEFINE r == CHOOSE id \in Requests : source[id] = None
  <2>1. r \in Requests /\ source[r] = None
    BY DEF Create
  <2> HIDE DEF r
  <2>2. PICK t \in loop[d].todo :
        /\ loop[d].op = "scope" => Unmet(t, status) = {}
        /\ source' = [source EXCEPT ![r] = t]
        /\ looked' = IF loop[d].op \in {"chat", "proposal"} THEN looked ELSE looked \cup {r}
        /\ record' = [record EXCEPT ![r] = "received"]
        /\ loop' = [loop EXCEPT ![d].at = "announce", ![d].task = t, ![d].req = r]
        /\ astray' = IF loop[d].op = "proposal" /\ status[t] \in InFlight \cup {"deployed"}
                     THEN astray \cup {t} ELSE astray
    BY Zenon DEF Create, r
  <2>3. loop[d].op = "scope" => t \in Cleared
    BY <2>2 DEF Unmet, Cleared, IInv, TypeOK, LoopState
  <2> QED
    BY <2>1, <2>2, <2>3, Zenon
<1>2. /\ loop[d].at = "next" /\ loop[d] \in LoopState /\ loop[d].todo \in SUBSET Tasks /\ t \in Tasks
      /\ UNCHANGED <<status, requestOf, work, proposed, active>>
  BY DEF Create, board, IInv, TypeOK, LoopState
<1>3. record[r] = "absent" /\ work[r] = "off" /\ t # None
  BY <1>1, <1>2, DispatchAssumption DEF IInv, Sourced, DispatchAssumption
<1>4. Steady(loop[d]) /\ Open(loop[d]) /\ Ready(loop[d])
  BY DEF RowInv, LoopsReady
<1>5. PICK h \in LoopState : /\ loop' = [loop EXCEPT ![d] = h] /\ h.at = "announce" /\ h.task = t /\ h.req = r
                             /\ h.op = loop[d].op /\ h.todo = loop[d].todo
  <2> DEFINE g == [loop[d] EXCEPT !.at = "announce", !.task = t, !.req = r]
  <2>1. g \in LoopState /\ g.at = "announce" /\ g.task = t /\ g.req = r /\ g.op = loop[d].op /\ g.todo = loop[d].todo
    BY <1>2 DEF LoopState
  <2>2. loop' = [loop EXCEPT ![d] = g]
    BY <1>1
  <2> HIDE DEF g
  <2> QED
    BY <2>1, <2>2
<1>6. loop'[d] = h /\ \A e \in Loops \ {d} : loop'[e] = loop[e]
  BY <1>5 DEF IInv, TypeOK
<1>7. \A e \in Loops \ {d} : loop[e].at = "idle" /\ loop[e].todo = {}
  BY <1>2, OthersIdle
<1>8. /\ \A x : ~Announcing(x) /\ ~Stamping(x) /\ ~BeingStamped(x) /\ ~Marking(x)
      /\ \A x : ~Stamping(x)' /\ ~BeingStamped(x)' /\ ~Marking(x)'
  BY <1>2, <1>5, <1>6, <1>7 DEF Announcing, Stamping, BeingStamped, Marking
<1>9. Announcing(r)'
  BY <1>5, <1>6 DEF Announcing
<1>10. /\ \A x \in Requests \ {r} : source'[x] = source[x] /\ record'[x] = record[x]
       /\ source'[r] = t /\ record'[r] = "received"
  BY <1>1 DEF IInv, TypeOK
<1>11. Busy(r)' /\ \A x \in Requests \ {r} : Busy(x)' <=> Busy(x)
  BY <1>2, <1>10 DEF Busy
<1>12. astray \subseteq astray' /\ (t \notin astray' => ~Claimed(t))
  <2>1. loop[d].op # "proposal" /\ t \notin astray => ~Claimed(t)
    BY <1>1, <1>2, <1>4 DEF Open
  <2> QED
    BY <1>1, <2>1 DEF Claimed
<1>13. \A x \in Tasks : Standing(x) => Standing(x)'
  BY <1>2, <1>12, DispatchAssumption, StandingStays
<1>14. Kept' /\ Owned'
  <2>1. \A x \in Tasks : requestOf[x] # None => requestOf[x] # r /\ requestOf[x] \in Requests
    BY <1>1, DispatchAssumption DEF RowInv, Owned, IInv, TypeOK, DispatchAssumption
  <2> QED
    BY <1>2, <1>8, <1>10, <1>12, <2>1 DEF RowInv, Kept, Owned, Claimed
<1>15. Built'
  <2>1. ASSUME NEW x \in Requests, x \in looked', Busy(x)' PROVE source'[x] # None /\ Standing(source[x])'
    <3>1. CASE x = r
      <4>1. loop[d].op \notin {"chat", "proposal"}
        <5>1. r \in looked => FALSE
          BY <1>1 DEF RowInv, Built
        <5> QED
          BY <1>1, <2>1, <3>1, <5>1
      <4>2. Standing(t)
        <5>1. loop[d].op \in {"batch", "scope", "all", "auto"}
          BY <1>2, <1>4, <4>1 DEF Steady, LoopState, Ops
        <5> QED
          BY <1>1, <1>2, <1>4, <5>1 DEF Ready, Standing, Cleared
      <4> QED
        BY <1>2, <1>3, <1>10, <1>13, <3>1, <4>2 DEF Standing
    <3>2. CASE x # r
      <4>1. Busy(x) /\ x \in looked /\ source'[x] = source[x]
        BY <1>1, <1>10, <1>11, <2>1, <3>2
      <4>2. source[x] \in Tasks
        BY <4>1, BusyHasTask
      <4> QED
        <5>1. Standing(source[x]) /\ source[x] # None
          BY <4>1 DEF RowInv, Built
        <5>2. Standing(source[x])'
          BY <1>2, <1>13, <4>1, <4>2, <5>1 DEF Standing
        <5> QED
          BY <4>1, <5>1, <5>2
    <3> QED
      BY <3>1, <3>2
  <2>2. ASSUME NEW x \in Requests, x \in looked' PROVE source'[x] # None
    BY <1>1, <1>3, <1>10, <2>2 DEF RowInv, Built
  <2> QED
    BY <2>1, <2>2 DEF Built
<1>16. Named'
  BY <1>2, <1>8, <1>9, <1>10, <1>11, <1>12 DEF RowInv, Named
<1>17. Untouched'
  BY <1>2, <1>8, <1>10, <1>11, <1>12 DEF RowInv, Untouched
<1>18. Settled'
  <2> SUFFICES ASSUME NEW x \in Tasks, x \notin astray', requestOf'[x] # None,
                      \A q \in Requests : source'[q] = x => ~Busy(q)'
               PROVE  status'[x] = Outcome(record'[requestOf'[x]])
    BY DEF Settled
  <2>1. x \notin astray /\ requestOf[x] # None /\ requestOf[x] \in Requests /\ requestOf[x] # r
    BY <1>1, <1>2, <1>12, DispatchAssumption DEF RowInv, Owned, IInv, TypeOK, DispatchAssumption
  <2>2. \A q \in Requests : source[q] = x => ~Busy(q)
    BY <1>1, <1>10, <1>11, DispatchAssumption DEF DispatchAssumption
  <2>3. status[x] = Outcome(record[requestOf[x]])
    BY <1>8, <2>1, <2>2 DEF RowInv, Settled
  <2> QED
    BY <1>2, <1>10, <2>1, <2>3
<1>19. Recorded'
  <2>1. \A x \in Requests \ {r} : source[x] \notin astray' => source[x] \notin astray
    BY <1>12
  <2> QED
    BY <1>2, <1>3, <1>8, <1>10, <2>1 DEF RowInv, Recorded
<1>20. Steady(h)' /\ Open(h)' /\ Ready(h)'
  <2>1. Steady(h)'
    BY <1>4, <1>2, <1>5 DEF Steady
  <2>2. Open(h)'
    BY <1>2, <1>4, <1>5, <1>12 DEF Open, Claimed
  <2>3. Ready(h)'
    BY <1>2, <1>4, <1>5, <1>13 DEF Ready
  <2> QED
    BY <2>1, <2>2, <2>3, Zenon
<1>21. ASSUME NEW e \in Loops \ {d} PROVE (Steady(loop[e]) /\ Open(loop[e]) /\ Ready(loop[e]))'
  BY <1>6, <1>7 DEF Steady, Open, Ready
<1>22. LoopsReady'
  <2>1. (Steady(loop[d]) /\ Open(loop[d]) /\ Ready(loop[d]))'
    BY <1>6, <1>20 DEF Steady, Open, Ready, Standing, Claimed
  <2> QED
    BY <1>21, <2>1 DEF LoopsReady
<1> QED
  BY <1>14, <1>15, <1>16, <1>17, <1>18, <1>19, <1>22 DEF RowInv

\* Where the loop that dispatches a task stands, the task is its own.
LEMMA AnnounceMoves ==
  ASSUME IInv, RowInv, NEW d \in Loops, Announce(d)
  PROVE  RowInv'
<1>1. loop[d].at = "announce" /\ loop[d] \in LoopState /\ Sane(d, loop[d])
      /\ Steady(loop[d]) /\ Open(loop[d]) /\ Ready(loop[d])
  BY DEF Announce, IInv, TypeOK, LoopsSane, RowInv, LoopsReady
<1>2. PICK r \in Requests, t \in Tasks :
        r = loop[d].req /\ t = loop[d].task /\ source[r] = t /\ record[r] = "received" /\ work[r] = "off"
  BY <1>1 DEF Sane
<1>3. /\ record' = [record EXCEPT ![r] = "analyzing"] /\ status' = [status EXCEPT ![t] = "dispatched"]
      /\ work' = [work EXCEPT ![r] = "waiting"]
      /\ UNCHANGED <<requestOf, source, looked, proposed, active, astray>>
  BY <1>2 DEF Announce, context
<1>4. PICK h \in LoopState : /\ loop' = [loop EXCEPT ![d] = h] /\ h.at = "stamp" /\ h.task = t /\ h.req = r
                             /\ h.op = loop[d].op /\ h.todo = loop[d].todo
  <2> DEFINE g == [loop[d] EXCEPT !.at = "stamp"]
  <2>1. g \in LoopState /\ g.at = "stamp" /\ g.task = t /\ g.req = r /\ g.op = loop[d].op /\ g.todo = loop[d].todo
    BY <1>2, LoopEdits
  <2>2. loop' = [loop EXCEPT ![d] = g]
    BY DEF Announce, Goes
  <2> HIDE DEF g
  <2> QED
    BY <2>1, <2>2
<1>5. loop'[d] = h /\ \A e \in Loops \ {d} : loop'[e] = loop[e]
  BY <1>4 DEF IInv, TypeOK
<1>6. \A e \in Loops \ {d} : loop[e].at = "idle" /\ loop[e].todo = {}
  BY <1>1, OthersIdle
<1>7. /\ \A x : ~BeingStamped(x) /\ ~Stamping(x) /\ ~Marking(x) /\ ~Marking(x)' /\ ~Announcing(x)'
      /\ \A x \in Requests \ {r} : ~Announcing(x)
      /\ BeingStamped(t)' /\ Stamping(r)'
  BY <1>1, <1>2, <1>4, <1>5, <1>6 DEF Announcing, Stamping, BeingStamped, Marking
<1>8. /\ \A x \in Requests \ {r} : record'[x] = record[x] /\ work'[x] = work[x]
      /\ work'[r] = "waiting"
      /\ status'[t] = "dispatched" /\ \A x \in Tasks \ {t} : status'[x] = status[x]
  BY <1>3 DEF IInv, TypeOK
<1>9. Busy(r) /\ Busy(r)' /\ \A x \in Requests \ {r} : Busy(x)' <=> Busy(x)
  BY <1>2, <1>8 DEF Busy
<1>10. \A x \in Tasks : Standing(x) => Standing(x)'
  <2>1. \A x \in Tasks : status[x] = "deployed" /\ x \notin astray' => status'[x] = "deployed"
    BY <1>1, <1>2, <1>3, <1>8 DEF Open, Claimed
  <2> QED
    BY <1>3, <2>1, DispatchAssumption, StandingStays
<1>11. Kept' /\ Owned'
  BY <1>3, <1>7, <1>8 DEF RowInv, Kept, Owned, Claimed
<1>12. Built'
  <2>1. \A x \in Requests : Busy(x)' => Busy(x) /\ source[x] \in Tasks
    BY <1>9, BusyHasTask
  <2> QED
    BY <1>3, <1>10, <2>1 DEF RowInv, Built, Standing
<1>13. Named'
  BY <1>3, <1>7, <1>9 DEF RowInv, Named
<1>14. Untouched'
  BY <1>3, <1>7, <1>8, <1>9 DEF RowInv, Untouched
<1>15. Settled'
  <2> SUFFICES ASSUME NEW x \in Tasks, x \notin astray, requestOf[x] # None,
                      \A q \in Requests : source[q] = x => ~Busy(q)'
               PROVE  status'[x] = Outcome(record'[requestOf[x]])
    BY <1>3 DEF Settled
  <2>1. x # t /\ requestOf[x] \in Requests /\ requestOf[x] # r
    BY <1>2, <1>9 DEF RowInv, Owned, IInv, TypeOK
  <2>2. status[x] = Outcome(record[requestOf[x]])
    BY <1>2, <1>7, <1>9, <2>1 DEF RowInv, Settled
  <2> QED
    BY <1>8, <2>1, <2>2
<1>16. Recorded'
  BY <1>3, <1>7, <1>8 DEF RowInv, Recorded
<1>17. Steady(h)' /\ Open(h)' /\ Ready(h)'
  <2>1. Steady(h)'
    BY <1>1, <1>4, <1>8 DEF Steady
  <2>2. Open(h)'
    BY <1>1, <1>2, <1>3, <1>4, <1>8 DEF Open, Claimed, LoopState
  <2>3. Ready(h)'
    BY <1>1, <1>4, <1>10 DEF Ready, LoopState
  <2> QED
    BY <2>1, <2>2, <2>3
<1>18. LoopsReady'
  <2>1. ASSUME NEW e \in Loops \ {d} PROVE (Steady(loop[e]) /\ Open(loop[e]) /\ Ready(loop[e]))'
    BY <1>5, <1>6 DEF Steady, Open, Ready
  <2>2. (Steady(loop[d]) /\ Open(loop[d]) /\ Ready(loop[d]))'
    BY <1>5, <1>17 DEF Steady, Open, Ready, Standing, Claimed
  <2> QED
    BY <2>1, <2>2 DEF LoopsReady
<1> QED
  BY <1>11, <1>12, <1>13, <1>14, <1>15, <1>16, <1>18 DEF RowInv

LEMMA StampMoves ==
  ASSUME IInv, RowInv, NEW d \in Loops, Stamp(d)
  PROVE  RowInv'
<1>1. loop[d].at = "stamp" /\ loop[d] \in LoopState /\ Sane(d, loop[d])
      /\ Steady(loop[d]) /\ Open(loop[d]) /\ Ready(loop[d])
  BY DEF Stamp, IInv, TypeOK, LoopsSane, RowInv, LoopsReady
<1>2. PICK r \in Requests, t \in Tasks :
        r = loop[d].req /\ t = loop[d].task /\ source[r] = t /\ work[r] = "waiting"
  BY <1>1 DEF Sane, Steady
<1>3. /\ status' = [status EXCEPT ![t] = "dispatched"] /\ requestOf' = [requestOf EXCEPT ![t] = r]
      /\ UNCHANGED <<source, looked, record, work, proposed, active, astray>>
  BY <1>2 DEF Stamp, ledger, context
<1>4. PICK h \in LoopState : /\ loop' = [loop EXCEPT ![d] = h] /\ h.at = "next" /\ h.op = loop[d].op
                             /\ h.todo = loop[d].todo \ {t} /\ h.req = None
  <2> DEFINE g == [loop[d] EXCEPT !.at = "next", !.todo = loop[d].todo \ {t}, !.task = None, !.req = None]
  <2>1. g \in LoopState /\ g.at = "next" /\ g.op = loop[d].op /\ g.todo = loop[d].todo \ {t} /\ g.req = None
    BY <1>1 DEF LoopState
  <2>2. loop' = [loop EXCEPT ![d] = g]
    BY <1>2 DEF Stamp
  <2> HIDE DEF g
  <2> QED
    BY <2>1, <2>2
<1>5. loop'[d] = h /\ \A e \in Loops \ {d} : loop'[e] = loop[e]
  BY <1>4 DEF IInv, TypeOK
<1>6. \A e \in Loops \ {d} : loop[e].at = "idle" /\ loop[e].todo = {}
  BY <1>1, OthersIdle
<1>7. /\ \A x : ~Announcing(x) /\ ~Marking(x) /\ ~Marking(x)' /\ ~Announcing(x)'
      /\ \A x : ~BeingStamped(x)' /\ ~Stamping(x)'
      /\ \A x \in Tasks \ {t} : ~BeingStamped(x)
      /\ \A x \in Requests \ {r} : ~Stamping(x)
  BY <1>1, <1>2, <1>4, <1>5, <1>6 DEF Announcing, Stamping, BeingStamped, Marking
<1>8. /\ status'[t] = "dispatched" /\ \A x \in Tasks \ {t} : status'[x] = status[x]
      /\ requestOf'[t] = r /\ \A x \in Tasks \ {t} : requestOf'[x] = requestOf[x]
      /\ r # None
  BY <1>3, DispatchAssumption DEF IInv, TypeOK, DispatchAssumption
<1>9. Busy(r) /\ \A x \in Requests : Busy(x)' <=> Busy(x)
  BY <1>2, <1>3 DEF Busy
<1>10. \A x \in Tasks : Standing(x) => Standing(x)'
  <2>1. \A x \in Tasks : status[x] = "deployed" /\ x \notin astray' => status'[x] = "deployed"
    BY <1>1, <1>2, <1>3, <1>8 DEF Open
  <2> QED
    BY <1>3, <2>1, DispatchAssumption, StandingStays
<1>11. Kept' /\ Owned'
  BY <1>2, <1>3, <1>7, <1>8 DEF RowInv, Kept, Owned, Claimed
<1>12. Built'
  <2>1. \A x \in Requests : Busy(x)' => Busy(x) /\ source[x] \in Tasks
    BY <1>9, BusyHasTask
  <2> QED
    BY <1>3, <1>10, <2>1 DEF RowInv, Built, Standing
<1>13. Named'
  <2> SUFFICES ASSUME NEW x \in Requests, Busy(x), source[x] \notin astray
               PROVE  requestOf'[source[x]] = x
    BY <1>3, <1>9 DEF Named
  <2>1. source[x] \in Tasks
    BY BusyHasTask
  <2>2. source[x] = t => x = r
    BY <1>2, <1>9 DEF IInv, OneBusy
  <2>3. CASE source[x] = t
    BY <1>8, <2>2, <2>3
  <2>4. CASE source[x] # t
    <3>1. requestOf[source[x]] = x \/ Announcing(x) \/ Stamping(x)
      BY DEF RowInv, Named
    <3>2. x # r
      BY <1>2, <2>4
    <3> QED
      BY <1>7, <1>8, <2>1, <2>4, <3>1, <3>2
  <2> QED
    BY <2>3, <2>4
<1>14. Untouched'
  BY <1>3, <1>7, <1>8, <1>9 DEF RowInv, Untouched
<1>15. Settled'
  BY <1>2, <1>3, <1>7, <1>8, <1>9 DEF RowInv, Settled
<1>16. Recorded'
  BY <1>3, <1>7 DEF RowInv, Recorded
<1>17. Steady(h)' /\ Open(h)' /\ Ready(h)'
  <2>1. Steady(h)'
    BY <1>1, <1>4 DEF Steady
  <2>2. Open(h)'
    BY <1>1, <1>2, <1>3, <1>4, <1>8 DEF Open, Claimed, LoopState
  <2>3. Ready(h)'
    BY <1>1, <1>4, <1>10 DEF Ready, LoopState
  <2> QED
    BY <2>1, <2>2, <2>3
<1>18. LoopsReady'
  <2>1. ASSUME NEW e \in Loops \ {d} PROVE (Steady(loop[e]) /\ Open(loop[e]) /\ Ready(loop[e]))'
    BY <1>5, <1>6 DEF Steady, Open, Ready
  <2>2. (Steady(loop[d]) /\ Open(loop[d]) /\ Ready(loop[d]))'
    BY <1>5, <1>17 DEF Steady, Open, Ready, Standing, Claimed
  <2> QED
    BY <2>1, <2>2 DEF LoopsReady
<1> QED
  BY <1>11, <1>12, <1>13, <1>14, <1>15, <1>16, <1>18 DEF RowInv

LEMMA CancelMoves ==
  ASSUME IInv, RowInv, NEW d \in Loops, CancelRow(d) \/ CancelMark(d)
  PROVE  RowInv'
<1>1. /\ loop[d].at \in {"row", "mark"} /\ loop[d] \in LoopState /\ Sane(d, loop[d]) /\ Steady(loop[d])
      /\ loop[d].task \in Tasks /\ loop[d].todo = {}
  BY DEF CancelRow, CancelMark, IInv, TypeOK, LoopsSane, Sane, RowInv, LoopsReady
<1>2. PICK t \in Tasks : t = loop[d].task
  BY <1>1
<1>3. PICK h \in LoopState :
        /\ loop' = [loop EXCEPT ![d] = h] /\ h.at \in {"mark", "idle"} /\ h.todo = {}
        /\ CancelRow(d) => h.at = "mark" /\ h.task = t
        /\ CancelMark(d) => h.at = "idle"
  <2>1. CASE CancelRow(d)
    <3>1. PICK h \in LoopState : h = [loop[d] EXCEPT !.at = "mark"]
      BY LoopEdits
    <3>2. h.at = "mark" /\ h.task = t /\ h.todo = {} /\ loop' = [loop EXCEPT ![d] = h] /\ ~CancelMark(d)
      BY <1>1, <1>2, <2>1, <3>1, LoopEdits DEF CancelRow, CancelMark, Goes
    <3> QED
      BY <3>2
  <2>2. CASE CancelMark(d)
    <3>1. ~CancelRow(d)
      BY <2>2 DEF CancelRow, CancelMark
    <3> QED
      BY <2>2, <3>1, NoLoopTyped DEF CancelMark
  <2> QED
    BY <2>1, <2>2
<1>4. loop'[d] = h /\ \A e \in Loops \ {d} : loop'[e] = loop[e]
  BY <1>3 DEF IInv, TypeOK
<1>5. \A e \in Loops \ {d} : loop[e].at = "idle" /\ loop[e].todo = {}
  BY <1>1, OthersIdle
<1>6. /\ \A x : ~Announcing(x) /\ ~Stamping(x) /\ ~BeingStamped(x)
      /\ \A x : ~Announcing(x)' /\ ~Stamping(x)' /\ ~BeingStamped(x)'
      /\ \A x \in Tasks \ {t} : ~Marking(x)
  BY <1>1, <1>2, <1>3, <1>4, <1>5 DEF Announcing, Stamping, BeingStamped, Marking
<1>7. UNCHANGED <<requestOf, source, looked, work>>
  BY DEF CancelRow, CancelMark, board, ledger
<1>8. LoopsReady'
  BY <1>3, <1>4, <1>5 DEF LoopsReady, Steady, Open, Ready
<1>9. CASE CancelRow(d)
  <2>1. UNCHANGED <<status, astray>> /\ Marking(t)'
    BY <1>2, <1>3, <1>4, <1>9 DEF CancelRow, board, context, Marking
  <2>2. \A x \in Requests : record'[x] = record[x] \/ (source[x] = t /\ record[x] # "received" /\ record'[x] = "cancelled")
    <3>1. loop[d].req = requestOf[t]
      BY <1>1, <1>2, <1>9 DEF CancelRow, Steady
    <3>2. loop[d].req # None => loop[d].req \in Requests /\ source[loop[d].req] = t /\ record[loop[d].req] # "received"
      BY <1>1, <1>6, <3>1 DEF LoopState, RowInv, Owned, IInv, Received
    <3> QED
      BY <1>9, <3>2 DEF CancelRow, IInv, TypeOK
  <2>3. \A x \in Requests : Busy(x)' <=> Busy(x)
    BY <1>7, <2>2 DEF Busy
  <2>4. Kept' /\ Owned' /\ Built' /\ Named' /\ Untouched'
    BY <1>6, <1>7, <2>1, <2>3 DEF RowInv, Kept, Owned, Built, Standing, Named, Untouched, Claimed
  <2>5. Settled'
    <3> SUFFICES ASSUME NEW x \in Tasks, x \notin astray, requestOf[x] # None, ~Marking(x)',
                        \A q \in Requests : source[q] = x => ~Busy(q)
                 PROVE  status[x] = Outcome(record'[requestOf[x]])
      BY <1>7, <2>1, <2>3 DEF Settled
    <3>1. x # t
      BY <2>1
    <3>2. requestOf[x] \in Requests /\ source[requestOf[x]] = x
      BY DEF RowInv, Owned, IInv, TypeOK
    <3> QED
      BY <1>6, <2>2, <3>1, <3>2 DEF RowInv, Settled
  <2>6. Recorded'
    <3>1. ASSUME NEW x \in Requests, ~Marking(source[x])' PROVE record'[x] = record[x]
      BY <1>7, <2>1, <2>2, <3>1 DEF Marking
    <3>2. ASSUME NEW x \in Requests, ~Marking(source[x])', work[x] \in {"completed", "failed", "cascade"}
          PROVE  ~Marking(source[x])
      <4>1. source[x] \in Tasks
        BY <3>2, BusyHasTask DEF Busy
      <4> QED
        BY <1>6, <1>7, <2>1, <3>2, <4>1 DEF Marking
    <3> QED
      BY <1>7, <2>1, <3>1, <3>2 DEF RowInv, Recorded
  <2> QED
    BY <1>8, <2>4, <2>5, <2>6 DEF RowInv
<1>10. CASE CancelMark(d)
  <2>1. /\ UNCHANGED record /\ astray' = astray \cup {t} /\ \A x : ~Marking(x)'
        /\ \A x \in Tasks \ {t} : status'[x] = status[x]
    BY <1>2, <1>3, <1>4, <1>5, <1>10 DEF CancelMark, ledger, Marking, IInv, TypeOK
  <2>2. \A x \in Requests : Busy(x)' <=> Busy(x)
    BY <1>7, <2>1 DEF Busy
  <2>3. \A x \in Tasks : Standing(x) => Standing(x)'
    BY <2>1, DispatchAssumption, StandingStays
  <2>4. Kept' /\ Owned'
    BY <1>6, <1>7, <2>1 DEF RowInv, Kept, Owned, Claimed
  <2>5. Built'
    <3>1. \A x \in Requests : Busy(x)' => Busy(x) /\ source[x] \in Tasks
      BY <2>2, BusyHasTask
    <3> QED
      BY <1>7, <2>3, <3>1 DEF RowInv, Built, Standing
  <2>6. Named' /\ Untouched'
    BY <1>6, <1>7, <2>1, <2>2 DEF RowInv, Named, Untouched
  <2>7. Settled'
    BY <1>6, <1>7, <2>1, <2>2 DEF RowInv, Settled
  <2>8. Recorded'
    <3>1. ASSUME NEW x \in Requests, source[x] \notin astray', work[x] \in {"completed", "failed", "cascade"}
          PROVE  ~Marking(source[x])
      <4>1. source[x] \in Tasks
        BY <3>1, BusyHasTask DEF Busy
      <4> QED
        BY <1>6, <2>1, <3>1, <4>1
    <3> QED
      BY <1>7, <2>1, <3>1 DEF RowInv, Recorded
  <2> QED
    BY <1>8, <2>4, <2>5, <2>6, <2>7, <2>8 DEF RowInv
<1> QED
  BY <1>9, <1>10

\* A request in flight has its task for itself: no loop dispatches it.
LEMMA WorkMoves ==
  ASSUME IInv, RowInv, NEW r \in Requests, work[r] \in {"waiting", "working", "completed", "failed"}, ~Stamping(r),
         NEW w \in {"working", "completed", "failed", "cascade", "over"}, work' = [work EXCEPT ![r] = w],
         NEW c \in {"in_progress", "completed", "failed", "cancelled"},
         UNCHANGED record \/ record' = [record EXCEPT ![r] = c],
         NEW v \in TaskStatus, UNCHANGED status \/ status' = [status EXCEPT ![source[r]] = v],
         UNCHANGED <<requestOf, source, looked, loop, proposed, context>>,
         source[r] \notin astray /\ ~Marking(source[r]) =>
           /\ (w \in {"completed", "failed"} => record'[r] = w)
           /\ (w = "cascade" => record'[r] = "completed")
           /\ (w \in {"cascade", "over"} => status'[source[r]] = Outcome(record'[r]))
  PROVE  RowInv'
<1>1. UNCHANGED <<active, astray, requestOf, source, looked, loop>>
  BY DEF context
<1>2. PICK t \in Tasks : t = source[r] /\ Busy(r)
  BY BusyHasTask DEF Busy
<1>3. record[r] # "received" /\ ~Announcing(r)
  BY DEF IInv, Received, Announcing, LoopsSane, Sane
<1>4. work'[r] = w /\ \A q \in Requests \ {r} : work'[q] = work[q]
  BY DEF IInv, TypeOK
<1>5. record'[r] # "received" /\ \A q \in Requests \ {r} : record'[q] = record[q]
  BY <1>3 DEF IInv, TypeOK
<1>6. /\ \A q \in Requests : Busy(q)' => Busy(q)
      /\ \A q \in Requests \ {r} : Busy(q)' <=> Busy(q)
      /\ ~Busy(r)' => w \in {"cascade", "over"}
  BY <1>2, <1>4, <1>5 DEF Busy
<1>7. \A x \in Tasks \ {t} : status'[x] = status[x]
  BY <1>2 DEF IInv, TypeOK
<1>8. t \notin astray => status[t] \in InFlight /\ requestOf[t] = r /\ r # None
  BY <1>2, <1>3, BusyIsTaken, DispatchAssumption DEF RowInv, Named, DispatchAssumption
<1>9. \A x : /\ Announcing(x)' <=> Announcing(x)
             /\ Stamping(x)' <=> Stamping(x)
             /\ BeingStamped(x)' <=> BeingStamped(x)
             /\ Marking(x)' <=> Marking(x)
  BY <1>1 DEF Announcing, Stamping, BeingStamped, Marking
<1>10. \A x \in Tasks : Standing(x) => Standing(x)'
  <2>1. \A x \in Tasks : status[x] = "deployed" /\ x \notin astray' => status'[x] = "deployed"
    BY <1>1, <1>7, <1>8 DEF InFlight
  <2> QED
    BY <1>1, <2>1, DispatchAssumption, StandingStays
<1>11. Kept' /\ Owned'
  BY <1>1, <1>7, <1>8, <1>9 DEF RowInv, Kept, Owned, Claimed
<1>12. Built'
  <2>1. \A x \in Requests : Busy(x)' => Busy(x) /\ source[x] \in Tasks
    BY <1>6, BusyHasTask
  <2> QED
    BY <1>1, <1>10, <2>1 DEF RowInv, Built, Standing
<1>13. Named'
  BY <1>1, <1>6, <1>9 DEF RowInv, Named
<1>14. Untouched'
  BY <1>1, <1>2, <1>6, <1>7, <1>8, <1>9 DEF RowInv, Untouched
<1>15. Settled'
  <2> SUFFICES ASSUME NEW x \in Tasks, x \notin astray, requestOf[x] # None, ~Marking(x),
                      \A q \in Requests : source[q] = x => ~Busy(q)'
               PROVE  status'[x] = Outcome(record'[requestOf[x]])
    BY <1>1, <1>9 DEF Settled
  <2>1. CASE x = t
    BY <1>2, <1>6, <1>8, <2>1
  <2>2. CASE x # t
    <3>1. requestOf[x] \in Requests /\ requestOf[x] # r
      BY <1>2, <2>2 DEF RowInv, Owned, IInv, TypeOK
    <3>2. status[x] = Outcome(record[requestOf[x]])
      BY <1>2, <1>6, <2>2 DEF RowInv, Settled
    <3> QED
      BY <1>5, <1>7, <2>2, <3>1, <3>2
  <2> QED
    BY <2>1, <2>2
<1>16. Recorded'
  BY <1>1, <1>4, <1>5, <1>9 DEF RowInv, Recorded
<1>17. ASSUME NEW e \in Loops PROVE (Steady(loop[e]) /\ Open(loop[e]) /\ Ready(loop[e]))'
  <2> DEFINE h == loop[e]
  <2>1. Sane(e, h) /\ Free(h) /\ Steady(h) /\ Open(h) /\ Ready(h) /\ h \in LoopState
    BY DEF IInv, TypeOK, LoopsSane, ToDoFree, RowInv, LoopsReady
  <2>2. (h.at = "stamp" => h.req # r) /\ (h.at = "announce" => h.req # r)
    BY <1>3 DEF Stamping, Announcing
  <2> HIDE DEF h
  <2>3. Steady(h)'
    <3>1. h' = h
      BY <1>1 DEF h
    <3>2. h.at = "stamp" => h.req \in Requests
      BY <2>1 DEF Sane
    <3> QED
      BY <1>1, <1>4, <2>1, <2>2, <3>1, <3>2 DEF Steady
  <2>4. h.at \in {"check", "next", "announce", "stamp"} /\ h.op # "proposal" => t \notin h.todo \ astray
    <3>1. h.at \in {"check", "next", "announce", "stamp"} => h.req # r
      BY <2>1, <2>2, DispatchAssumption DEF Sane, DispatchAssumption
    <3> QED
      BY <1>2, <2>1, <3>1 DEF Free
  <2>5. h.at = "announce" /\ t \notin astray => h.task # t
    BY <1>8, <2>1 DEF Open, Claimed
  <2>6. h.at = "stamp" /\ t \notin astray => h.task # t
    <3> SUFFICES ASSUME h.at = "stamp", t \notin astray, h.task = t PROVE FALSE
      OBVIOUS
    <3>1. h.req \in Requests /\ source[h.req] = t /\ Busy(h.req)
      BY <2>1 DEF Sane, Steady, Busy
    <3> QED
      BY <1>2, <2>2, <3>1 DEF IInv, OneBusy
  <2>7. Open(h)'
    <3>1. h' = h /\ h.todo \subseteq Tasks
      BY <1>1, <2>1 DEF h, LoopState
    <3>2. h.at \in {"announce", "stamp"} => h.task \in Tasks
      BY <2>1 DEF Sane
    <3> QED
      BY <1>1, <1>7, <2>1, <2>4, <2>5, <2>6, <3>1, <3>2 DEF Open, Claimed
  <2>8. Ready(h)'
    <3>1. h' = h /\ h.todo \subseteq Tasks
      BY <1>1, <2>1 DEF h, LoopState
    <3> QED
      BY <1>10, <2>1, <3>1 DEF Ready
  <2> QED
    BY <2>3, <2>7, <2>8 DEF h
<1> QED
  BY <1>11, <1>12, <1>13, <1>14, <1>15, <1>16, <1>17 DEF RowInv, LoopsReady

LEMMA CoroutineMoves ==
  ASSUME IInv, RowInv, NEW r \in Requests, Begin(r) \/ End(r) \/ Tell(r) \/ CancelRequest(r)
  PROVE  RowInv'
<1> USE DEF TaskStatus, InFlight
<1>1. ~Stamping(r)
  BY DEF Stamping, RowInv, LoopsReady, Steady, Begin, End, Tell, CancelRequest, Answered
<1>2. CASE Begin(r)
  BY <1>1, <1>2, WorkMoves DEF Begin
<1>3. CASE End(r)
  <2>1. PICK outcome \in {"completed", "failed"} :
          work' = [work EXCEPT ![r] = outcome] /\ record' = [record EXCEPT ![r] = outcome]
    BY <1>3 DEF End
  <2>2. record'[r] = outcome
    BY <2>1 DEF IInv, TypeOK
  <2> QED
    BY <1>1, <1>3, <2>1, <2>2, WorkMoves DEF End, board
<1>4. CASE Tell(r)
  <2>1. source[r] \in Tasks
    BY <1>4, BusyHasTask DEF Tell, Busy
  <2>2. source[r] \notin astray /\ ~Marking(source[r]) => record[r] = work[r]
    BY <1>4 DEF RowInv, Recorded, Tell
  <2>3. UNCHANGED record /\ (source[r] \notin astray /\ ~Marking(source[r]) => status'[source[r]] = Outcome(record'[r]))
    BY <1>4, <2>1, <2>2 DEF Tell, ledger, Outcome, IInv, TypeOK
  <2> QED
    BY <1>1, <1>4, <2>2, <2>3, WorkMoves DEF Tell, ledger
<1>5. CASE CancelRequest(r)
  <2>1. source[r] \in Tasks
    BY <1>5, BusyHasTask DEF CancelRequest, Busy
  <2>2. record'[r] = "cancelled" /\ status'[source[r]] = Outcome("cancelled")
    BY <1>5, <2>1 DEF CancelRequest, Outcome, IInv, TypeOK
  <2> QED
    BY <1>1, <1>5, <2>2, WorkMoves DEF CancelRequest
<1> QED
  BY <1>2, <1>3, <1>4, <1>5

LEMMA RowInit == Init => RowInv
<1> SUFFICES ASSUME Init PROVE RowInv
  OBVIOUS
<1>1. \A d \in Loops : loop[d] = NoLoop
  BY DEF Init
<1>2. \A r \in Requests : ~Busy(r) /\ source[r] = None /\ record[r] = "absent" /\ work[r] = "off"
  BY DEF Init, Busy
<1>3. LoopsReady
  BY <1>1, NoLoopTyped DEF LoopsReady, Steady, Open, Ready
<1>4. Kept /\ Built /\ Named /\ Owned /\ Settled /\ Recorded
  BY <1>2 DEF Init, Kept, Claimed, InFlight, Built, Named, Owned, Settled, Recorded
<1>5. Untouched
  BY <1>2, DispatchAssumption DEF Init, Untouched, DispatchAssumption
<1> QED
  BY <1>3, <1>4, <1>5 DEF RowInv

LEMMA RowNext == OneAtATime /\ IInv /\ RowInv /\ [Next]_vars => RowInv'
<1> SUFFICES ASSUME OneAtATime, IInv, RowInv, [Next]_vars PROVE RowInv'
  OBVIOUS
<1> DEFINE Same == UNCHANGED <<status, requestOf, source, looked, record, work, loop, astray>>
<1>1. CASE Same
  <2>1. LoopsReady'
    BY <1>1 DEF RowInv, LoopsReady, Steady, Open, Ready, Standing, Claimed
  <2>2. Kept' /\ Owned' /\ Recorded'
    BY <1>1 DEF RowInv, Kept, Claimed, BeingStamped, Owned, Recorded, Marking
  <2>3. Built' /\ Named'
    BY <1>1 DEF RowInv, Built, Standing, Named, Busy, Announcing, Stamping
  <2>4. Untouched' /\ Settled'
    BY <1>1 DEF RowInv, Untouched, Settled, Busy, BeingStamped, Marking
  <2> QED
    BY <2>1, <2>2, <2>3, <2>4 DEF RowInv
<1>2. CASE Archive \/ UNCHANGED vars
  BY <1>1, <1>2 DEF Archive, vars, board, ledger, context
<1>3. ASSUME NEW c \in Calls, Call(c) PROVE RowInv'
  BY <1>3, CallMoves
<1>4. ASSUME NEW d \in Loops, Loop(d) PROVE RowInv'
  BY <1>4, GoOnMoves, CreateMoves, AnnounceMoves, StampMoves, CancelMoves DEF Loop
<1>5. ASSUME NEW r \in Requests, Cascade(r) PROVE RowInv'
  BY <1>5, CascadeMoves
<1>6. ASSUME NEW r \in Requests, Filter(r) \/ Skip(r) PROVE RowInv'
  BY <1>6, FilterMoves, SkipMoves
<1>7. ASSUME NEW r \in Requests, Begin(r) \/ End(r) \/ Tell(r) \/ CancelRequest(r) PROVE RowInv'
  BY <1>7, CoroutineMoves
<1> QED
  BY <1>2, <1>3, <1>4, <1>5, <1>6, <1>7 DEF Next

\* No workflow is launched or runs before the code it builds on is deployed
\* (_split_dispatchable, unmet_dependencies), when dispatch loops do not
\* overlap: a deployed task is never dispatched again, except by a stale
\* proposal, so a dependency found deployed stays so.
THEOREM DependenciesFirstHolds == ASSUME OneAtATime PROVE Spec => []DependenciesFirst
<1>1. Init => IInv /\ RowInv
  BY InvInit, RowInit
<1>2. (IInv /\ RowInv) /\ [Next]_vars => (IInv /\ RowInv)'
  BY InvNext, RowNext
<1>3. IInv /\ RowInv => DependenciesFirst
  BY DEF RowInv, Built, Standing, Busy, DependenciesFirst, Pending
<1> QED
  BY <1>1, <1>2, <1>3, PTL DEF Spec

\* Once nothing is at work for a task, its row names the last request made for
\* it and shows how that one ended (_handle_build_status_event), when dispatch
\* loops do not overlap.
THEOREM TaskFollowsRequestHolds == ASSUME OneAtATime PROVE Spec => []TaskFollowsRequest
<1>1. Init => IInv /\ RowInv
  BY InvInit, RowInit
<1>2. (IInv /\ RowInv) /\ [Next]_vars => (IInv /\ RowInv)'
  BY InvNext, RowNext
<1>3. IInv /\ RowInv => TaskFollowsRequest
  <2> SUFFICES ASSUME IInv, RowInv, NEW t \in Tasks, t \notin astray,
                      \A r \in Requests : source[r] = t => ~AtWork(r) /\ record[r] # "received",
                      \A d \in Loops : loop[d].task # t
               PROVE  IF requestOf[t] = None
                      THEN status[t] = "backlog" /\ \A r \in Requests : source[r] # t
                      ELSE source[requestOf[t]] = t /\ status[t] = Outcome(record[requestOf[t]])
    BY Zenon DEF TaskFollowsRequest, Outcome
  <2>1. \A r \in Requests : source[r] = t => ~Busy(r)
    BY DEF AtWork, Busy
  <2>2. ~BeingStamped(t) /\ ~Marking(t)
    BY DEF BeingStamped, Marking
  <2>3. CASE requestOf[t] = None
    BY <2>1, <2>2, <2>3 DEF RowInv, Untouched
  <2>4. CASE requestOf[t] # None
    BY <2>1, <2>2, <2>4 DEF RowInv, Settled, Owned
  <2> QED
    BY <2>3, <2>4
<1> QED
  BY <1>1, <1>2, <1>3, PTL DEF Spec

================================================================================
