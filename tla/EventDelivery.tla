----------------------------- MODULE EventDelivery -----------------------------
(***************************************************************************)
(* How an event leaves the place that emits it. An emit puts the event on  *)
(* the queue of every dashboard client of its process, and then runs the   *)
(* server-side handlers one after the other; the push bridge is the last,  *)
(* and only puts the event in a bounded buffer. One worker takes payloads  *)
(* from it and posts them to the webhook with a bounded number of tries.   *)
(* Emits of different tasks interleave at every handler, and the task an   *)
(* emit runs in may be cancelled there.                                    *)
(* Abstraction: only forwarded events are emitted; the handlers before the *)
(* bridge are steps that take time.                                        *)
(***************************************************************************)
EXTENDS Naturals, Sequences, SequencesExt

CONSTANTS Clients, Handlers, MaxEvents, MaxBuffer, MaxRetries, Null

VARIABLES
  emits,   \* the emits, in order: the handlers that are still to run
  inbox,   \* the queue of each connected client, Null before it connects
  buffer,  \* the bridge's queue
  worker,  \* the payload being posted, and the tries made
  sent,    \* what the webhook has accepted
  dropped, \* events dropped: buffer full, or tries exhausted
  lost,    \* events nobody counts: emit cancelled, or bridge stopped
  up       \* the bridge runs
eventVars == <<emits, inbox, buffer, worker, sent, dropped, lost, up>>

Events == 1..MaxEvents
Payload == [event: Events, attempt: 0..MaxRetries]
TypeOK ==
  /\ emits \in Seq(0..(Handlers + 1)) /\ Len(emits) <= MaxEvents
  /\ inbox \in [Clients -> Seq(Events) \cup {Null}]
  /\ buffer \in Seq(Events) /\ Len(buffer) <= MaxBuffer
  /\ sent \cup dropped \cup lost \subseteq Events
  /\ worker \in Payload \cup {Null} /\ up \in BOOLEAN

Init ==
  /\ emits = <<>> /\ inbox = [c \in Clients |-> Null] /\ buffer = <<>> /\ worker = Null
  /\ sent = {} /\ dropped = {} /\ lost = {} /\ up = TRUE

(***************************************************************************)
(* Emitter                                                                 *)
(***************************************************************************)
\* The clients' queues have no bound, so nothing suspends between them.
Emit ==
  /\ Len(emits) < MaxEvents /\ emits' = Append(emits, Handlers + 1)
  /\ inbox' = [c \in Clients |-> IF inbox[c] = Null THEN Null ELSE Append(inbox[c], Len(emits) + 1)]
  /\ UNCHANGED <<buffer, worker, sent, dropped, lost, up>>

\* A handler ran, or raised and was swallowed. The last one is the bridge's:
\* put_nowait, or drop.
Handle(k) ==
  /\ emits[k] > 0 /\ emits' = [emits EXCEPT ![k] = @ - 1]
  /\ IF emits[k] > 1 THEN UNCHANGED <<buffer, dropped>>
     ELSE IF Len(buffer) < MaxBuffer THEN buffer' = Append(buffer, k) /\ UNCHANGED dropped
     ELSE dropped' = dropped \cup {k} /\ UNCHANGED buffer
  /\ UNCHANGED <<inbox, worker, sent, lost, up>>

\* A cancellation is not an Exception: the handlers that are left never run.
Cancelled(k) ==
  /\ emits[k] > 0 /\ emits' = [emits EXCEPT ![k] = 0] /\ lost' = lost \cup {k}
  /\ UNCHANGED <<inbox, buffer, worker, sent, dropped, up>>

(***************************************************************************)
(* Dashboard clients                                                       *)
(***************************************************************************)
Connect(c) ==
  /\ inbox[c] = Null /\ inbox' = [inbox EXCEPT ![c] = <<>>]
  /\ UNCHANGED <<emits, buffer, worker, sent, dropped, lost, up>>
Receive(c) ==
  /\ inbox[c] # Null /\ inbox[c] # <<>> /\ inbox' = [inbox EXCEPT ![c] = Tail(@)]
  /\ UNCHANGED <<emits, buffer, worker, sent, dropped, lost, up>>
\* The handler notices that a client is gone when it sends.
Disconnect(c) ==
  /\ inbox[c] # Null /\ inbox[c] # <<>> /\ inbox' = [inbox EXCEPT ![c] = Null]
  /\ UNCHANGED <<emits, buffer, worker, sent, dropped, lost, up>>

(***************************************************************************)
(* Push bridge                                                             *)
(***************************************************************************)
Take ==
  /\ up /\ worker = Null /\ buffer # <<>>
  /\ worker' = [event |-> Head(buffer), attempt |-> 0] /\ buffer' = Tail(buffer)
  /\ UNCHANGED <<emits, inbox, sent, dropped, lost, up>>

Accepted ==
  /\ up /\ worker # Null /\ sent' = sent \cup {worker.event} /\ worker' = Null
  /\ UNCHANGED <<emits, inbox, buffer, dropped, lost, up>>

\* Status 400 or more, an error, or a timeout, after which the webhook may have
\* the payload all the same. After the last try the worker goes on to the next
\* payload; a mutant starts over.
StartsOver == [worker EXCEPT !.attempt = 0]
AfterLast == Null
Refused(got) ==
  /\ up /\ worker # Null
  /\ sent' = IF got THEN sent \cup {worker.event} ELSE sent
  /\ IF worker.attempt < MaxRetries
     THEN worker' = [worker EXCEPT !.attempt = @ + 1] /\ UNCHANGED dropped
     ELSE worker' = AfterLast /\ dropped' = dropped \cup {worker.event}
  /\ UNCHANGED <<emits, inbox, buffer, lost, up>>
Posts == Accepted \/ \E got \in BOOLEAN : Refused(got)

\* Shutdown cancels the worker; the buffer is memory.
Stop ==
  /\ up /\ up' = FALSE /\ buffer' = <<>> /\ worker' = Null
  /\ lost' = lost \cup ToSet(buffer) \cup (IF worker = Null THEN {} ELSE {worker.event})
  /\ emits' = [k \in DOMAIN emits |-> 0] /\ UNCHANGED <<inbox, sent, dropped>>

Next ==
  \/ up /\ Emit
  \/ \E k \in DOMAIN emits : Handle(k) \/ Cancelled(k)
  \/ \E c \in Clients : Connect(c) \/ Receive(c) \/ Disconnect(c)
  \/ Take \/ Posts \/ Stop
\* The worker is a task of the event loop; every post ends, by its timeout at
\* the latest.
Fairness == WF_eventVars(Take) /\ WF_eventVars(Posts)
EventSpec == Init /\ [][Next]_eventVars /\ Fairness

(***************************************************************************)
(* Property                                                                *)
(***************************************************************************)
\* A webhook that is dead, slow or failing never blocks the events behind it:
\* each payload that entered the buffer is delivered, or dropped after its
\* tries, or lost with the process.
EveryPayloadHasAFate ==
  \A k \in Events : k \in ToSet(buffer) ~> k \in sent \cup dropped \cup lost
==============================================================================
