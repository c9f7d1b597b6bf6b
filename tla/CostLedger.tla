------------------------------- MODULE CostLedger ------------------------------
(***************************************************************************)
(* Where the money went. Every answer of a model that reaches its caller   *)
(* leaves one usage row: a workflow's carries the request, and the project *)
(* is looked up from it in a step of its own; a single call carries the    *)
(* project its caller passed, or none. The dashboard adds rows up by       *)
(* project; deleting a request deletes its rows; an admin may purge the    *)
(* rows that belong to nothing; every start fills in projects it can find. *)
(* With two worker processes a request may be deleted while another        *)
(* process still runs it. No budget is checked anywhere: BudgetEnforcer is *)
(* never made.                                                             *)
(* Abstraction: an answer costs 1, or 0 when its model has no price.       *)
(***************************************************************************)
EXTENDS Naturals, FiniteSets

CONSTANTS Requests, Projects, ProjectOf, Models, Priced, MaxCalls, Null

VARIABLES
  requests, \* the request rows
  call,     \* the calls, in order
  usage,    \* token_usage
  gone,     \* history: requests deleted
  recorded  \* history: calls whose row was inserted
ledgerVars == <<requests, call, usage, gone, recorded>>

Calls == 1..MaxCalls
\* A call is made for a project (of), which its row need not have been given.
Call == [request : Requests \cup {Null}, project : Projects \cup {Null}, of : Projects \cup {Null}, model : Models,
         step : {"asked", "derived", "done"}]
Row == [call : Calls, request : Requests \cup {Null}, project : Projects \cup {Null}, cost : 0..1]

TypeOK ==
  /\ requests \subseteq Requests /\ gone \subseteq Requests /\ usage \subseteq Row
  /\ call \in [Calls -> Call \cup {Null}] /\ recorded \subseteq Calls

Init ==
  /\ requests = {} /\ call = [k \in Calls |-> Null] /\ usage = {} /\ gone = {} /\ recorded = {}

Submit(r) ==
  /\ r \notin requests \cup gone /\ requests' = requests \cup {r}
  /\ UNCHANGED <<call, usage, gone, recorded>>

(***************************************************************************)
(* Calls of a model                                                        *)
(***************************************************************************)
Free == {k \in Calls : call[k] = Null}
Asks(c) ==
  /\ Free # {} /\ call' = [call EXCEPT ![CHOOSE k \in Free : \A j \in Free : k <= j] = c]
  /\ UNCHANGED <<requests, usage, gone, recorded>>
AgentCall(r, m) ==
  r \in requests /\ Asks([request |-> r, project |-> Null, of |-> ProjectOf[r], model |-> m, step |-> "asked"])
\* single_agent_call: the generators of a project's documents pass the project.
SingleCall(p, m) == Asks([request |-> Null, project |-> p, of |-> p, model |-> m, step |-> "asked"])

\* A review of the council belongs to no project, as the analysis of a failure.
Review(m) == SingleCall(Null, m)

\* A call that fails leaves no row, whatever its turns had used.
Fails(k) ==
  /\ call[k] # Null /\ call[k].step = "asked" /\ call' = [call EXCEPT ![k].step = "done"]
  /\ UNCHANGED <<requests, usage, gone, recorded>>

\* record_token_usage: the project, then the row.
Derived(k) ==
  IF call[k].project = Null /\ call[k].request \in requests THEN ProjectOf[call[k].request] ELSE call[k].project
Answer(k) ==
  /\ call[k] # Null /\ call[k].step = "asked"
  /\ call' = [call EXCEPT ![k].step = "derived", ![k].project = Derived(k)]
  /\ UNCHANGED <<requests, usage, gone, recorded>>
\* Mutant: an unknown model has no cost at all.
CostOrNone(model) == IF model \in Priced THEN 1 ELSE Null
\* An unknown model costs nothing.
Cost(model) == IF model \in Priced THEN 1 ELSE 0
Insert(k) ==
  /\ call[k] # Null /\ call[k].step = "derived" /\ call' = [call EXCEPT ![k].step = "done"]
  /\ usage' = usage \cup {[call |-> k, request |-> call[k].request, project |-> call[k].project, cost |-> Cost(call[k].model)]}
  /\ recorded' = recorded \cup {k}
  /\ UNCHANGED <<requests, gone>>

(***************************************************************************)
(* Deletions                                                               *)
(***************************************************************************)
DeleteRequest(r) ==
  /\ r \in requests /\ requests' = requests \ {r} /\ gone' = gone \cup {r}
  /\ usage' = {u \in usage : u.request # r}
  /\ UNCHANGED <<call, recorded>>

\* A row without a request, an artifact and a project; before rows carried the
\* project, a row without the first two.
OrphanBefore(u) == u.request = Null
Orphan(u) == u.request = Null /\ u.project = Null
DeleteOrphans ==
  /\ \E u \in usage : Orphan(u)
  /\ usage' = {u \in usage : ~Orphan(u)}
  /\ UNCHANGED <<requests, call, gone, recorded>>

\* The migration runs at every start; calls in flight die with the process.
Restart ==
  /\ usage' = {IF u.project = Null /\ u.request \in requests THEN [u EXCEPT !.project = ProjectOf[u.request]] ELSE u : u \in usage}
  /\ call' = [k \in Calls |-> IF call[k] = Null THEN Null ELSE [call[k] EXCEPT !.step = "done"]]
  /\ UNCHANGED <<requests, gone, recorded>>

Next ==
  \/ \E r \in Requests : Submit(r) \/ DeleteRequest(r) \/ \E m \in Models : AgentCall(r, m)
  \/ \E m \in Models : Review(m) \/ \E p \in Projects : SingleCall(p, m)
  \/ \E k \in Calls : Fails(k) \/ Answer(k) \/ Insert(k)
  \/ DeleteOrphans \/ Restart
LedgerSpec == Init /\ [][Next]_ledgerVars

(***************************************************************************)
(* Property                                                                *)
(***************************************************************************)
\* The dashboard's filter.
RowsOf(p) == {u \in usage : u.project = p}

\* What was spent for a project stays on its account: the row of every call
\* made for the project is counted there until its request is deleted, whatever
\* is purged and whenever the process starts again.
SpendIsKept ==
  \A k \in recorded :
    call[k].of # Null /\ call[k].request \notin gone => \E u \in RowsOf(call[k].of) : u.call = k
==============================================================================
