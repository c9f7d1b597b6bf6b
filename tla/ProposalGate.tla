---------------------------- MODULE ProposalGate ----------------------------
(***************************************************************************)
(* The approval gate.  A state change that an outside operator (or one of  *)
(* the platform's own loops) asks for becomes a row of the proposals table *)
(* in status "pending"; a person, the holder of the row's one-time token   *)
(* or the operator's auto-approve policy decides it; a confirmed proposal  *)
(* is run once by its action handler and settled as executed or failed.    *)
(*                                                                         *)
(* The table is shared by the worker processes of the backend (one in the  *)
(* development image, two in the production image).  Every await of the    *)
(* coroutines is a point where another request, the expiry sweeper or      *)
(* another worker may run, so a handler that reads a row and later writes  *)
(* it is two or more actions here.  One SQL statement is one action.       *)
(*                                                                         *)
(* A request slot of a worker holds one HTTP request, one in-process       *)
(* caller, or the background task that outlives the request it came from.  *)
(***************************************************************************)
EXTENDS Naturals, FiniteSets

CONSTANTS
  Proposals,        \* proposal ids that may be generated
  Keys,             \* idempotency keys clients use
  Actions,          \* action types that occur
  RequireApproval,  \* PROPOSAL_REQUIRE_APPROVAL: the types a human must decide
  Registered,       \* the types that have a handler
  TargetChecked,    \* the types whose target project is looked up on confirm
  Workers,          \* backend processes that share the database
  Slots,            \* concurrent requests and tasks per worker
  MaxCrashes,       \* bound on the number of worker crashes
  None              \* null

\* decided_by: a JWT user, the channel token, the standing policy.
Deciders == {"human", "token", "policy"}
\* Who creates a proposal: the HTTP route or an in-process loop.
Creators == {"route", "loop"}

ASSUME GateAssumption ==
  /\ None \notin Proposals \cup Keys \cup Actions \cup Deciders
  /\ RequireApproval \subseteq Actions
  /\ MaxCrashes \in Nat

VARIABLES
  status,     \* status column, "absent" before the row is inserted
  action,     \* action_type column
  key,        \* idempotency_key column
  decider,    \* decided_by column
  tokenUsed,  \* approval_token_used column
  effects,    \* history: how often a handler applied the proposal's action
  up,         \* state of each worker: "down", "starting" or "up"
  stranded,   \* what a starting worker still has to reconcile
  overdue,    \* what a worker's expiry sweep still has to expire
  req,        \* the requests and tasks in flight
  crashes     \* crashes so far

rows == <<status, action, key, decider, tokenUsed>>
procs == <<up, stranded, overdue>>
vars == <<status, action, key, decider, tokenUsed, effects,
          up, stranded, overdue, req, crashes>>

Terminal == {"rejected", "expired", "executed", "failed"}
Status == {"absent", "pending", "confirmed"} \cup Terminal

PC == {"idle", "lookup", "insert", "token", "load", "validate", "cas",
       "execute", "run", "applied", "record"}

Requests == [pc : PC, prop : Proposals \cup {None}, by : Deciders \cup Creators \cup {None},
             goal : {"confirmed", "rejected", "executed", "failed", None},
             act : Actions \cup {None}, key : Keys \cup {None}]

Idle == [pc |-> "idle", prop |-> None, by |-> None, goal |-> None,
         act |-> None, key |-> None]

TypeOK ==
  /\ status \in [Proposals -> Status]
  /\ action \in [Proposals -> Actions \cup {None}]
  /\ key \in [Proposals -> Keys \cup {None}]
  /\ decider \in [Proposals -> Deciders \cup {None}]
  /\ tokenUsed \in [Proposals -> BOOLEAN]
  /\ effects \in [Proposals -> Nat]
  /\ up \in [Workers -> {"down", "starting", "up"}]
  /\ stranded \in [Workers -> SUBSET Proposals]
  /\ overdue \in [Workers -> SUBSET Proposals]
  /\ req \in [Workers -> [Slots -> Requests]]
  /\ crashes \in 0..MaxCrashes

Init ==
  /\ status = [p \in Proposals |-> "absent"]
  /\ action = [p \in Proposals |-> None]
  /\ key = [p \in Proposals |-> None]
  /\ decider = [p \in Proposals |-> None]
  /\ tokenUsed = [p \in Proposals |-> FALSE]
  /\ effects = [p \in Proposals |-> 0]
  /\ up = [w \in Workers |-> "down"]
  /\ stranded = [w \in Workers |-> {}]
  /\ overdue = [w \in Workers |-> {}]
  /\ req = [w \in Workers |-> [s \in Slots |-> Idle]]
  /\ crashes = 0

(***************************************************************************)
(* Steps of a request.  Goto moves it to another await point, Finish       *)
(* returns its response.                                                   *)
(***************************************************************************)
At(w, s, pc) == req[w][s].pc = pc
Goto(w, s, pc) == req' = [req EXCEPT ![w][s].pc = pc]
Aim(w, s, pc, g) == req' = [req EXCEPT ![w][s].pc = pc, ![w][s].goal = g]
Finish(w, s) == req' = [req EXCEPT ![w][s] = Idle]
Begin(w, s, r) ==
  /\ up[w] = "up"
  /\ At(w, s, "idle")
  /\ req' = [req EXCEPT ![w][s] = r]
  /\ UNCHANGED <<rows, effects, procs, crashes>>

KeyTaken(k) == k # None /\ \E q \in Proposals : status[q] # "absent" /\ key[q] = k

\* Bound: a creation is begun only while an id is left for it.
IdLeft ==
  Cardinality({u \in Workers \X Slots : req[u[1]][u[2]].pc \in {"lookup", "insert"}})
    < Cardinality({p \in Proposals : status[p] = "absent"})

\* create_proposal (the route) and submit_gated_action (the platform's loops)
Create(w, s, by, a, k) ==
  /\ IdLeft
  /\ Begin(w, s, [Idle EXCEPT !.pc = "lookup", !.by = by, !.act = a, !.key = k])

\* The row that already has the key is the answer: nothing is created.
Lookup(w, s) ==
  /\ At(w, s, "lookup")
  /\ IF KeyTaken(req[w][s].key) THEN Finish(w, s) ELSE Goto(w, s, "insert")
  /\ UNCHANGED <<rows, effects, procs, crashes>>

\* The key was taken between the look-up and the INSERT: the UNIQUE
\* constraint refuses the row and the request ends with an error.
InsertConflict(w, s) ==
  /\ At(w, s, "insert")
  /\ KeyTaken(req[w][s].key)
  /\ Finish(w, s)
  /\ UNCHANGED <<rows, effects, procs, crashes>>

\* Mutant: the operator's list is ignored.
RequiresNobody(a) == FALSE

\* requires_human_approval
RequiresHuman(a) == a \in RequireApproval

\* Mutant: the column has no UNIQUE constraint.
AcceptsAnyKey(k) == TRUE

AcceptsKey(k) == ~KeyTaken(k)

\* The row is written; the route goes on to confirm it under the policy when
\* the action type is not on the operator's list, the loops never do.
Insert(w, s, p) ==
  LET r == req[w][s] IN
  /\ At(w, s, "insert")
  /\ AcceptsKey(r.key)
  /\ status[p] = "absent"
  /\ status' = [status EXCEPT ![p] = "pending"]
  /\ action' = [action EXCEPT ![p] = r.act]
  /\ key' = [key EXCEPT ![p] = r.key]
  /\ IF r.by = "route" /\ ~RequiresHuman(r.act)
     THEN req' = [req EXCEPT ![w][s] = [Idle EXCEPT !.pc = "load", !.prop = p,
                                        !.by = "policy", !.goal = "confirmed"]]
     ELSE Finish(w, s)
  /\ UNCHANGED <<decider, tokenUsed, effects, procs, crashes>>

\* POST /{id}/confirm and /{id}/reject with a user's JWT
Decide(w, s, p, g) ==
  /\ status[p] # "absent"
  /\ Begin(w, s, [Idle EXCEPT !.pc = "load", !.prop = p, !.by = "human", !.goal = g])

\* POST /{id}/approve with the one-time token of the proposal.created event
Approve(w, s, p, g) ==
  /\ status[p] # "absent"
  /\ Begin(w, s, [Idle EXCEPT !.pc = "token", !.prop = p, !.by = "token", !.goal = g])

\* The token is spent before anything is known about the proposal's status.
SpendToken(w, s) ==
  LET p == req[w][s].prop IN
  /\ At(w, s, "token")
  /\ tokenUsed' = [tokenUsed EXCEPT ![p] = TRUE]
  /\ IF tokenUsed[p] THEN Finish(w, s) ELSE Goto(w, s, "load")
  /\ UNCHANGED <<status, action, key, decider, effects, procs, crashes>>

\* _load_pending_or_409
Load(w, s) ==
  LET r == req[w][s] IN
  /\ At(w, s, "load")
  /\ IF status[r.prop] # "pending" THEN Finish(w, s)
     ELSE Goto(w, s, IF r.goal = "confirmed" THEN "validate" ELSE "cas")
  /\ UNCHANGED <<rows, effects, procs, crashes>>

\* Mutant: a status the enumeration does not have.
ValidateInvalid(w, s) ==
  /\ At(w, s, "validate")
  /\ Aim(w, s, "cas", "invalid")
  /\ UNCHANGED <<rows, effects, procs, crashes>>

\* validate_proposal_target: the target of a project action may have gone;
\* an invalid one turns the confirmation into a failure.  A look-up error
\* counts as valid.
Validate(w, s) ==
  LET r == req[w][s] IN
  /\ At(w, s, "validate")
  /\ \/ Goto(w, s, "cas")
     \/ /\ action[r.prop] \in TargetChecked
        /\ Aim(w, s, "cas", "failed")
  /\ UNCHANGED <<rows, effects, procs, crashes>>

\* Mutant: the UPDATE without its status condition.
TransitionAlways(p, expected, new) == status' = [status EXCEPT ![p] = new]

\* transition_proposal: UPDATE ... WHERE proposal_id = ? AND status = ?
Transition(p, expected, new) ==
  status' = IF status[p] = expected THEN [status EXCEPT ![p] = new] ELSE status

\* Mutant: the result of the compare-and-set is not looked at.
WonAlways(p) == TRUE

\* cur.rowcount > 0
Won(p) == status[p] = "pending"

\* The decision itself.  A confirmer goes on to execute, in its own request
\* or (under the policy) in a background task.
Cas(w, s) ==
  LET r == req[w][s] IN
  /\ At(w, s, "cas")
  /\ Transition(r.prop, "pending", r.goal)
  /\ IF Won(r.prop)
     THEN /\ decider' = [decider EXCEPT ![r.prop] = r.by]
          /\ IF r.goal = "confirmed" THEN Goto(w, s, "execute") ELSE Finish(w, s)
     ELSE /\ UNCHANGED decider
          /\ Finish(w, s)
  /\ UNCHANGED <<action, key, tokenUsed, effects, procs, crashes>>

\* _execute_confirmed re-reads the row; run_confirmed_proposal looks for a handler.
Execute(w, s) ==
  LET r == req[w][s] IN
  /\ At(w, s, "execute")
  /\ IF status[r.prop] # "confirmed" THEN Finish(w, s)
     ELSE IF action[r.prop] \in Registered THEN Goto(w, s, "run")
     ELSE Aim(w, s, "record", "failed")
  /\ UNCHANGED <<rows, effects, procs, crashes>>

\* The handler applies the action, or raises before it has done anything.
HandlerApply(w, s) ==
  LET r == req[w][s] IN
  /\ At(w, s, "run")
  /\ effects' = [effects EXCEPT ![r.prop] = @ + 1]
  /\ Goto(w, s, "applied")
  /\ UNCHANGED <<rows, procs, crashes>>

HandlerRaise(w, s) ==
  /\ At(w, s, "run")
  /\ Aim(w, s, "record", "failed")
  /\ UNCHANGED <<rows, effects, procs, crashes>>

\* Mutant: a handler that raised is run again.
HandlerRetry(w, s, g) ==
  /\ At(w, s, "applied")
  /\ IF g = "failed" THEN Goto(w, s, "run")
     ELSE Aim(w, s, "record", g)
  /\ UNCHANGED <<rows, effects, procs, crashes>>

\* What follows the effect may still raise: the proposal is then failed.
HandlerReturn(w, s, g) ==
  /\ At(w, s, "applied")
  /\ Aim(w, s, "record", g)
  /\ UNCHANGED <<rows, effects, procs, crashes>>

\* update_proposal is unconditional: it does not look at the status it replaces.
Record(w, s) ==
  LET r == req[w][s] IN
  /\ At(w, s, "record")
  /\ status' = [status EXCEPT ![r.prop] = r.goal]
  /\ Finish(w, s)
  /\ UNCHANGED <<action, key, decider, tokenUsed, effects, procs, crashes>>

(***************************************************************************)
(* The expiry sweeper of each worker: one SELECT of the pending rows, then *)
(* one compare-and-set per overdue row.                                    *)
(***************************************************************************)
\* S are the waiting proposals whose time-to-live has passed at this tick.
SweepScan(w, S) ==
  /\ up[w] = "up"
  /\ overdue[w] = {}
  /\ S # {}
  /\ S \subseteq {p \in Proposals : status[p] = "pending"}
  /\ overdue' = [overdue EXCEPT ![w] = S]
  /\ UNCHANGED <<rows, effects, up, stranded, req, crashes>>

\* Mutant: expiry by a plain update instead of a compare-and-set.
SweepBlindly(w, p) ==
  /\ p \in overdue[w]
  /\ overdue' = [overdue EXCEPT ![w] = @ \ {p}]
  /\ status' = [status EXCEPT ![p] = "expired"]
  /\ UNCHANGED <<action, key, decider, tokenUsed, effects, up, stranded, req, crashes>>

SweepOne(w, p) ==
  /\ p \in overdue[w]
  /\ overdue' = [overdue EXCEPT ![w] = @ \ {p}]
  /\ Transition(p, "pending", "expired")
  /\ UNCHANGED <<action, key, decider, tokenUsed, effects, up, stranded, req, crashes>>

(***************************************************************************)
(* A worker dies with everything it has in flight and is started again.    *)
(* Before it serves it fails every proposal it finds confirmed.            *)
(***************************************************************************)
Crash(w) ==
  /\ up[w] # "down"
  /\ crashes < MaxCrashes
  /\ crashes' = crashes + 1
  /\ up' = [up EXCEPT ![w] = "down"]
  /\ stranded' = [stranded EXCEPT ![w] = {}]
  /\ overdue' = [overdue EXCEPT ![w] = {}]
  /\ req' = [req EXCEPT ![w] = [s \in Slots |-> Idle]]
  /\ UNCHANGED <<rows, effects>>

\* Mutant: a restarted worker leaves confirmed proposals alone.
BootForgetful(w) ==
  /\ up[w] = "down"
  /\ up' = [up EXCEPT ![w] = "starting"]
  /\ UNCHANGED <<rows, effects, stranded, overdue, req, crashes>>

Boot(w) ==
  /\ up[w] = "down"
  /\ up' = [up EXCEPT ![w] = "starting"]
  /\ stranded' = [stranded EXCEPT ![w] = {p \in Proposals : status[p] = "confirmed"}]
  /\ UNCHANGED <<rows, effects, overdue, req, crashes>>

ReconcileOne(w, p) ==
  /\ p \in stranded[w]
  /\ stranded' = [stranded EXCEPT ![w] = @ \ {p}]
  /\ Transition(p, "confirmed", "failed")
  /\ UNCHANGED <<action, key, decider, tokenUsed, effects, up, overdue, req, crashes>>

Serve(w) ==
  /\ up[w] = "starting"
  /\ stranded[w] = {}
  /\ up' = [up EXCEPT ![w] = "up"]
  /\ UNCHANGED <<rows, effects, stranded, overdue, req, crashes>>

(***************************************************************************)
(* Specification                                                           *)
(***************************************************************************)
Arrive(w, s) ==
  \/ \E by \in Creators, a \in Actions, k \in Keys \cup {None} : Create(w, s, by, a, k)
  \/ \E p \in Proposals, g \in {"confirmed", "rejected"} : Decide(w, s, p, g) \/ Approve(w, s, p, g)

Continue(w, s) ==
  \/ Lookup(w, s)
  \/ InsertConflict(w, s)
  \/ \E p \in Proposals : Insert(w, s, p)
  \/ SpendToken(w, s)
  \/ Load(w, s)
  \/ Validate(w, s)
  \/ Cas(w, s)
  \/ Execute(w, s)
  \/ HandlerApply(w, s)
  \/ HandlerRaise(w, s)
  \/ \E g \in {"executed", "failed"} : HandlerReturn(w, s, g)
  \/ Record(w, s)

Startup(w) == Boot(w) \/ (\E p \in Proposals : ReconcileOne(w, p)) \/ Serve(w)
Sweep(w) ==
  \/ \E S \in SUBSET Proposals : SweepScan(w, S)
  \/ \E p \in Proposals : SweepOne(w, p)

Next ==
  \/ \E w \in Workers, s \in Slots : Arrive(w, s) \/ Continue(w, s)
  \/ \E w \in Workers : Startup(w) \/ Sweep(w) \/ Crash(w)

Spec == Init /\ [][Next]_vars

\* The event loop keeps running what is ready, the container is restarted,
\* a proposal that is left waiting gets too old and a handler comes back.
\* Nobody has to send a request.
Fairness ==
  /\ \A w \in Workers, s \in Slots : WF_vars(Continue(w, s))
  /\ \A w \in Workers : WF_vars(Startup(w)) /\ WF_vars(Sweep(w))

FairSpec == Spec /\ Fairness

(***************************************************************************)
(* Properties                                                              *)
(***************************************************************************)
Runs(w, s, p) ==
  /\ req[w][s].prop = p
  /\ req[w][s].pc \in {"execute", "run", "applied", "record"}

\* A confirmed action is applied at most once, whatever decides, expires,
\* crashes or reconciles around it: _execute_confirmed is reached only by the
\* request whose compare-and-set won, and recovery never drives it again.
AtMostOnce == \A p \in Proposals : effects[p] <= 1

\* An action on the operator's list takes effect only when a person decided
\* it, through the dashboard or with the one-time token: neither the
\* auto-approve branch of create_proposal nor the in-process gate gets round it.
HumanGate ==
  \A p \in Proposals :
    effects[p] > 0 /\ action[p] \in RequireApproval => decider[p] \in {"human", "token"}

\* "Never runs": a proposal that was rejected or expired has had no effect,
\* and one that is still open has had none yet, even when the decision raced
\* the sweeper or another decision.
RefusedNeverRuns ==
  \A p \in Proposals : status[p] \in {"pending", "rejected", "expired"} => effects[p] = 0

\* A client that retries with its idempotency key gets the action once: the
\* look-up in create_proposal and the UNIQUE column together leave no room
\* for a second proposal with the key to take effect.
OncePerKey ==
  \A p, q \in Proposals :
    p # q /\ key[p] # None /\ key[p] = key[q] => effects[p] = 0 \/ effects[q] = 0

\* A proposal that is settled is not being executed by anyone: recovery fails
\* only what nobody runs any more, and no two requests own one proposal.
SettledIsIdle ==
  \A p \in Proposals :
    status[p] \in Terminal => ~ \E w \in Workers, s \in Slots : Runs(w, s, p)

\* A terminal proposal is never decided or settled again (FR-035d), although
\* update_proposal writes its outcome without looking at the status.
TerminalIsFinal ==
  [][\A p \in Proposals : status[p] \in Terminal => status'[p] = status[p]]_vars

\* Every proposal is settled in the end: decided or swept when its time is
\* up, and if confirmed then executed or failed, across crashes.
EveryProposalSettles ==
  \A p \in Proposals : status[p] = "pending" ~> status[p] \in Terminal

\* What a client of the gate may rely on, as a specification of its own.
Stage(st) ==
  CASE st = "absent"    -> "none"
    [] st = "pending"   -> "open"
    [] st = "confirmed" -> "approved"
    [] OTHER            -> "closed"

Contract == INSTANCE GateContract WITH
  Items <- Proposals,
  stage <- [p \in Proposals |-> Stage(status[p])],
  ran   <- effects

\* The gate implements its contract: an action has its effect at most once,
\* while it is approved, and a closed item stays closed.
ImplementsContract == Contract!Spec

=============================================================================
