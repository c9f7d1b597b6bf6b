-------------------------------- MODULE Platform -------------------------------
(***************************************************************************)
(* What runs and must end: the life of a request, a project's deployment,  *)
(* the platform's deployment, the ops heal loop and the delivery of        *)
(* events.  They share no state, so a behaviour moves one part, the one    *)
(* its initial state picks, and the others stay where they started.        *)
(***************************************************************************)
EXTENDS RequestLifecycle

CONSTANTS
  Null,
  Users,        \* the concurrent calls of a project's deploy routes
  JudgeLimit,   \* 50 in the code
  Builds,       \* 1..N, the requests deployed on the platform's own host
  Writers,      \* who writes the probes: "supervisor", "store"
  Operators,    \* the concurrent confirmations of rollback proposals
  Window, SloWindow, Current, MinBaseline, MinCurrent, MinSlo, MinRollback, PerFailure, SweepEvery, \* in probes
  Listeners,    \* the clients of the websocket
  Handlers, MaxBuffer, MaxRetries

\* Bounds on the commits, decisions, calls, kills, errors, turns and events explored.
CONSTANTS
  MaxCommits, MaxDecisions, MaxCalls, MaxKills, MaxErrors, MaxLosses, MaxTurns, MaxPauses, MaxRestarts, MaxEvents

VARIABLES
  part,
  deploy, commits, decision, judge, compose, supervisor, kills, asked,
  origin, local, publish, owned, deployment, host, report, faults, released,
  writer, governed, env, turns, probes, pauses, unswept, heal, tool, proposal, rollbacks,
  restarts, told, overlapped,
  emits, inbox, buffer, worker, sent, dropped, vanished, up

Project == INSTANCE ProjectDeploy
Host == INSTANCE PlatformDeploy WITH Requests <- Builds, dropped <- released
Ops == INSTANCE OpsHeal WITH MaxCrashes <- MaxRestarts, crashes <- restarts
Events == INSTANCE EventDelivery WITH Clients <- Listeners, lost <- vanished

ASSUME BuildsAssumption == Builds \subseteq Nat \ {0}
ASSUME PlatformBounds ==
  /\ MaxCommits \in Nat /\ MaxDecisions \in Nat /\ MaxCalls \in Nat /\ MaxKills \in Nat /\ MaxErrors \in Nat
  /\ MaxLosses \in Nat /\ MaxTurns \in Nat /\ MaxPauses \in Nat /\ MaxRestarts \in Nat /\ MaxEvents \in Nat
  /\ Window \in Nat \ {0} /\ SweepEvery \in Nat /\ Handlers \in Nat /\ MaxBuffer \in Nat /\ MaxRetries \in Nat
ASSUME OperatorsAssumption == Ops!IsFiniteSet(Operators)

projectVars == <<deploy, commits, decision, judge, compose, supervisor, kills, asked>>
hostVars == <<origin, local, publish, owned, deployment, host, report, faults, released>>
opsVars == <<writer, governed, env, turns, probes, pauses, unswept, heal, tool, proposal, rollbacks,
             restarts, told, overlapped>>
eventVars == <<emits, inbox, buffer, worker, sent, dropped, vanished, up>>

PlatformInit ==
  /\ part \in {"request", "project", "host", "ops", "events"}
  /\ Init /\ Project!Init /\ Host!Init /\ Ops!Init /\ Events!Init
  /\ part # "project" => compose
  /\ part # "host" => owned = {}
  /\ part # "ops" => writer = "store" /\ governed

PlatformNext ==
  /\ UNCHANGED part
  /\ \/ part = "request" /\ Next /\ UNCHANGED <<projectVars, hostVars, opsVars, eventVars>>
     \/ part = "project" /\ Project!Next /\ UNCHANGED <<vars, hostVars, opsVars, eventVars>>
     \/ part = "host" /\ Host!Next /\ UNCHANGED <<vars, projectVars, opsVars, eventVars>>
     \/ part = "ops" /\ Ops!Next /\ UNCHANGED <<vars, projectVars, hostVars, eventVars>>
     \/ part = "events" /\ Events!Next /\ UNCHANGED <<vars, projectVars, hostVars, opsVars>>

platformVars == <<part, vars, projectVars, hostVars, opsVars, eventVars>>
PlatformSafety == PlatformInit /\ [][PlatformNext]_platformVars

\* Each part's fairness, of the part that moves.  The coroutines of requests and
\* the deliveries of events have nothing to do where no request or event is.
PlatformSpec ==
  /\ PlatformSafety
  /\ Fairness /\ Events!Fairness
  /\ WF_projectVars(part = "project" /\ Project!Supervises)
  /\ WF_hostVars(part = "host" /\ Host!Supervises)

(***************************************************************************)
(* What is checked beside RequestLifecycle's own properties, each stated   *)
(* and explained in its own module.                                        *)
(***************************************************************************)
\* The types of every part.
PlatformTypeOK == TypeOK /\ Project!TypeOK /\ Host!TypeOK /\ Ops!TypeOK /\ Events!TypeOK

\* What the devops specialist reported stays true of everything but a failure,
\* a revert takes back the very commit before it, of a deployment that failed,
\* and a second rollback is queued beside a pending one only by callers that
\* overlapped (WaitForDeploymentTool, rollback, AutoRollbackTool).
RollbacksAreSound == Host!ReportHolds /\ Host!RevertsItsOwn /\ Ops!OneRollbackPerEnv

\* What is asked of a supervisor ends, and the record of it stays: a requested
\* deploy or stop of a project does not stay pending, a deployment of the
\* platform comes to an end unless its handling raised, a settled recommendation
\* is never rewritten, and main on GitHub only grows
\* (process_project_deploy_requests, cleanup_stale_inflight_rows, mark_decision_applied).
DeploysEnd ==
  /\ Project!PendingEnds /\ Host!EveryDeploymentEnds
  /\ Project!DecisionsAreFinal /\ Host!HistoryIsKept

\* Each payload in the push bridge's buffer is delivered, dropped after its
\* tries, or lost with the process (PushBridge._run).
EveryPayloadHasAFate == Events!EveryPayloadHasAFate
================================================================================
