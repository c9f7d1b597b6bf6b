------------------------------- MODULE OpsHeal -------------------------------
(***************************************************************************)
(* Probes, anomaly sweep, the handler that answers an anomaly, and the     *)
(* rollback requests it leaves for the supervisor, for one environment:    *)
(* environments share nothing.                                             *)
(*                                                                         *)
(* The supervisor, which writes every probe of a running platform, stamps  *)
(* them with an offset from UTC; the store's own insert, which only the    *)
(* tests call, stamps them without.  The backend compares them with a time *)
(* without offset: a stamp that carries one raises.                        *)
(***************************************************************************)
EXTENDS Naturals, FiniteSets, Sequences, SequencesExt

CONSTANTS
  Writers,      \* who writes the probes: "supervisor", "store"
  Operators,    \* concurrent confirmations of rollback proposals
  Window, SloWindow, Current,    \* minutes in an hour, in 15 and in 5 minutes
  MinBaseline, MinCurrent, MinSlo, MinRollback, \* least samples: 10, 2, 3 and 5 in the code
  PerFailure,   \* probes that outweigh a failure: 10 in development (target 0.90), 20 to 200 elsewhere
  SweepEvery,   \* probes between two sweeps, at most
  MaxTurns, MaxPauses, MaxCrashes  \* bounds on the actions so named

Callers == Operators \cup {"handler", "agent"}

VARIABLES
  writer,     \* who writes the probes of this installation
  governed,   \* resolved once, at start-up
  env,        \* what a probe would find: "ok", "slow" or "down"
  turns,
  probes,     \* results of the last hour's minutes, the latest last; "none" was not probed
  pauses,     \* probes missed in a row while the supervisor deploys
  unswept,    \* probes since the last sweep
  heal,       \* the handler of the anomaly event
  tool,       \* where each caller of auto_rollback or ops_rollback is
  proposal,   \* the one proposal under the key autorollback:env
  rollbacks,  \* pending rollback requests
  crashes,
  told,       \* history: an alert or rollback event since env last turned
  overlapped  \* history: two callers had both looked and not yet inserted

opsVars == <<writer, governed, env, turns, probes, pauses, unswept, heal, tool, proposal, rollbacks,
             crashes, told, overlapped>>

TypeOK ==
  /\ writer \in Writers /\ governed \in BOOLEAN /\ env \in {"ok", "slow", "down"}
  /\ turns \in 0..MaxTurns /\ pauses \in 0..MaxPauses /\ crashes \in 0..MaxCrashes
  /\ probes \in BoundedSeq({"ok", "slow", "down", "none"}, Window) /\ unswept \in 0..SweepEvery
  /\ heal \in {"idle", "slo", "gate", "tool"}
  /\ tool \in [Callers -> {"idle", "look", "verify", "insert"}]
  /\ proposal \in {"none", "pending", "settled"} /\ rollbacks \in 0..Cardinality(Callers)
  /\ told \in BOOLEAN /\ overlapped \in BOOLEAN

Init ==
  /\ writer \in Writers /\ governed \in BOOLEAN
  /\ env = "ok" /\ turns = 0 /\ probes = <<>> /\ pauses = 0 /\ unswept = 0
  /\ heal = "idle" /\ tool = [c \in Callers |-> "idle"]
  /\ proposal = "none" /\ rollbacks = 0 /\ crashes = 0
  /\ told = FALSE /\ overlapped = FALSE

(***************************************************************************)
(* Windows and verdicts                                                    *)
(***************************************************************************)
Recent(n) == SubSeq(probes, IF Len(probes) > n THEN Len(probes) - n + 1 ELSE 1, Len(probes))

Count(window, results) == Cardinality({i \in DOMAIN window : window[i] \in results})
Samples(window) == Count(window, {"ok", "slow", "down"})

\* probe.recorded_at >= cutoff, with one of the stamps aware and the other not.
Raises(window) == writer = "supervisor" /\ Samples(window) > 0

\* availability < target.
FailsTarget(window) == Count(window, {"down"}) * PerFailure > Samples(window)

\* One failed probe moves error_rate_5m many sigmas off a clean hour; otherwise
\* it depends on the numbers.
Baseline == SubSeq(probes, 1, Len(probes) - Len(Recent(Current)))
Anomalies ==
  IF Raises(probes) \/ Samples(Baseline) < MinBaseline \/ Samples(Recent(Current)) < MinCurrent THEN {FALSE}
  ELSE IF Count(Recent(Current), {"down"}) > 0 /\ Count(Baseline, {"down"}) = 0 THEN {TRUE} ELSE BOOLEAN

\* error_rate_5m tolerates no failure; "slow" is slow enough for a latency target.
SloVerdict ==
  LET window == Recent(SloWindow) IN
  CASE Samples(window) < MinSlo -> "INSUFFICIENT_DATA"
    [] Raises(window) -> "ERROR"
    [] FailsTarget(window) -> "BREACH"
    [] Count(window, {"slow"}) + Count(Recent(Current), {"down"}) > 0 -> "DEGRADED"
    [] OTHER -> "PASS"

(***************************************************************************)
(* The environment and the supervisor's probes                             *)
(***************************************************************************)
Turn ==
  /\ turns < MaxTurns /\ turns' = turns + 1
  /\ env' \in {"ok", "slow", "down"} \ {env} /\ told' = FALSE
  /\ UNCHANGED <<writer, governed, probes, pauses, unswept, heal, tool, proposal, rollbacks, crashes, overlapped>>

Minute(result) == probes' = (IF Len(probes) = Window THEN Tail(probes) ELSE probes) \o <<result>>

\* The handler is done within milliseconds, long before the next probe.
Probe ==
  /\ heal = "idle" /\ unswept < SweepEvery
  /\ Minute(env) /\ unswept' = unswept + 1
  /\ UNCHANGED <<writer, governed, env, turns, pauses, heal, tool, proposal, rollbacks, crashes, told, overlapped>>

\* No probes while the supervisor's only thread deploys: the windows run dry.
Pause ==
  /\ pauses < MaxPauses /\ pauses' = pauses + 1
  /\ heal = "idle" /\ Minute("none")
  /\ UNCHANGED <<writer, governed, env, turns, unswept, heal, tool, proposal, rollbacks, crashes, told, overlapped>>

(***************************************************************************)
(* Sweeper and handler                                                     *)
(***************************************************************************)
\* A tool that raises is logged and the next environment taken.
Sweep ==
  /\ heal = "idle" /\ unswept > 0
  /\ \E anomaly \in Anomalies : heal' = IF anomaly THEN "slo" ELSE "idle"
  /\ unswept' = 0
  /\ UNCHANGED <<writer, governed, env, turns, probes, pauses, tool, proposal, rollbacks, crashes, told, overlapped>>

JudgeSlo ==
  /\ heal = "slo"
  /\ heal' = IF SloVerdict # "BREACH" THEN "idle" ELSE IF governed THEN "gate" ELSE "tool"
  /\ tool' = [tool EXCEPT !["handler"] = IF heal' = "tool" THEN "look" ELSE @]
  /\ told' = (told \/ SloVerdict \in {"DEGRADED", "INSUFFICIENT_DATA"})
  /\ UNCHANGED <<writer, governed, env, turns, probes, pauses, unswept, proposal, rollbacks, crashes, overlapped>>

\* submit_gated_action: the key finds every earlier proposal, settled ones too.
Propose ==
  /\ heal = "gate"
  /\ proposal' = IF proposal = "none" THEN "pending" ELSE proposal
  /\ heal' = "idle" /\ told' = TRUE
  /\ UNCHANGED <<writer, governed, env, turns, probes, pauses, unswept, tool, rollbacks, crashes, overlapped>>

\* An operator confirms that proposal, or one that was made by hand, or rejects.
Confirm(c) ==
  /\ tool[c] = "idle"
  /\ tool' = [tool EXCEPT ![c] = "look"]
  /\ proposal' \in {proposal, IF proposal = "pending" THEN "settled" ELSE proposal}
  /\ UNCHANGED <<writer, governed, env, turns, probes, pauses, unswept, heal, rollbacks, crashes, told, overlapped>>

Reject ==
  /\ proposal = "pending" /\ proposal' = "settled"
  /\ UNCHANGED <<writer, governed, env, turns, probes, pauses, unswept, heal, tool, rollbacks, crashes, told, overlapped>>

\* The ops agent, asked to watch a deployment, calls the tool when it sees fit.
AgentCalls ==
  /\ tool["agent"] = "idle"
  /\ tool' = [tool EXCEPT !["agent"] = "look"]
  /\ UNCHANGED <<writer, governed, env, turns, probes, pauses, unswept, heal, proposal, rollbacks, crashes, told, overlapped>>

(***************************************************************************)
(* auto_rollback and ops_rollback                                          *)
(***************************************************************************)
\* The handler tells of whatever the tool returned.
Ends(c) ==
  /\ tool' = [tool EXCEPT ![c] = "idle"]
  /\ heal' = (IF c = "handler" THEN "idle" ELSE heal)
  /\ told' = (told \/ c = "handler")

Steps(c, at) == tool' = [tool EXCEPT ![c] = at] /\ UNCHANGED <<heal, told>>

\* Mutant: in_flight requests are looked for, pending ones are not.
LookInFlight(c) ==
  /\ tool[c] = "look"
  /\ Steps(c, IF c \in Operators THEN "insert" ELSE "verify")
  /\ overlapped' = (overlapped \/ \E d \in Callers \ {c} : tool[d] \in {"verify", "insert"})
  /\ UNCHANGED <<writer, governed, env, turns, probes, pauses, unswept, proposal, rollbacks, crashes>>

\* get_in_flight_rollback_for_env.
Look(c) ==
  /\ tool[c] = "look"
  /\ IF rollbacks > 0 THEN Ends(c) ELSE Steps(c, IF c \in Operators THEN "insert" ELSE "verify")
  /\ overlapped' = (overlapped \/ \E d \in Callers \ {c} : tool[d] \in {"verify", "insert"})
  /\ UNCHANGED <<writer, governed, env, turns, probes, pauses, unswept, proposal, rollbacks, crashes>>

\* An exception ends the handler without an alert.
Verify(c) ==
  LET window == Recent(Current) IN
  /\ tool[c] = "verify"
  /\ IF Raises(window) THEN /\ tool' = [tool EXCEPT ![c] = "idle"] /\ UNCHANGED told
                            /\ heal' = (IF c = "handler" THEN "idle" ELSE heal)
     ELSE IF Samples(window) >= MinRollback /\ FailsTarget(window) THEN Steps(c, "insert")
     ELSE Ends(c)
  /\ UNCHANGED <<writer, governed, env, turns, probes, pauses, unswept, proposal, rollbacks, crashes, overlapped>>

\* No one takes the requests up: the supervisor never reads their table.
Queue(c) ==
  /\ tool[c] = "insert"
  /\ rollbacks' = rollbacks + 1
  /\ Ends(c)
  /\ UNCHANGED <<writer, governed, env, turns, probes, pauses, unswept, proposal, crashes, overlapped>>

Crash ==
  /\ crashes < MaxCrashes /\ crashes' = crashes + 1
  /\ heal' = "idle" /\ tool' = [c \in Callers |-> "idle"]
  /\ UNCHANGED <<writer, governed, env, turns, probes, pauses, unswept, proposal, rollbacks, told, overlapped>>

Watches == Probe \/ Sweep
Heals == JudgeSlo \/ Propose \/ Look("handler") \/ Verify("handler") \/ Queue("handler")

Next ==
  \/ Turn \/ Probe \/ Pause \/ Sweep \/ JudgeSlo \/ Propose \/ Reject \/ AgentCalls \/ Crash
  \/ \E c \in Operators : Confirm(c)
  \/ \E c \in Callers : Look(c) \/ Verify(c) \/ Queue(c)

Spec == Init /\ [][Next]_opsVars

\* The supervisor probes on every twelfth poll, the sweeper is a task that never
\* ends, and the handler awaits nothing but the database.
Fairness == WF_opsVars(Watches) /\ WF_opsVars(Heals)
FairSpec == Spec /\ Fairness

(***************************************************************************)
(* Properties                                                              *)
(***************************************************************************)
\* However anomalies, agents, operators and restarts interleave, a second
\* rollback is queued beside a pending one only by callers that overlapped.
OneRollbackPerEnv == rollbacks > 1 => overlapped

\* "Two server-side pieces that close the AE-1 ops loop": an environment that
\* goes down after a clean hour is answered by an alert or a rollback, unless the
\* backend restarts or the supervisor pauses meanwhile.  The code does not keep it
\* of the supervisor's probes, at whose stamps every sweep raises.  No run checks it.
OutageIsNoticed ==
  (/\ env = "down" /\ Len(probes) = Window /\ \A i \in DOMAIN probes : probes[i] = "ok"
   /\ pauses = MaxPauses /\ crashes = MaxCrashes)
    ~> (told \/ env # "down")

=============================================================================
