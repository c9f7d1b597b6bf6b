------------------------- MODULE ProposalGateProofs -------------------------
(***************************************************************************)
(* Theorems about the approval gate, for every set of proposals, workers,  *)
(* slots, keys and action types.                                           *)
(***************************************************************************)
EXTENDS ProposalGate, TLAPS

(***************************************************************************)
(* Every step of the gate is one of these.                                 *)
(***************************************************************************)
LEMMA NextCases ==
  ASSUME Next
  PROVE  \/ \E w \in Workers, s \in Slots :
               \/ \E by \in Creators, a \in Actions, k \in Keys \cup {None} : Create(w, s, by, a, k)
               \/ \E p \in Proposals, g \in {"confirmed", "rejected"} :
                    Decide(w, s, p, g) \/ Approve(w, s, p, g)
               \/ Lookup(w, s) \/ InsertConflict(w, s)
               \/ \E p \in Proposals : Insert(w, s, p)
               \/ SpendToken(w, s) \/ Load(w, s) \/ Validate(w, s) \/ Cas(w, s)
               \/ Execute(w, s) \/ HandlerApply(w, s) \/ HandlerRaise(w, s)
               \/ \E g \in {"executed", "failed"} : HandlerReturn(w, s, g)
               \/ Record(w, s)
         \/ \E w \in Workers :
               \/ Boot(w) \/ Serve(w) \/ Crash(w)
               \/ \E p \in Proposals : ReconcileOne(w, p) \/ SweepOne(w, p)
               \/ \E S \in SUBSET Proposals : SweepScan(w, S)
BY DEF Next, Arrive, Continue, Startup, Sweep

(***************************************************************************)
(* What a request carries depends on where it is: a request that decides   *)
(* knows its proposal, its actor and the status it wants to write.         *)
(***************************************************************************)
Carries(r) ==
  /\ r.pc \in {"token", "load", "validate", "cas", "execute", "run", "applied", "record"}
       => r.prop \in Proposals
  /\ r.pc \in {"lookup", "insert"} => r.act \in Actions /\ r.by \in Creators
  /\ r.pc \in {"token", "load", "validate", "cas"} => r.by \in Deciders
  /\ r.pc \in {"token", "load"} => r.goal \in {"confirmed", "rejected"}
  /\ r.pc = "validate" => r.goal = "confirmed"
  /\ r.pc = "cas" => r.goal \in {"confirmed", "rejected", "failed"}
  /\ r.pc = "record" => r.goal \in {"executed", "failed"}

ReqInv ==
  /\ req \in [Workers -> [Slots -> Requests]]
  /\ \A w \in Workers, s \in Slots : Carries(req[w][s])

TypeInv == TypeOK /\ ReqInv

\* A step of one request leaves the others as they are; it is enough that the
\* record it leaves behind is well-formed and carries what it must.
LEMMA RequestStep ==
  ASSUME ReqInv, NEW w \in Workers, NEW s \in Slots, NEW r \in Requests, Carries(r),
         req' = [req EXCEPT ![w][s] = r]
  PROVE  ReqInv'
BY DEF ReqInv

LEMMA IdleIsFine == Idle \in Requests /\ Carries(Idle)
BY DEF Idle, Requests, Carries, PC, Deciders, Creators

LEMMA FinishStep ==
  ASSUME ReqInv, NEW w \in Workers, NEW s \in Slots, Finish(w, s)
  PROVE  ReqInv'
BY RequestStep, IdleIsFine DEF Finish

LEMMA RecordUpdates ==
  ASSUME NEW r \in Requests, NEW c \in PC,
         NEW g \in {"confirmed", "rejected", "executed", "failed"}
  PROVE  /\ [r EXCEPT !.pc = c] \in Requests
         /\ [r EXCEPT !.pc = c, !.goal = g] \in Requests
BY DEF Requests

LEMMA GotoStep ==
  ASSUME ReqInv, NEW w \in Workers, NEW s \in Slots, NEW c \in PC, Goto(w, s, c),
         Carries([req[w][s] EXCEPT !.pc = c])
  PROVE  ReqInv'
<1>1. [req[w][s] EXCEPT !.pc = c] \in Requests
  BY RecordUpdates DEF ReqInv
<1>2. req' = [req EXCEPT ![w][s] = [req[w][s] EXCEPT !.pc = c]]
  BY DEF Goto, ReqInv
<1>3. QED BY <1>1, <1>2, RequestStep

LEMMA GoalStep ==
  ASSUME ReqInv, NEW w \in Workers, NEW s \in Slots, NEW c \in PC,
         NEW g \in {"confirmed", "rejected", "executed", "failed"},
         Aim(w, s, c, g),
         Carries([req[w][s] EXCEPT !.pc = c, !.goal = g])
  PROVE  ReqInv'
<1>1. [req[w][s] EXCEPT !.pc = c, !.goal = g] \in Requests
  BY RecordUpdates DEF ReqInv
<1>2. req' = [req EXCEPT ![w][s] = [req[w][s] EXCEPT !.pc = c, !.goal = g]]
  BY DEF Aim, ReqInv
<1>3. QED BY <1>1, <1>2, RequestStep

\* The type invariant, with what requests carry, is preserved by every step.
THEOREM TypeInvariance == Spec => []TypeInv
<1>1. Init => TypeInv
  BY GateAssumption, IdleIsFine DEF Init, TypeInv, TypeOK, ReqInv, Status
<1>2. TypeInv /\ [Next]_vars => TypeInv'
  <2> SUFFICES ASSUME TypeInv, [Next]_vars PROVE TypeInv'
    OBVIOUS
  <2> USE DEF TypeInv
  <2>0. CASE UNCHANGED vars
    BY <2>0 DEF vars, TypeOK, ReqInv
  <2>1. ASSUME NEW w \in Workers, NEW s \in Slots, NEW by \in Creators, NEW a \in Actions,
               NEW k \in Keys \cup {None}, Create(w, s, by, a, k)
        PROVE  TypeInv'
    <3>1. [Idle EXCEPT !.pc = "lookup", !.by = by, !.act = a, !.key = k] \in Requests
          /\ Carries([Idle EXCEPT !.pc = "lookup", !.by = by, !.act = a, !.key = k])
      BY DEF Idle, Requests, Carries, PC
    <3>2. QED BY <2>1, <3>1, RequestStep DEF Create, Begin, rows, procs, TypeOK, ReqInv
  <2>2. ASSUME NEW w \in Workers, NEW s \in Slots, NEW p \in Proposals,
               NEW g \in {"confirmed", "rejected"}, Decide(w, s, p, g) \/ Approve(w, s, p, g)
        PROVE  TypeInv'
    <3>1. ASSUME NEW c \in {"load", "token"}, NEW b \in Deciders
          PROVE  [Idle EXCEPT !.pc = c, !.prop = p, !.by = b, !.goal = g] \in Requests
                 /\ Carries([Idle EXCEPT !.pc = c, !.prop = p, !.by = b, !.goal = g])
      BY DEF Idle, Requests, Carries, PC
    <3>2. ReqInv'
      BY <2>2, <3>1, RequestStep DEF Decide, Approve, Begin, Deciders
    <3>3. QED BY <2>2, <3>2 DEF Decide, Approve, Begin, rows, procs, TypeOK, ReqInv
  <2>3. ASSUME NEW w \in Workers, NEW s \in Slots, Lookup(w, s) \/ InsertConflict(w, s)
        PROVE  TypeInv'
    <3>1. At(w, s, "lookup") => Carries([req[w][s] EXCEPT !.pc = "insert"])
      BY DEF ReqInv, At, Carries, Requests
    <3>2. ReqInv'
      BY <2>3, <3>1, FinishStep, GotoStep DEF Lookup, InsertConflict, PC
    <3>3. QED BY <2>3, <3>2 DEF Lookup, InsertConflict, rows, procs, TypeOK, ReqInv
  <2>4. ASSUME NEW w \in Workers, NEW s \in Slots, NEW p \in Proposals, Insert(w, s, p)
        PROVE  TypeInv'
    <3> DEFINE r == [Idle EXCEPT !.pc = "load", !.prop = p, !.by = "policy", !.goal = "confirmed"]
    <3>1. r \in Requests /\ Carries(r)
      BY DEF Idle, Requests, Carries, PC, Deciders
    <3>2. ReqInv'
      BY <2>4, <3>1, FinishStep, RequestStep DEF Insert
    <3>3. req[w][s].act \in Actions /\ req[w][s].key \in Keys \cup {None}
      BY <2>4 DEF Insert, At, ReqInv, Carries, Requests
    <3>4. QED BY <2>4, <3>2, <3>3 DEF Insert, procs, TypeOK, ReqInv, Status
  <2>5. ASSUME NEW w \in Workers, NEW s \in Slots, SpendToken(w, s) PROVE TypeInv'
    <3>1. At(w, s, "token") => Carries([req[w][s] EXCEPT !.pc = "load"])
      BY DEF ReqInv, At, Carries, Requests
    <3>2. ReqInv'
      BY <2>5, <3>1, FinishStep, GotoStep DEF SpendToken, PC
    <3>3. QED BY <2>5, <3>2 DEF SpendToken, procs, TypeOK, ReqInv
  <2>6. ASSUME NEW w \in Workers, NEW s \in Slots, Load(w, s) PROVE TypeInv'
    <3>1. /\ At(w, s, "load") => Carries([req[w][s] EXCEPT !.pc = "cas"])
          /\ At(w, s, "load") /\ req[w][s].goal = "confirmed"
               => Carries([req[w][s] EXCEPT !.pc = "validate"])
      BY DEF ReqInv, At, Carries, Requests
    <3>2. CASE req[w][s].goal = "confirmed"
      BY <2>6, <3>1, <3>2, FinishStep, GotoStep DEF Load, PC, rows, procs, TypeOK, ReqInv
    <3>3. CASE req[w][s].goal # "confirmed"
      BY <2>6, <3>1, <3>3, FinishStep, GotoStep DEF Load, PC, rows, procs, TypeOK, ReqInv
    <3>4. QED BY <3>2, <3>3
  <2>7. ASSUME NEW w \in Workers, NEW s \in Slots, Validate(w, s) PROVE TypeInv'
    <3>1. At(w, s, "validate") => Carries([req[w][s] EXCEPT !.pc = "cas"])
                                  /\ Carries([req[w][s] EXCEPT !.pc = "cas", !.goal = "failed"])
      BY DEF ReqInv, At, Carries, Requests
    <3>2. ReqInv'
      BY <2>7, <3>1, GotoStep, GoalStep DEF Validate, PC
    <3>3. QED BY <2>7, <3>2 DEF Validate, rows, procs, TypeOK, ReqInv
  <2>8. ASSUME NEW w \in Workers, NEW s \in Slots, Cas(w, s) PROVE TypeInv'
    <3>1. At(w, s, "cas") => Carries([req[w][s] EXCEPT !.pc = "execute"])
      BY DEF ReqInv, At, Carries, Requests
    <3>2. ReqInv'
      BY <2>8, <3>1, FinishStep, GotoStep DEF Cas, PC
    <3>3. /\ req[w][s].goal \in {"confirmed", "rejected", "failed"}
          /\ req[w][s].by \in Deciders
      BY <2>8 DEF Cas, At, ReqInv, Carries
    <3>4. QED BY <2>8, <3>2, <3>3 DEF Cas, Transition, procs, TypeOK, ReqInv, Status, Terminal
  <2>9. ASSUME NEW w \in Workers, NEW s \in Slots,
               Execute(w, s) \/ HandlerApply(w, s) \/ HandlerRaise(w, s)
        PROVE  TypeInv'
    <3>1. req[w][s].pc \in {"execute", "run"} =>
            /\ Carries([req[w][s] EXCEPT !.pc = "run"])
            /\ Carries([req[w][s] EXCEPT !.pc = "applied"])
            /\ Carries([req[w][s] EXCEPT !.pc = "record", !.goal = "failed"])
      BY DEF ReqInv, Carries, Requests
    <3>2. ReqInv'
      BY <2>9, <3>1, FinishStep, GotoStep, GoalStep DEF Execute, HandlerApply, HandlerRaise, At, PC
    <3>3. QED
      BY <2>9, <3>2 DEF Execute, HandlerApply, HandlerRaise, rows, procs, TypeOK, ReqInv
  <2>10. ASSUME NEW w \in Workers, NEW s \in Slots, NEW g \in {"executed", "failed"},
                HandlerReturn(w, s, g)
         PROVE  TypeInv'
    <3>1. At(w, s, "applied") => Carries([req[w][s] EXCEPT !.pc = "record", !.goal = g])
      BY DEF ReqInv, At, Carries, Requests
    <3>2. ReqInv'
      BY <2>10, <3>1, GoalStep DEF HandlerReturn, PC
    <3>3. QED BY <2>10, <3>2 DEF HandlerReturn, rows, procs, TypeOK, ReqInv
  <2>11. ASSUME NEW w \in Workers, NEW s \in Slots, Record(w, s) PROVE TypeInv'
    <3>1. req[w][s].goal \in {"executed", "failed"}
      BY <2>11 DEF Record, At, ReqInv, Carries
    <3>2. ReqInv'
      BY <2>11, FinishStep DEF Record
    <3>3. QED BY <2>11, <3>1, <3>2 DEF Record, procs, TypeOK, ReqInv, Status, Terminal
  <2>12. ASSUME NEW w \in Workers, Boot(w) \/ Serve(w) PROVE TypeInv'
    BY <2>12 DEF Boot, Serve, rows, TypeOK, ReqInv
  <2>13. ASSUME NEW w \in Workers, Crash(w) PROVE TypeInv'
    BY <2>13, IdleIsFine, GateAssumption DEF Crash, rows, TypeOK, ReqInv
  <2>14. ASSUME NEW w \in Workers, NEW p \in Proposals, ReconcileOne(w, p) \/ SweepOne(w, p)
         PROVE  TypeInv'
    BY <2>14 DEF ReconcileOne, SweepOne, Transition, Status, Terminal, TypeOK, ReqInv
  <2>15. ASSUME NEW w \in Workers, NEW S \in SUBSET Proposals, SweepScan(w, S) PROVE TypeInv'
    BY <2>15 DEF SweepScan, rows, TypeOK, ReqInv
  <2>16. QED
    BY <2>0, <2>1, <2>2, <2>3, <2>4, <2>5, <2>6, <2>7, <2>8, <2>9, <2>10, <2>11, <2>12,
       <2>13, <2>14, <2>15, NextCases
<1>3. QED
  BY <1>1, <1>2, PTL DEF Spec

\* Every variable of the gate has its type in every reachable state.
THEOREM TypeCorrect == Spec => []TypeOK
BY TypeInvariance, PTL DEF TypeInv

(***************************************************************************)
(* At most one execution.  The request whose compare-and-set confirmed a   *)
(* proposal is its only executor: nobody else can confirm it afterwards,   *)
(* and the status it leaves behind is never "pending" again.               *)
(***************************************************************************)
\* What is being executed has been confirmed (and may have been failed since
\* by a worker that started late).
ExecutesConfirmed ==
  \A w \in Workers, s \in Slots, p \in Proposals :
    Runs(w, s, p) => status[p] \in {"confirmed", "failed"}

OneExecutor ==
  \A w, v \in Workers, s, t \in Slots, p \in Proposals :
    Runs(w, s, p) /\ Runs(v, t, p) => w = v /\ s = t

NotYetApplied ==
  \A w \in Workers, s \in Slots :
    req[w][s].pc \in {"execute", "run"} => effects[req[w][s].prop] = 0

UnconfirmedHasNoEffect ==
  \A p \in Proposals :
    status[p] \in {"absent", "pending", "rejected", "expired"} => effects[p] = 0

GateInv ==
  /\ TypeInv
  /\ ExecutesConfirmed
  /\ OneExecutor
  /\ NotYetApplied
  /\ UnconfirmedHasNoEffect
  /\ AtMostOnce

Executing == {"execute", "run", "applied", "record"}

\* The step leaves record r in slot s of worker w and no other trace in req.
Becomes(w, s, r) ==
  \A v \in Workers, t \in Slots : req'[v][t] = IF v = w /\ t = s THEN r ELSE req[v][t]

LEMMA FinishBecomes ==
  ASSUME ReqInv, NEW w \in Workers, NEW s \in Slots, Finish(w, s)
  PROVE  Becomes(w, s, Idle) /\ Idle.pc \notin Executing
BY DEF ReqInv, Finish, Becomes, Idle, Executing

LEMMA SetBecomes ==
  ASSUME ReqInv, NEW w \in Workers, NEW s \in Slots, NEW r, req' = [req EXCEPT ![w][s] = r]
  PROVE  Becomes(w, s, r)
BY DEF ReqInv, Becomes

LEMMA GotoBecomes ==
  ASSUME ReqInv, NEW w \in Workers, NEW s \in Slots, NEW c \in PC, Goto(w, s, c)
  PROVE  \E r : Becomes(w, s, r) /\ r.pc = c /\ r.prop = req[w][s].prop /\ r.by = req[w][s].by
<1> DEFINE r == [req[w][s] EXCEPT !.pc = c]
<1>1. req[w][s] \in Requests
  BY DEF ReqInv
<1>2. r.pc = c /\ r.prop = req[w][s].prop /\ r.by = req[w][s].by
  BY <1>1 DEF Requests
<1>3. Becomes(w, s, r)
  BY DEF Goto, ReqInv, Becomes
<1>4. QED BY <1>2, <1>3

LEMMA GoalBecomes ==
  ASSUME ReqInv, NEW w \in Workers, NEW s \in Slots, NEW c \in PC,
         NEW g \in {"confirmed", "rejected", "executed", "failed"},
         Aim(w, s, c, g)
  PROVE  \E r : Becomes(w, s, r) /\ r.pc = c /\ r.prop = req[w][s].prop /\ r.by = req[w][s].by
<1> DEFINE r == [req[w][s] EXCEPT !.pc = c, !.goal = g]
<1>1. req[w][s] \in Requests
  BY DEF ReqInv
<1>2. r.pc = c /\ r.prop = req[w][s].prop /\ r.by = req[w][s].by
  BY <1>1 DEF Requests
<1>3. Becomes(w, s, r)
  BY DEF Aim, ReqInv, Becomes
<1>4. QED BY <1>2, <1>3

\* A request that moves on without touching statuses or effects, and does not
\* become an executor if it was none, keeps the invariant.
LEMMA HarmlessStep ==
  ASSUME GateInv, TypeInv', status' = status, effects' = effects,
         NEW w \in Workers, NEW s \in Slots, NEW r, Becomes(w, s, r),
         r.pc \in Executing =>
           /\ req[w][s].pc \in Executing
           /\ req[w][s].prop = r.prop
           /\ r.pc \in {"execute", "run"} => req[w][s].pc \in {"execute", "run"}
  PROVE  GateInv'
<1>1. \A v \in Workers, t \in Slots, p \in Proposals : Runs(v, t, p)' => Runs(v, t, p)
  BY DEF Runs, Becomes, Executing
<1>2. ExecutesConfirmed' /\ OneExecutor'
  BY <1>1 DEF GateInv, ExecutesConfirmed, OneExecutor
<1>3. NotYetApplied'
  BY DEF GateInv, NotYetApplied, Becomes, Executing
<1>4. UnconfirmedHasNoEffect' /\ AtMostOnce'
  BY DEF GateInv, UnconfirmedHasNoEffect, AtMostOnce
<1>5. QED BY <1>2, <1>3, <1>4 DEF GateInv

\* So does a step that changes no request, or only drops some.
LEMMA Harmless ==
  ASSUME GateInv, TypeInv', status' = status, effects' = effects,
         \A w \in Workers, s \in Slots :
           req'[w][s].pc \in {"execute", "run", "applied", "record"} =>
             /\ req[w][s].pc \in {"execute", "run", "applied", "record"}
             /\ req[w][s].prop = req'[w][s].prop
             /\ req'[w][s].pc \in {"execute", "run"} => req[w][s].pc \in {"execute", "run"}
  PROVE  GateInv'
<1>1. \A w \in Workers, s \in Slots, p \in Proposals : Runs(w, s, p)' => Runs(w, s, p)
  BY DEF Runs
<1>2. ExecutesConfirmed' /\ OneExecutor'
  BY <1>1 DEF GateInv, ExecutesConfirmed, OneExecutor
<1>3. NotYetApplied'
  BY DEF GateInv, NotYetApplied
<1>4. UnconfirmedHasNoEffect' /\ AtMostOnce'
  BY DEF GateInv, UnconfirmedHasNoEffect, AtMostOnce
<1>5. QED BY <1>2, <1>3, <1>4 DEF GateInv

THEOREM GateSafety == Spec => []GateInv
<1>1. Init => GateInv
  <2> SUFFICES ASSUME Init PROVE GateInv
    OBVIOUS
  <2>1. TypeInv
    BY GateAssumption, IdleIsFine DEF Init, TypeInv, TypeOK, ReqInv, Status
  <2>2. QED
    BY <2>1 DEF Init, GateInv, ExecutesConfirmed, OneExecutor, NotYetApplied,
                UnconfirmedHasNoEffect, AtMostOnce, Runs, Idle
<1>2. GateInv /\ TypeInv' /\ [Next]_vars => GateInv'
  <2> SUFFICES ASSUME GateInv, TypeInv', [Next]_vars PROVE GateInv'
    OBVIOUS
  <2>t. TypeOK /\ ReqInv /\ TypeOK' /\ ReqInv'
    BY DEF GateInv, TypeInv
  <2>0. CASE UNCHANGED vars
    BY <2>0, Harmless DEF vars
  <2>1. ASSUME NEW w \in Workers, NEW s \in Slots, NEW by \in Creators, NEW a \in Actions,
               NEW k \in Keys \cup {None}, Create(w, s, by, a, k)
        PROVE  GateInv'
    <3> DEFINE r == [Idle EXCEPT !.pc = "lookup", !.by = by, !.act = a, !.key = k]
    <3>1. r.pc \notin Executing
      BY DEF Idle, Executing
    <3>2. Becomes(w, s, r) /\ status' = status /\ effects' = effects
      BY <2>1, <2>t, SetBecomes DEF Create, Begin, rows
    <3>3. QED BY <3>1, <3>2, HarmlessStep
  <2>2. ASSUME NEW w \in Workers, NEW s \in Slots, NEW p \in Proposals,
               NEW g \in {"confirmed", "rejected"}, Decide(w, s, p, g) \/ Approve(w, s, p, g)
        PROVE  GateInv'
    <3>1. PICK c \in {"load", "token"}, b \in Deciders :
            req' = [req EXCEPT ![w][s] = [Idle EXCEPT !.pc = c, !.prop = p, !.by = b, !.goal = g]]
      BY <2>2 DEF Decide, Approve, Begin, Deciders
    <3> DEFINE r == [Idle EXCEPT !.pc = c, !.prop = p, !.by = b, !.goal = g]
    <3>2. r.pc \notin Executing
      BY DEF Idle, Executing
    <3>3. Becomes(w, s, r) /\ status' = status /\ effects' = effects
      BY <2>2, <2>t, <3>1, SetBecomes DEF Decide, Approve, Begin, rows
    <3>4. QED BY <3>2, <3>3, HarmlessStep
  <2>3. ASSUME NEW w \in Workers, NEW s \in Slots,
               Lookup(w, s) \/ InsertConflict(w, s) \/ SpendToken(w, s) \/ Load(w, s)
                 \/ Validate(w, s)
        PROVE  GateInv'
    <3>1. status' = status /\ effects' = effects
      BY <2>3 DEF Lookup, InsertConflict, SpendToken, Load, Validate, rows
    <3>2. \/ Finish(w, s)
          \/ \E c \in {"insert", "load", "validate", "cas"} : Goto(w, s, c)
          \/ Aim(w, s, "cas", "failed")
      BY <2>3 DEF Lookup, InsertConflict, SpendToken, Load, Validate
    <3>3. PICK r : Becomes(w, s, r) /\ r.pc \notin Executing
      BY <2>t, <3>2, FinishBecomes, GotoBecomes, GoalBecomes DEF PC, Executing
    <3>4. QED BY <3>1, <3>3, HarmlessStep
  <2>4. ASSUME NEW w \in Workers, NEW s \in Slots, NEW p \in Proposals, Insert(w, s, p)
        PROVE  GateInv'
    <3> DEFINE r1 == [Idle EXCEPT !.pc = "load", !.prop = p, !.by = "policy", !.goal = "confirmed"]
    <3>1. PICK r : Becomes(w, s, r) /\ r.pc \notin Executing
      <4>1. r1.pc \notin Executing /\ Idle.pc \notin Executing
        BY DEF Idle, Executing
      <4>2. Becomes(w, s, r1) \/ Becomes(w, s, Idle)
        BY <2>4, <2>t, SetBecomes, FinishBecomes DEF Insert
      <4>3. QED BY <4>1, <4>2
    <3>2. \A v \in Workers, t \in Slots, q \in Proposals : Runs(v, t, q)' => Runs(v, t, q)
      BY <3>1 DEF Becomes, Runs, Executing
    <3>3. status' = [status EXCEPT ![p] = "pending"] /\ status[p] = "absent" /\ effects' = effects
      BY <2>4 DEF Insert
    <3>4. ExecutesConfirmed'
      BY <2>t, <3>2, <3>3 DEF GateInv, ExecutesConfirmed, TypeOK
    <3>5. OneExecutor'
      BY <3>2 DEF GateInv, OneExecutor
    <3>6. NotYetApplied'
      BY <3>1, <3>3 DEF GateInv, NotYetApplied, Becomes, Executing
    <3>7. UnconfirmedHasNoEffect' /\ AtMostOnce'
      BY <2>t, <3>3 DEF GateInv, UnconfirmedHasNoEffect, AtMostOnce, TypeOK
    <3>8. QED BY <3>4, <3>5, <3>6, <3>7 DEF GateInv
  <2>5. ASSUME NEW w \in Workers, NEW s \in Slots, Cas(w, s) PROVE GateInv'
    <3>1. PICK p \in Proposals : p = req[w][s].prop
      BY <2>5, <2>t DEF Cas, At, ReqInv, Carries
    <3>2. req[w][s].goal \in {"confirmed", "rejected", "failed"} /\ effects' = effects
      BY <2>5, <2>t DEF Cas, At, ReqInv, Carries
    <3>3. CASE status[p] = "pending"
      <4>1. status' = [status EXCEPT ![p] = req[w][s].goal]
        BY <2>5, <3>1, <3>3 DEF Cas, Transition
      <4>2. effects[p] = 0 /\ \A v \in Workers, t \in Slots : ~Runs(v, t, p)
        BY <3>1, <3>3 DEF GateInv, UnconfirmedHasNoEffect, ExecutesConfirmed
      <4>3. PICK r : /\ Becomes(w, s, r)
                     /\ r.pc \in Executing => /\ r.prop = p
                                              /\ req[w][s].goal = "confirmed"
        BY <2>5, <2>t, <3>1, <3>3, FinishBecomes, GotoBecomes DEF Cas, Won, PC
      <4>4. \A v \in Workers, t \in Slots, q \in Proposals :
              Runs(v, t, q)' => \/ Runs(v, t, q) /\ q # p
                                \/ v = w /\ t = s /\ q = p /\ req[w][s].goal = "confirmed"
        BY <4>2, <4>3 DEF Becomes, Runs, Executing
      <4>5. ExecutesConfirmed'
        BY <4>1, <4>4, <2>t DEF GateInv, ExecutesConfirmed, TypeOK
      <4>6. OneExecutor'
        BY <4>4 DEF GateInv, OneExecutor
      <4>7. NotYetApplied'
        BY <4>2, <4>3, <3>2 DEF GateInv, NotYetApplied, Becomes, Executing
      <4>8. UnconfirmedHasNoEffect' /\ AtMostOnce'
        BY <4>1, <4>2, <3>2, <2>t DEF GateInv, UnconfirmedHasNoEffect, AtMostOnce, TypeOK
      <4>9. QED BY <4>5, <4>6, <4>7, <4>8 DEF GateInv
    <3>4. CASE status[p] # "pending"
      <4>1. status' = status /\ Finish(w, s)
        BY <2>5, <3>1, <3>4 DEF Cas, Won, Transition
      <4>2. QED BY <4>1, <3>2, <2>t, FinishBecomes, HarmlessStep
    <3>5. QED BY <3>3, <3>4
  <2>6. ASSUME NEW w \in Workers, NEW s \in Slots, Execute(w, s) \/ HandlerRaise(w, s)
        PROVE  GateInv'
    <3>1. status' = status /\ effects' = effects /\ req[w][s].pc \in {"execute", "run"}
      BY <2>6 DEF Execute, HandlerRaise, At, rows
    <3>2. \/ Finish(w, s) \/ Goto(w, s, "run")
          \/ Aim(w, s, "record", "failed")
      BY <2>6 DEF Execute, HandlerRaise
    <3>3. PICK r : /\ Becomes(w, s, r)
                   /\ r.pc \in Executing => r.prop = req[w][s].prop
      BY <2>t, <3>2, FinishBecomes, GotoBecomes, GoalBecomes DEF PC
    <3>4. QED BY <3>1, <3>3, HarmlessStep DEF Executing
  <2>7. ASSUME NEW w \in Workers, NEW s \in Slots, NEW g \in {"executed", "failed"},
               HandlerReturn(w, s, g)
        PROVE  GateInv'
    <3>1. /\ status' = status /\ effects' = effects /\ req[w][s].pc = "applied"
          /\ Aim(w, s, "record", g)
      BY <2>7 DEF HandlerReturn, At, rows
    <3>2. "record" \in PC /\ g \in {"confirmed", "rejected", "executed", "failed"}
      BY DEF PC
    <3>3. PICK r : Becomes(w, s, r) /\ r.pc = "record" /\ r.prop = req[w][s].prop
      BY <2>t, <3>1, <3>2, GoalBecomes
    <3>4. QED BY <3>1, <3>3, HarmlessStep DEF Executing
  <2>8. ASSUME NEW w \in Workers, NEW s \in Slots, HandlerApply(w, s) PROVE GateInv'
    <3>1. PICK p \in Proposals : p = req[w][s].prop
      BY <2>8, <2>t DEF HandlerApply, At, ReqInv, Carries
    <3>2. Runs(w, s, p) /\ effects[p] = 0
      BY <2>8, <3>1 DEF HandlerApply, At, Runs, GateInv, NotYetApplied
    <3>3. status' = status /\ effects' = [effects EXCEPT ![p] = 1]
      BY <2>8, <3>1, <3>2, <2>t DEF HandlerApply, rows, TypeOK
    <3>4. PICK r : Becomes(w, s, r) /\ r.pc = "applied" /\ r.prop = p
      BY <2>8, <2>t, <3>1, GotoBecomes DEF HandlerApply, PC
    <3>5. \A v \in Workers, t \in Slots, q \in Proposals : Runs(v, t, q)' => Runs(v, t, q)
      BY <3>2, <3>4 DEF Becomes, Runs
    <3>6. ExecutesConfirmed' /\ OneExecutor'
      BY <3>3, <3>5 DEF GateInv, ExecutesConfirmed, OneExecutor
    <3>7. NotYetApplied'
      <4> SUFFICES ASSUME NEW v \in Workers, NEW t \in Slots, req'[v][t].pc \in {"execute", "run"}
                   PROVE  effects'[req'[v][t].prop] = 0
        BY DEF NotYetApplied
      <4>1. req'[v][t] = req[v][t] /\ ~(v = w /\ t = s)
        BY <3>4 DEF Becomes
      <4>2. req[v][t].prop \in Proposals /\ req[v][t].prop # p
        BY <4>1, <3>2, <2>t DEF GateInv, OneExecutor, Runs, ReqInv, Carries
      <4>3. QED BY <4>1, <4>2, <3>3, <2>t DEF GateInv, NotYetApplied, TypeOK
    <3>8. UnconfirmedHasNoEffect' /\ AtMostOnce'
      BY <3>2, <3>3, <2>t DEF GateInv, UnconfirmedHasNoEffect, ExecutesConfirmed, AtMostOnce, TypeOK
    <3>9. QED BY <3>6, <3>7, <3>8 DEF GateInv
  <2>9. ASSUME NEW w \in Workers, NEW s \in Slots, Record(w, s) PROVE GateInv'
    <3>1. PICK p \in Proposals : p = req[w][s].prop
      BY <2>9, <2>t DEF Record, At, ReqInv, Carries
    <3>2. Runs(w, s, p) /\ req[w][s].goal \in {"executed", "failed"}
      BY <2>9, <3>1, <2>t DEF Record, At, ReqInv, Carries, Runs
    <3>3. Becomes(w, s, Idle) /\ effects' = effects
          /\ status' = [status EXCEPT ![p] = req[w][s].goal]
      BY <2>9, <3>1, <2>t, FinishBecomes DEF Record
    <3>4. \A v \in Workers, t \in Slots, q \in Proposals : Runs(v, t, q)' => Runs(v, t, q) /\ q # p
      BY <3>2, <3>3 DEF GateInv, OneExecutor, Runs, Becomes, Idle
    <3>5. ExecutesConfirmed'
      BY <3>3, <3>4, <2>t DEF GateInv, ExecutesConfirmed, TypeOK
    <3>6. OneExecutor'
      BY <3>4 DEF GateInv, OneExecutor
    <3>7. NotYetApplied'
      BY <3>3 DEF GateInv, NotYetApplied, Becomes, Idle
    <3>8. UnconfirmedHasNoEffect' /\ AtMostOnce'
      BY <3>2, <3>3, <2>t DEF GateInv, UnconfirmedHasNoEffect, AtMostOnce, TypeOK
    <3>9. QED BY <3>5, <3>6, <3>7, <3>8 DEF GateInv
  <2>10. ASSUME NEW w \in Workers, Boot(w) \/ Serve(w) PROVE GateInv'
    BY <2>10, Harmless DEF Boot, Serve, rows
  <2>11. ASSUME NEW w \in Workers, Crash(w) PROVE GateInv'
    BY <2>11, <2>t, Harmless DEF Crash, rows, Idle, TypeOK
  <2>12. ASSUME NEW w \in Workers, NEW p \in Proposals, ReconcileOne(w, p) \/ SweepOne(w, p)
         PROVE  GateInv'
    <3>1. req' = req /\ effects' = effects
      BY <2>12 DEF ReconcileOne, SweepOne
    <3>2. \A v \in Workers, t \in Slots, q \in Proposals : Runs(v, t, q)' <=> Runs(v, t, q)
      BY <3>1 DEF Runs
    <3>3. \/ status' = status
          \/ status[p] = "confirmed" /\ status' = [status EXCEPT ![p] = "failed"]
          \/ status[p] = "pending" /\ status' = [status EXCEPT ![p] = "expired"]
      BY <2>12 DEF ReconcileOne, SweepOne, Transition
    <3>4. ExecutesConfirmed'
      BY <3>2, <3>3, <2>t DEF GateInv, ExecutesConfirmed, TypeOK
    <3>5. OneExecutor'
      BY <3>2 DEF GateInv, OneExecutor
    <3>6. NotYetApplied' /\ AtMostOnce'
      BY <3>1 DEF GateInv, NotYetApplied, AtMostOnce
    <3>7. UnconfirmedHasNoEffect'
      BY <3>1, <3>3, <2>t DEF GateInv, UnconfirmedHasNoEffect, TypeOK
    <3>8. QED BY <3>4, <3>5, <3>6, <3>7 DEF GateInv
  <2>13. ASSUME NEW w \in Workers, NEW S \in SUBSET Proposals, SweepScan(w, S) PROVE GateInv'
    BY <2>13, Harmless DEF SweepScan, rows
  <2>14. QED
    BY <2>0, <2>1, <2>2, <2>3, <2>4, <2>5, <2>6, <2>7, <2>8, <2>9, <2>10, <2>11, <2>12,
       <2>13, NextCases
<1>3. QED
  BY <1>1, <1>2, TypeInvariance, PTL DEF Spec

\* Whatever the number of workers, a confirmed action is applied at most once.
THEOREM AtMostOnceHolds == Spec => []AtMostOnce
BY GateSafety, PTL DEF GateInv

\* A proposal that is open, rejected or expired has had no effect.
THEOREM RefusedNeverRunsHolds == Spec => []RefusedNeverRuns
<1>1. GateInv => RefusedNeverRuns
  BY DEF GateInv, UnconfirmedHasNoEffect, RefusedNeverRuns
<1>2. QED BY <1>1, GateSafety, PTL

(***************************************************************************)
(* One worker.  While it is starting it has nothing in flight, so what it  *)
(* reconciles is run by nobody: an executed proposal stays "confirmed"     *)
(* until its executor records the outcome.  With a second worker this is   *)
(* false, which a run shows.                                               *)
(***************************************************************************)
OneWorker == \A v, w \in Workers : v = w

QuietUnlessUp ==
  /\ \A w \in Workers, s \in Slots : up[w] # "up" => req[w][s].pc = "idle"
  /\ \A w \in Workers : stranded[w] # {} => up[w] = "starting"

ExecutorHoldsConfirmed ==
  \A w \in Workers, s \in Slots, p \in Proposals : Runs(w, s, p) => status[p] = "confirmed"

SoloInv == GateInv /\ QuietUnlessUp /\ ExecutorHoldsConfirmed

\* What a step does to the statuses, and who does it.
StatusStep ==
  \/ status' = status
  \/ \E p \in Proposals :
       \/ status[p] = "absent" /\ status' = [status EXCEPT ![p] = "pending"]
       \/ \E st \in {"confirmed", "rejected", "failed", "expired"} :
            status[p] = "pending" /\ status' = [status EXCEPT ![p] = st]
       \/ /\ status[p] = "confirmed"
          /\ status' = [status EXCEPT ![p] = "failed"]
          /\ \E w \in Workers : p \in stranded[w]
          /\ req' = req
       \/ \E w \in Workers, s \in Slots, g \in {"executed", "failed"} :
            /\ Runs(w, s, p)
            /\ status' = [status EXCEPT ![p] = g]
            /\ Becomes(w, s, Idle)

\* A proposal somebody starts to execute has just been confirmed.
NewExecutor ==
  \A w \in Workers, s \in Slots, p \in Proposals :
    Runs(w, s, p)' => \/ Runs(w, s, p)
                      \/ status[p] = "pending" /\ status'[p] = "confirmed"

\* A request step that leaves the statuses alone.
LEMMA PlainStep ==
  ASSUME status' = status, NEW w \in Workers, NEW s \in Slots, NEW r, Becomes(w, s, r),
         r.pc \in Executing => req[w][s].pc \in Executing /\ req[w][s].prop = r.prop
  PROVE  StatusStep /\ NewExecutor
BY DEF StatusStep, NewExecutor, Runs, Becomes, Executing

LEMMA StepSummary ==
  ASSUME TypeInv, [Next]_vars
  PROVE  StatusStep /\ NewExecutor
<1>t. TypeOK /\ ReqInv
  BY DEF TypeInv
<1>0. CASE UNCHANGED vars
  BY <1>0 DEF vars, StatusStep, NewExecutor, Runs
<1>1. ASSUME NEW w \in Workers, NEW s \in Slots, NEW by \in Creators, NEW a \in Actions,
             NEW k \in Keys \cup {None}, Create(w, s, by, a, k)
      PROVE  StatusStep /\ NewExecutor
  <2> DEFINE r == [Idle EXCEPT !.pc = "lookup", !.by = by, !.act = a, !.key = k]
  <2>1. r.pc \notin Executing
    BY DEF Idle, Executing
  <2>2. Becomes(w, s, r) /\ status' = status
    BY <1>1, <1>t, SetBecomes DEF Create, Begin, rows
  <2>3. QED BY <2>1, <2>2, PlainStep
<1>2. ASSUME NEW w \in Workers, NEW s \in Slots, NEW p \in Proposals,
             NEW g \in {"confirmed", "rejected"}, Decide(w, s, p, g) \/ Approve(w, s, p, g)
      PROVE  StatusStep /\ NewExecutor
  <2>1. PICK c \in {"load", "token"}, b \in Deciders :
          req' = [req EXCEPT ![w][s] = [Idle EXCEPT !.pc = c, !.prop = p, !.by = b, !.goal = g]]
    BY <1>2 DEF Decide, Approve, Begin, Deciders
  <2> DEFINE r == [Idle EXCEPT !.pc = c, !.prop = p, !.by = b, !.goal = g]
  <2>2. r.pc \notin Executing
    BY DEF Idle, Executing
  <2>3. Becomes(w, s, r) /\ status' = status
    BY <1>2, <1>t, <2>1, SetBecomes DEF Decide, Approve, Begin, rows
  <2>4. QED BY <2>2, <2>3, PlainStep
<1>3. ASSUME NEW w \in Workers, NEW s \in Slots,
             Lookup(w, s) \/ InsertConflict(w, s) \/ SpendToken(w, s) \/ Load(w, s)
               \/ Validate(w, s)
      PROVE  StatusStep /\ NewExecutor
  <2>1. status' = status
    BY <1>3 DEF Lookup, InsertConflict, SpendToken, Load, Validate, rows
  <2>2. \/ Finish(w, s)
        \/ \E c \in {"insert", "load", "validate", "cas"} : Goto(w, s, c)
        \/ Aim(w, s, "cas", "failed")
    BY <1>3 DEF Lookup, InsertConflict, SpendToken, Load, Validate
  <2>3. PICK r : Becomes(w, s, r) /\ r.pc \notin Executing
    BY <1>t, <2>2, FinishBecomes, GotoBecomes, GoalBecomes DEF PC, Executing
  <2>4. QED BY <2>1, <2>3, PlainStep
<1>4. ASSUME NEW w \in Workers, NEW s \in Slots, NEW p \in Proposals, Insert(w, s, p)
      PROVE  StatusStep /\ NewExecutor
  <2> DEFINE r1 == [Idle EXCEPT !.pc = "load", !.prop = p, !.by = "policy", !.goal = "confirmed"]
  <2>1. r1.pc \notin Executing /\ Idle.pc \notin Executing
    BY DEF Idle, Executing
  <2>2. Becomes(w, s, r1) \/ Becomes(w, s, Idle)
    BY <1>4, <1>t, SetBecomes, FinishBecomes DEF Insert
  <2>3. NewExecutor
    BY <2>1, <2>2 DEF NewExecutor, Runs, Becomes, Executing
  <2>4. QED BY <1>4, <2>3 DEF Insert, StatusStep
<1>5. ASSUME NEW w \in Workers, NEW s \in Slots, Cas(w, s) PROVE StatusStep /\ NewExecutor
  <2>1. PICK p \in Proposals : p = req[w][s].prop
    BY <1>5, <1>t DEF Cas, At, ReqInv, Carries
  <2>2. req[w][s].goal \in {"confirmed", "rejected", "failed"}
    BY <1>5, <1>t DEF Cas, At, ReqInv, Carries
  <2>3. CASE status[p] = "pending"
    <3>1. status' = [status EXCEPT ![p] = req[w][s].goal]
      BY <1>5, <2>1, <2>3 DEF Cas, Transition
    <3>2. PICK r : /\ Becomes(w, s, r)
                   /\ r.pc \in Executing => r.prop = p /\ req[w][s].goal = "confirmed"
      BY <1>5, <1>t, <2>1, <2>3, FinishBecomes, GotoBecomes DEF Cas, Won, PC
    <3>3. NewExecutor
      BY <1>t, <2>3, <3>1, <3>2 DEF NewExecutor, Runs, Becomes, Executing, TypeOK
    <3>4. QED BY <2>2, <2>3, <3>1, <3>3 DEF StatusStep
  <2>4. CASE status[p] # "pending"
    <3>1. status' = status /\ Finish(w, s)
      BY <1>5, <2>1, <2>4 DEF Cas, Won, Transition
    <3>2. QED BY <1>t, <3>1, FinishBecomes, PlainStep
  <2>5. QED BY <2>3, <2>4
<1>6. ASSUME NEW w \in Workers, NEW s \in Slots,
             Execute(w, s) \/ HandlerApply(w, s) \/ HandlerRaise(w, s)
               \/ \E g \in {"executed", "failed"} : HandlerReturn(w, s, g)
      PROVE  StatusStep /\ NewExecutor
  <2>1. status' = status /\ req[w][s].pc \in Executing
    BY <1>6 DEF Execute, HandlerApply, HandlerRaise, HandlerReturn, At, rows, Executing
  <2>2. \/ Finish(w, s) \/ Goto(w, s, "run") \/ Goto(w, s, "applied")
        \/ \E g \in {"confirmed", "rejected", "executed", "failed"} : Aim(w, s, "record", g)
    BY <1>6 DEF Execute, HandlerApply, HandlerRaise, HandlerReturn
  <2>3. PICK r : /\ Becomes(w, s, r)
                 /\ r.pc \in Executing => r.prop = req[w][s].prop
    BY <1>t, <2>2, FinishBecomes, GotoBecomes, GoalBecomes DEF PC
  <2>4. QED BY <2>1, <2>3, PlainStep
<1>7. ASSUME NEW w \in Workers, NEW s \in Slots, Record(w, s) PROVE StatusStep /\ NewExecutor
  <2>1. PICK p \in Proposals : p = req[w][s].prop
    BY <1>7, <1>t DEF Record, At, ReqInv, Carries
  <2>2. Runs(w, s, p) /\ req[w][s].goal \in {"executed", "failed"}
    BY <1>7, <2>1, <1>t DEF Record, At, ReqInv, Carries, Runs
  <2>3. Becomes(w, s, Idle) /\ Idle.pc \notin Executing
        /\ status' = [status EXCEPT ![p] = req[w][s].goal]
    BY <1>7, <2>1, <1>t, FinishBecomes DEF Record
  <2>4. NewExecutor
    BY <2>3 DEF NewExecutor, Runs, Becomes, Executing
  <2>5. QED BY <2>2, <2>3, <2>4 DEF StatusStep
<1>8. ASSUME NEW w \in Workers, Boot(w) \/ Serve(w) \/ \E S \in SUBSET Proposals : SweepScan(w, S)
      PROVE  StatusStep /\ NewExecutor
  BY <1>8 DEF Boot, Serve, SweepScan, rows, StatusStep, NewExecutor, Runs
<1>9. ASSUME NEW w \in Workers, Crash(w) PROVE StatusStep /\ NewExecutor
  <2>1. status' = status
    BY <1>9 DEF Crash, rows
  <2>2. \A v \in Workers, t \in Slots : req'[v][t] = req[v][t] \/ req'[v][t] = Idle
    BY <1>9, <1>t DEF Crash, TypeOK
  <2>3. QED BY <2>1, <2>2 DEF StatusStep, NewExecutor, Runs, Idle
<1>10. ASSUME NEW w \in Workers, NEW p \in Proposals, ReconcileOne(w, p) \/ SweepOne(w, p)
       PROVE  StatusStep /\ NewExecutor
  <2>1. NewExecutor
    BY <1>10 DEF ReconcileOne, SweepOne, NewExecutor, Runs
  <2>2. StatusStep
    BY <1>10 DEF ReconcileOne, SweepOne, Transition, StatusStep
  <2>3. QED BY <2>1, <2>2
<1>11. QED
  BY <1>0, <1>1, <1>2, <1>3, <1>4, <1>5, <1>6, <1>7, <1>8, <1>9, <1>10, NextCases

\* A request is only ever in flight in a worker that serves.
LEMMA QuietStep ==
  ASSUME TypeInv, QuietUnlessUp, [Next]_vars
  PROVE  QuietUnlessUp'
<1>t. TypeOK /\ ReqInv
  BY DEF TypeInv
<1>0. CASE UNCHANGED vars
  BY <1>0 DEF vars, QuietUnlessUp
<1>1. ASSUME NEW w \in Workers, NEW s \in Slots, up[w] = "up", up' = up, stranded' = stranded,
             NEW r, req' = [req EXCEPT ![w][s] = r]
      PROVE  QuietUnlessUp'
  BY <1>1, <1>t, SetBecomes DEF QuietUnlessUp, Becomes
<1>2. ASSUME NEW w \in Workers, NEW s \in Slots, req[w][s].pc # "idle", up' = up,
             stranded' = stranded,
             \/ Finish(w, s) \/ \E c \in PC : Goto(w, s, c)
             \/ \E c \in PC, g \in {"confirmed", "rejected", "executed", "failed"} : Aim(w, s, c, g)
             \/ \E r : req' = [req EXCEPT ![w][s] = r]
      PROVE  QuietUnlessUp'
  <2>1. up[w] = "up"
    BY <1>2 DEF QuietUnlessUp
  <2>2. \E r : Becomes(w, s, r)
    BY <1>2, <1>t, SetBecomes, FinishBecomes, GotoBecomes, GoalBecomes
  <2>3. QED BY <1>2, <2>1, <2>2 DEF QuietUnlessUp, Becomes
<1>3. ASSUME NEW w \in Workers, NEW s \in Slots,
             \/ \E by \in Creators, a \in Actions, k \in Keys \cup {None} : Create(w, s, by, a, k)
             \/ \E p \in Proposals, g \in {"confirmed", "rejected"} :
                  Decide(w, s, p, g) \/ Approve(w, s, p, g)
      PROVE  QuietUnlessUp'
  BY <1>1, <1>3 DEF Create, Decide, Approve, Begin, procs
<1>4. ASSUME NEW w \in Workers, NEW s \in Slots,
             \/ Lookup(w, s) \/ InsertConflict(w, s) \/ SpendToken(w, s) \/ Load(w, s)
             \/ Validate(w, s) \/ Cas(w, s)
      PROVE  QuietUnlessUp'
  BY <1>2, <1>4 DEF Lookup, InsertConflict, SpendToken, Load, Validate, Cas, At, procs, PC
<1>5. ASSUME NEW w \in Workers, NEW s \in Slots,
             \/ Execute(w, s) \/ HandlerApply(w, s) \/ HandlerRaise(w, s)
             \/ \E g \in {"executed", "failed"} : HandlerReturn(w, s, g)
             \/ Record(w, s)
      PROVE  QuietUnlessUp'
  <2>1. Aim(w, s, "record", "executed") \/ Aim(w, s, "record", "failed")
        \/ Finish(w, s) \/ Goto(w, s, "run") \/ Goto(w, s, "applied")
    BY <1>5 DEF Execute, HandlerApply, HandlerRaise, HandlerReturn, Record
  <2>2. req[w][s].pc # "idle" /\ up' = up /\ stranded' = stranded
    BY <1>5 DEF Execute, HandlerApply, HandlerRaise, HandlerReturn, Record, At, procs
  <2>3. QED BY <1>2, <2>1, <2>2 DEF PC
<1>6. ASSUME NEW w \in Workers, NEW s \in Slots, NEW p \in Proposals, Insert(w, s, p)
      PROVE  QuietUnlessUp'
  BY <1>2, <1>6 DEF Insert, At, procs, Finish
<1>7. ASSUME NEW w \in Workers, Boot(w) \/ Serve(w) \/ Crash(w)
      PROVE  QuietUnlessUp'
  <2>1. CASE Boot(w)
    BY <2>1, <1>t DEF Boot, QuietUnlessUp, TypeOK
  <2>2. CASE Serve(w)
    BY <2>2, <1>t DEF Serve, QuietUnlessUp, TypeOK
  <2>3. CASE Crash(w)
    <3>1. \A v \in Workers : /\ up'[v] = IF v = w THEN "down" ELSE up[v]
                             /\ stranded'[v] = IF v = w THEN {} ELSE stranded[v]
      BY <2>3, <1>t DEF Crash, TypeOK
    <3>2. \A v \in Workers, t \in Slots : req'[v][t] = IF v = w THEN Idle ELSE req[v][t]
      BY <2>3, <1>t DEF Crash, TypeOK
    <3>3. QED BY <3>1, <3>2 DEF QuietUnlessUp, Idle
  <2>4. QED BY <1>7, <2>1, <2>2, <2>3
<1>8. ASSUME NEW w \in Workers, NEW p \in Proposals, ReconcileOne(w, p) \/ SweepOne(w, p)
      PROVE  QuietUnlessUp'
  BY <1>8, <1>t DEF ReconcileOne, SweepOne, QuietUnlessUp, TypeOK
<1>9. ASSUME NEW w \in Workers, NEW S \in SUBSET Proposals, SweepScan(w, S)
      PROVE  QuietUnlessUp'
  BY <1>9 DEF SweepScan, QuietUnlessUp
<1>10. QED
  BY <1>0, <1>3, <1>4, <1>5, <1>6, <1>7, <1>8, <1>9, NextCases

\* With one worker nothing is reconciled under the feet of its executor.
THEOREM SoloInvariance == ASSUME OneWorker PROVE Spec => []SoloInv
<1>1. Init => QuietUnlessUp /\ ExecutorHoldsConfirmed
  BY DEF Init, QuietUnlessUp, ExecutorHoldsConfirmed, Runs, Idle
<1>2. SoloInv /\ GateInv' /\ [Next]_vars => SoloInv'
  <2> SUFFICES ASSUME SoloInv, GateInv', [Next]_vars PROVE SoloInv'
    OBVIOUS
  <2>1. TypeInv /\ TypeOK /\ OneExecutor /\ QuietUnlessUp /\ ExecutorHoldsConfirmed
    BY DEF SoloInv, GateInv, TypeInv
  <2>2. QuietUnlessUp'
    BY <2>1, QuietStep
  <2>3. StatusStep /\ NewExecutor
    BY <2>1, StepSummary
  <2>4. ExecutorHoldsConfirmed'
    <3> SUFFICES ASSUME NEW w \in Workers, NEW s \in Slots, NEW p \in Proposals, Runs(w, s, p)'
                 PROVE  status'[p] = "confirmed"
      BY DEF ExecutorHoldsConfirmed
    <3>1. CASE ~Runs(w, s, p)
      BY <2>3, <3>1 DEF NewExecutor
    <3>2. CASE Runs(w, s, p)
      <4>1. status[p] = "confirmed"
        BY <2>1, <3>2 DEF ExecutorHoldsConfirmed
      <4>2. \A v \in Workers : p \in stranded[v] => FALSE
        BY <2>1, <3>2, OneWorker DEF QuietUnlessUp, Runs, OneWorker
      <4>3. \A v \in Workers, t \in Slots : Runs(v, t, p) /\ Becomes(v, t, Idle) => FALSE
        BY <2>1, <3>2 DEF OneExecutor, Becomes, Runs, Idle
      <4>4. QED BY <2>1, <2>3, <4>1, <4>2, <4>3 DEF StatusStep, TypeOK
    <3>3. QED BY <3>1, <3>2
  <2>5. QED BY <2>2, <2>4 DEF SoloInv
<1>3. QED
  BY <1>1, <1>2, GateSafety, PTL DEF Spec, SoloInv

\* With one worker a settled proposal is executed by nobody.
THEOREM SettledIsIdleHolds == ASSUME OneWorker PROVE Spec => []SettledIsIdle
<1>1. SoloInv => SettledIsIdle
  BY DEF SoloInv, ExecutorHoldsConfirmed, SettledIsIdle, Terminal
<1>2. QED BY <1>1, SoloInvariance, PTL

\* With one worker a terminal status is never written over.
THEOREM TerminalIsFinalHolds == ASSUME OneWorker PROVE Spec => TerminalIsFinal
<1>1. SoloInv /\ [Next]_vars => \A p \in Proposals : status[p] \in Terminal => status'[p] = status[p]
  <2> SUFFICES ASSUME SoloInv, [Next]_vars, NEW p \in Proposals, status[p] \in Terminal
               PROVE  status'[p] = status[p]
    OBVIOUS
  <2>1. StatusStep /\ TypeOK
    BY StepSummary DEF SoloInv, GateInv, TypeInv
  <2>2. status[p] \notin {"absent", "pending", "confirmed"}
        /\ \A w \in Workers, s \in Slots : ~Runs(w, s, p)
    BY DEF Terminal, SoloInv, ExecutorHoldsConfirmed
  <2>3. QED BY <2>1, <2>2 DEF StatusStep, TypeOK
<1>2. QED
  BY <1>1, SoloInvariance, PTL DEF Spec, TerminalIsFinal

(***************************************************************************)
(* The contract.  Whoever applies an action executes a confirmed proposal  *)
(* whose action has not been applied; every status step is a step of the   *)
(* contract.                                                               *)
(***************************************************************************)
stageBar == [p \in Proposals |-> Stage(status[p])]

\* A step applies at most one action, and its executor is known.
EffectStep ==
  \/ effects' = effects
  \/ \E w \in Workers, s \in Slots, p \in Proposals :
       /\ Runs(w, s, p)
       /\ req[w][s].pc = "run"
       /\ effects' = [effects EXCEPT ![p] = @ + 1]
       /\ status' = status

LEMMA EffectSummary ==
  ASSUME TypeInv, [Next]_vars
  PROVE  EffectStep
<1>1. CASE UNCHANGED vars
  BY <1>1 DEF vars, EffectStep
<1>2. ASSUME NEW w \in Workers, NEW s \in Slots, HandlerApply(w, s) PROVE EffectStep
  BY <1>2 DEF TypeInv, ReqInv, Carries, HandlerApply, At, Runs, rows, EffectStep
<1>3. ASSUME NEW w \in Workers, NEW s \in Slots,
             \/ \E by \in Creators, a \in Actions, k \in Keys \cup {None} : Create(w, s, by, a, k)
             \/ \E p \in Proposals, g \in {"confirmed", "rejected"} :
                  Decide(w, s, p, g) \/ Approve(w, s, p, g)
             \/ Lookup(w, s) \/ InsertConflict(w, s) \/ \E p \in Proposals : Insert(w, s, p)
             \/ SpendToken(w, s) \/ Load(w, s) \/ Validate(w, s) \/ Cas(w, s)
             \/ Execute(w, s) \/ HandlerRaise(w, s) \/ Record(w, s)
             \/ \E g \in {"executed", "failed"} : HandlerReturn(w, s, g)
      PROVE  effects' = effects
  BY <1>3 DEF Create, Decide, Approve, Begin, Lookup, InsertConflict, Insert, SpendToken, Load,
              Validate, Cas, Execute, HandlerRaise, Record, HandlerReturn
<1>4. ASSUME NEW w \in Workers,
             \/ Boot(w) \/ Serve(w) \/ Crash(w)
             \/ \E p \in Proposals : ReconcileOne(w, p) \/ SweepOne(w, p)
             \/ \E S \in SUBSET Proposals : SweepScan(w, S)
      PROVE  effects' = effects
  BY <1>4 DEF Boot, Serve, Crash, ReconcileOne, SweepOne, SweepScan
<1>5. QED
  BY <1>1, <1>2, <1>3, <1>4, NextCases DEF EffectStep

\* Changing the status of p changes the stage of p and of nothing else.
LEMMA StageStep ==
  ASSUME TypeOK, NEW p \in Proposals, NEW st \in Status, status' = [status EXCEPT ![p] = st]
  PROVE  stageBar' = [stageBar EXCEPT ![p] = Stage(st)]
BY DEF TypeOK, stageBar

\* With one worker the gate implements its contract.
THEOREM ContractHolds == ASSUME OneWorker PROVE Spec => ImplementsContract
<1>1. Init => Contract!Init
  BY DEF Init, Contract!Init, Stage
<1>2. SoloInv /\ [Next]_vars => [Contract!Next]_(Contract!vars)
  <2> SUFFICES ASSUME SoloInv, [Next]_vars PROVE [Contract!Next]_(Contract!vars)
    OBVIOUS
  <2>0. TypeInv /\ TypeOK /\ ExecutorHoldsConfirmed /\ NotYetApplied
    BY DEF SoloInv, GateInv, TypeInv
  <2>1. StatusStep /\ EffectStep
    BY <2>0, StepSummary, EffectSummary
  <2>2. CASE effects' # effects
    <3>1. PICK w \in Workers, s \in Slots, p \in Proposals :
             /\ Runs(w, s, p) /\ req[w][s].pc = "run"
             /\ effects' = [effects EXCEPT ![p] = @ + 1] /\ status' = status
      BY <2>1, <2>2 DEF EffectStep
    <3>2. effects[p] = 0 /\ status[p] = "confirmed"
      BY <2>0, <3>1 DEF NotYetApplied, ExecutorHoldsConfirmed, Runs
    <3>3. effects' = [effects EXCEPT ![p] = 1]
      BY <2>0, <3>1, <3>2 DEF TypeOK
    <3>4. Contract!TakeEffect(p)
      BY <3>1, <3>2, <3>3 DEF Contract!TakeEffect, Stage
    <3>5. QED BY <3>4 DEF Contract!Next
  <2>3. CASE effects' = effects /\ status' = status
    BY <2>3 DEF Contract!vars
  <2>4. CASE effects' = effects /\ status' # status
    <3>1. PICK p \in Proposals, st \in Status :
             /\ status' = [status EXCEPT ![p] = st]
             /\ \/ status[p] = "absent" /\ st = "pending"
                \/ status[p] = "pending" /\ st \in {"confirmed", "rejected", "failed", "expired"}
                \/ status[p] = "confirmed" /\ st \in {"executed", "failed"}
      BY <2>0, <2>1, <2>4 DEF StatusStep, Status, Terminal, ExecutorHoldsConfirmed
    <3>2. stageBar' = [stageBar EXCEPT ![p] = Stage(st)] /\ stageBar[p] = Stage(status[p])
      BY <2>0, <3>1, StageStep DEF stageBar
    <3>3. \/ Stage(status[p]) = "none" /\ Stage(st) = "open"
          \/ Stage(status[p]) = "open" /\ Stage(st) \in {"approved", "closed"}
          \/ Stage(status[p]) = "approved" /\ Stage(st) = "closed"
      BY <3>1 DEF Stage
    <3>4. Contract!Propose(p) \/ Contract!Refuse(p) \/ Contract!Approve(p) \/ Contract!Settle(p)
      BY <2>4, <3>2, <3>3
         DEF Contract!Propose, Contract!Refuse, Contract!Approve, Contract!Settle, Contract!Move, stageBar
    <3>5. QED BY <3>4 DEF Contract!Next
  <2>5. QED BY <2>2, <2>3, <2>4
<1>3. QED
  BY <1>1, <1>2, SoloInvariance, PTL DEF Spec, ImplementsContract, Contract!Spec

(***************************************************************************)
(* The human gate.  The policy only ever holds, and so only ever decides,  *)
(* proposals of types the operator left off the list; what has an effect   *)
(* has been decided by somebody.                                           *)
(***************************************************************************)
PolicyHolds ==
  \A w \in Workers, s \in Slots : req[w][s].by = "policy" =>
    /\ req[w][s].prop \in Proposals
    /\ status[req[w][s].prop] # "absent"
    /\ action[req[w][s].prop] \notin RequireApproval

PolicyDecides ==
  \A p \in Proposals : decider[p] = "policy" =>
    status[p] # "absent" /\ action[p] \notin RequireApproval

EffectDecided ==
  /\ \A w \in Workers, s \in Slots, p \in Proposals : Runs(w, s, p) => decider[p] \in Deciders
  /\ \A p \in Proposals : effects[p] > 0 => decider[p] \in Deciders

PolicyInv == PolicyHolds /\ PolicyDecides /\ EffectDecided

LEMMA NoneIsNobody == None # "policy"
BY GateAssumption DEF Deciders

\* A request step that writes neither column and takes nothing on.
LEMMA PolicyPlainStep ==
  ASSUME TypeInv, PolicyInv, StatusStep, action' = action, decider' = decider,
         \A p \in Proposals : effects'[p] > 0 => effects[p] > 0 \/ decider[p] \in Deciders,
         NEW w \in Workers, NEW s \in Slots, NEW r, Becomes(w, s, r),
         r.by = "policy" => req[w][s].by = "policy" /\ req[w][s].prop = r.prop,
         r.pc \in Executing => req[w][s].pc \in Executing /\ req[w][s].prop = r.prop
  PROVE  PolicyInv'
<1>1. \A p \in Proposals : status[p] # "absent" => status'[p] # "absent"
  BY DEF StatusStep, TypeInv, TypeOK
<1>2. PolicyHolds'
  BY <1>1 DEF PolicyInv, PolicyHolds, Becomes
<1>3. PolicyDecides'
  BY <1>1 DEF PolicyInv, PolicyDecides
<1>4. EffectDecided'
  BY DEF PolicyInv, EffectDecided, Becomes, Runs, Executing
<1>5. QED BY <1>2, <1>3, <1>4 DEF PolicyInv

THEOREM PolicyInvariance == Spec => []PolicyInv
<1>1. Init => PolicyInv
  BY NoneIsNobody DEF Init, PolicyInv, PolicyHolds, PolicyDecides, EffectDecided, Runs, Idle
<1>2. TypeInv /\ TypeInv' /\ PolicyInv /\ [Next]_vars => PolicyInv'
  <2> SUFFICES ASSUME TypeInv, TypeInv', PolicyInv, [Next]_vars PROVE PolicyInv'
    OBVIOUS
  <2>t. TypeOK /\ ReqInv /\ StatusStep /\ TypeOK'
    BY StepSummary DEF TypeInv
  <2>n. \A p \in Proposals : status[p] # "absent" => status'[p] # "absent"
    BY <2>t DEF StatusStep, TypeOK
  <2>0. CASE UNCHANGED vars
    BY <2>0 DEF vars, PolicyInv, PolicyHolds, PolicyDecides, EffectDecided, Runs
  <2>1. ASSUME NEW w \in Workers, NEW s \in Slots, NEW by \in Creators, NEW a \in Actions,
               NEW k \in Keys \cup {None}, Create(w, s, by, a, k)
        PROVE  PolicyInv'
    <3> DEFINE r == [Idle EXCEPT !.pc = "lookup", !.by = by, !.act = a, !.key = k]
    <3>1. r.pc \notin Executing /\ r.by # "policy"
      BY DEF Idle, Executing, Creators
    <3>2. Becomes(w, s, r)
      BY <2>1, <2>t, SetBecomes DEF Create, Begin
    <3>3. action' = action /\ decider' = decider /\ effects' = effects
      BY <2>1 DEF Create, Begin, rows
    <3>4. QED BY <2>t, <3>1, <3>2, <3>3, PolicyPlainStep
  <2>2. ASSUME NEW w \in Workers, NEW s \in Slots, NEW p \in Proposals,
               NEW g \in {"confirmed", "rejected"}, Decide(w, s, p, g) \/ Approve(w, s, p, g)
        PROVE  PolicyInv'
    <3>1. PICK c \in {"load", "token"}, b \in {"human", "token"} :
            req' = [req EXCEPT ![w][s] = [Idle EXCEPT !.pc = c, !.prop = p, !.by = b, !.goal = g]]
      BY <2>2 DEF Decide, Approve, Begin
    <3> DEFINE r == [Idle EXCEPT !.pc = c, !.prop = p, !.by = b, !.goal = g]
    <3>2. r.pc \notin Executing /\ r.by # "policy"
      BY DEF Idle, Executing
    <3>3. Becomes(w, s, r)
      BY <2>t, <3>1, SetBecomes
    <3>4. action' = action /\ decider' = decider /\ effects' = effects
      BY <2>2 DEF Decide, Approve, Begin, rows
    <3>5. QED BY <2>t, <3>2, <3>3, <3>4, PolicyPlainStep
  <2>3. ASSUME NEW w \in Workers, NEW s \in Slots,
               \/ Lookup(w, s) \/ InsertConflict(w, s) \/ SpendToken(w, s) \/ Load(w, s)
               \/ Validate(w, s) \/ Execute(w, s) \/ HandlerRaise(w, s) \/ Record(w, s)
               \/ \E g \in {"executed", "failed"} : HandlerReturn(w, s, g)
        PROVE  PolicyInv'
    <3>1. action' = action /\ decider' = decider /\ effects' = effects
      BY <2>3 DEF Lookup, InsertConflict, SpendToken, Load, Validate, Execute, HandlerRaise,
                  HandlerReturn, Record, rows
    <3>2. \/ Finish(w, s)
          \/ \E c \in {"insert", "load", "validate", "cas"} : Goto(w, s, c)
          \/ Aim(w, s, "cas", "failed")
          \/ /\ req[w][s].pc \in Executing
             /\ Goto(w, s, "run") \/ Aim(w, s, "record", "failed") \/ Aim(w, s, "record", "executed")
      BY <2>3 DEF Lookup, InsertConflict, SpendToken, Load, Validate, Execute, HandlerRaise,
                  HandlerReturn, Record, At, Executing
    <3>3. PICK r : /\ Becomes(w, s, r)
                   /\ r.pc \in Executing => req[w][s].pc \in Executing /\ req[w][s].prop = r.prop
                   /\ r.by = "policy" => req[w][s].by = "policy" /\ req[w][s].prop = r.prop
      BY <2>t, <3>2, FinishBecomes, GotoBecomes, GoalBecomes, NoneIsNobody DEF PC, Executing, Idle
    <3>4. QED BY <2>t, <3>1, <3>3, PolicyPlainStep
  <2>4. ASSUME NEW w \in Workers, NEW s \in Slots, HandlerApply(w, s) PROVE PolicyInv'
    <3>1. PICK p \in Proposals : p = req[w][s].prop /\ Runs(w, s, p)
      BY <2>4, <2>t DEF HandlerApply, At, ReqInv, Carries, Runs
    <3>2. action' = action /\ decider' = decider /\ effects' = [effects EXCEPT ![p] = @ + 1]
      BY <2>4, <3>1 DEF HandlerApply, rows
    <3>3. \A q \in Proposals : effects'[q] > 0 => effects[q] > 0 \/ decider[q] \in Deciders
      BY <2>t, <3>1, <3>2 DEF PolicyInv, EffectDecided, TypeOK
    <3>4. PICK r : Becomes(w, s, r) /\ r.prop = req[w][s].prop /\ r.by = req[w][s].by
      BY <2>4, <2>t, GotoBecomes DEF HandlerApply, PC
    <3>5. QED BY <2>t, <3>1, <3>2, <3>3, <3>4, PolicyPlainStep DEF Runs, Executing
  <2>5. ASSUME NEW w \in Workers, NEW s \in Slots, NEW p \in Proposals, Insert(w, s, p)
        PROVE  PolicyInv'
    <3>1. /\ status[p] = "absent" /\ status'[p] = "pending"
          /\ action' = [action EXCEPT ![p] = req[w][s].act]
          /\ decider' = decider /\ effects' = effects
      BY <2>5, <2>t DEF Insert, TypeOK
    <3>2. decider[p] # "policy"
      BY <3>1 DEF PolicyInv, PolicyDecides
    <3> DEFINE r1 == [Idle EXCEPT !.pc = "load", !.prop = p, !.by = "policy", !.goal = "confirmed"]
    <3>3. PICK r : /\ Becomes(w, s, r) /\ r.pc \notin Executing
                   /\ r.by = "policy" => r.prop = p /\ req[w][s].act \notin RequireApproval
      <4>1. r1.pc \notin Executing /\ r1.prop = p /\ Idle.pc \notin Executing /\ Idle.by = None
        BY DEF Idle, Executing
      <4>2. \/ Becomes(w, s, r1) /\ req[w][s].act \notin RequireApproval
            \/ Becomes(w, s, Idle)
        BY <2>5, <2>t, SetBecomes, FinishBecomes DEF Insert, RequiresHuman
      <4>3. QED BY <4>1, <4>2, NoneIsNobody
    <3>4. ASSUME NEW v \in Workers, NEW t \in Slots, req'[v][t].by = "policy"
          PROVE  /\ req'[v][t].prop \in Proposals
                 /\ status'[req'[v][t].prop] # "absent"
                 /\ action'[req'[v][t].prop] \notin RequireApproval
      <4>1. CASE v = w /\ t = s
        <5>1. req'[v][t].prop = p /\ req[w][s].act \notin RequireApproval
          BY <3>3, <3>4, <4>1 DEF Becomes
        <5>2. action'[p] = req[w][s].act
          BY <2>t, <3>1 DEF TypeOK
        <5>3. QED BY <3>1, <5>1, <5>2
      <4>2. CASE ~(v = w /\ t = s)
        <5>1. PICK q \in Proposals : /\ q = req[v][t].prop /\ req'[v][t] = req[v][t]
                                     /\ status[q] # "absent" /\ action[q] \notin RequireApproval
          BY <3>3, <3>4, <4>2 DEF Becomes, PolicyInv, PolicyHolds
        <5>2. action'[q] = action[q] /\ status'[q] # "absent"
          BY <2>t, <2>n, <3>1, <5>1 DEF TypeOK
        <5>3. QED BY <5>1, <5>2
      <4>3. QED BY <4>1, <4>2
    <3>5. PolicyDecides'
      BY <2>t, <2>n, <3>1, <3>2 DEF PolicyInv, PolicyDecides, TypeOK
    <3>6. EffectDecided'
      BY <3>1, <3>3 DEF PolicyInv, EffectDecided, Becomes, Runs, Executing
    <3>7. QED BY <3>4, <3>5, <3>6 DEF PolicyInv, PolicyHolds
  <2>6. ASSUME NEW w \in Workers, NEW s \in Slots, Cas(w, s) PROVE PolicyInv'
    <3>1. PICK p \in Proposals : p = req[w][s].prop
      BY <2>6, <2>t DEF Cas, At, ReqInv, Carries
    <3>2. req[w][s].by \in Deciders /\ action' = action /\ effects' = effects
      BY <2>6, <2>t DEF Cas, At, ReqInv, Carries
    <3>3. CASE status[p] = "pending"
      <4>1. decider' = [decider EXCEPT ![p] = req[w][s].by]
        BY <2>6, <3>1, <3>3 DEF Cas, Won
      <4>2. PICK r : /\ Becomes(w, s, r)
                     /\ r.pc \in Executing => r.prop = p
                     /\ r.by = "policy" => req[w][s].by = "policy" /\ r.prop = p
        BY <2>6, <2>t, <3>1, <3>3, FinishBecomes, GotoBecomes, NoneIsNobody
           DEF Cas, Won, PC, Idle
      <4>3. PolicyHolds'
        BY <2>n, <3>1, <3>2, <4>2 DEF PolicyInv, PolicyHolds, Becomes
      <4>4. PolicyDecides'
        BY <2>t, <2>n, <3>1, <3>2, <4>1 DEF PolicyInv, PolicyHolds, PolicyDecides, TypeOK
      <4>5. \A q \in Proposals : decider[q] \in Deciders => decider'[q] \in Deciders
        BY <2>t, <3>2, <4>1 DEF TypeOK
      <4>6. decider'[p] \in Deciders
        BY <2>t, <3>2, <4>1 DEF TypeOK
      <4>7. ASSUME NEW v \in Workers, NEW t \in Slots, NEW q \in Proposals, Runs(v, t, q)'
            PROVE  decider'[q] \in Deciders
        <5>1. CASE v = w /\ t = s
          BY <4>2, <4>6, <4>7, <5>1 DEF Becomes, Runs, Executing
        <5>2. CASE ~(v = w /\ t = s)
          BY <4>2, <4>5, <4>7, <5>2 DEF Becomes, Runs, PolicyInv, EffectDecided
        <5>3. QED BY <5>1, <5>2
      <4>8. EffectDecided'
        BY <3>2, <4>5, <4>7 DEF PolicyInv, EffectDecided
      <4>9. QED BY <4>3, <4>4, <4>8 DEF PolicyInv
    <3>4. CASE status[p] # "pending"
      <4>1. decider' = decider /\ Finish(w, s)
        BY <2>6, <3>1, <3>4 DEF Cas, Won
      <4>2. Becomes(w, s, Idle) /\ Idle.pc \notin Executing /\ Idle.by # "policy"
        BY <2>t, <4>1, FinishBecomes, NoneIsNobody DEF Idle
      <4>3. QED BY <2>t, <3>2, <4>1, <4>2, PolicyPlainStep
    <3>5. QED BY <3>3, <3>4
  <2>7. ASSUME NEW w \in Workers, Boot(w) \/ Serve(w) \/ \E S \in SUBSET Proposals : SweepScan(w, S)
        PROVE  PolicyInv'
    BY <2>7 DEF Boot, Serve, SweepScan, rows, PolicyInv, PolicyHolds, PolicyDecides, EffectDecided, Runs
  <2>8. ASSUME NEW w \in Workers, Crash(w) PROVE PolicyInv'
    <3>1. status' = status /\ action' = action /\ decider' = decider /\ effects' = effects
      BY <2>8 DEF Crash, rows
    <3>2. \A v \in Workers, t \in Slots : req'[v][t] = req[v][t] \/ req'[v][t] = Idle
      BY <2>8, <2>t DEF Crash, TypeOK
    <3>3. Idle.by # "policy" /\ Idle.pc \notin Executing
      BY NoneIsNobody DEF Idle, Executing
    <3>4. QED
      BY <3>1, <3>2, <3>3 DEF PolicyInv, PolicyHolds, PolicyDecides, EffectDecided, Runs, Executing
  <2>9. ASSUME NEW w \in Workers, NEW p \in Proposals, ReconcileOne(w, p) \/ SweepOne(w, p)
        PROVE  PolicyInv'
    <3>1. action' = action /\ decider' = decider /\ effects' = effects /\ req' = req
      BY <2>9 DEF ReconcileOne, SweepOne
    <3>2. QED
      BY <2>n, <3>1 DEF PolicyInv, PolicyHolds, PolicyDecides, EffectDecided, Runs
  <2>10. QED
    BY <2>0, <2>1, <2>2, <2>3, <2>4, <2>5, <2>6, <2>7, <2>8, <2>9, NextCases
<1>3. QED
  BY <1>1, <1>2, TypeInvariance, PTL DEF Spec

\* An action on the operator's list takes effect only by a person's decision.
THEOREM HumanGateHolds == Spec => []HumanGate
<1>1. PolicyInv => HumanGate
  BY DEF PolicyInv, PolicyDecides, EffectDecided, HumanGate, Deciders
<1>2. QED BY <1>1, PolicyInvariance, PTL

(***************************************************************************)
(* Idempotency keys.  The column is UNIQUE, so two rows never share a key; *)
(* an id that was never inserted has none.                                 *)
(***************************************************************************)
KeyInv ==
  /\ \A p \in Proposals : status[p] = "absent" => key[p] = None
  /\ \A p, q \in Proposals : p # q /\ key[p] = key[q] => key[p] = None

\* Only the INSERT writes the column, and it is refused a key that is taken.
LEMMA KeyStep ==
  ASSUME TypeInv, KeyInv, [Next]_vars
  PROVE  KeyInv'
<1>t. TypeOK /\ StatusStep
  BY StepSummary DEF TypeInv
<1>1. \A p \in Proposals : status'[p] = "absent" => status[p] = "absent"
  BY <1>t DEF StatusStep, TypeOK
<1>2. ASSUME NEW w \in Workers, NEW s \in Slots, NEW p \in Proposals, Insert(w, s, p)
      PROVE  KeyInv'
  <2> DEFINE k == req[w][s].key
  <2>1. /\ status[p] = "absent" /\ status'[p] = "pending"
        /\ key' = [key EXCEPT ![p] = k]
        /\ ~KeyTaken(k)
    BY <1>2, <1>t DEF Insert, AcceptsKey, TypeOK
  <2>2. \A q \in Proposals : key[q] = k => k = None
    BY <2>1 DEF KeyTaken, KeyInv
  <2>3. \A q \in Proposals : key'[q] = IF q = p THEN k ELSE key[q]
    BY <2>1, <1>t DEF TypeOK
  <2>4. \A q \in Proposals : status'[q] = "absent" => key'[q] = None
    BY <1>1, <2>1, <2>3 DEF KeyInv
  <2>5. \A q, x \in Proposals : q # x /\ key'[q] = key'[x] => key'[q] = None
    BY <2>2, <2>3 DEF KeyInv
  <2>6. QED BY <2>4, <2>5 DEF KeyInv
<1>3. CASE key' = key
  BY <1>1, <1>3 DEF KeyInv
<1>4. key' = key \/ \E w \in Workers, s \in Slots, p \in Proposals : Insert(w, s, p)
  <2>1. CASE UNCHANGED vars
    BY <2>1 DEF vars
  <2>2. ASSUME NEW w \in Workers, NEW s \in Slots, Arrive(w, s) PROVE key' = key
    BY <2>2 DEF Arrive, Create, Decide, Approve, Begin, rows
  <2>3. ASSUME NEW w \in Workers, NEW s \in Slots, Continue(w, s)
        PROVE  key' = key \/ \E p \in Proposals : Insert(w, s, p)
    BY <2>3 DEF Continue, Lookup, InsertConflict, SpendToken, Load, Validate, Cas, Execute,
                HandlerApply, HandlerRaise, HandlerReturn, Record, rows
  <2>4. ASSUME NEW w \in Workers, Startup(w) \/ Sweep(w) \/ Crash(w) PROVE key' = key
    BY <2>4 DEF Startup, Sweep, Boot, ReconcileOne, Serve, SweepScan, SweepOne, Crash, rows
  <2>5. QED BY <2>1, <2>2, <2>3, <2>4 DEF Next
<1>5. QED BY <1>2, <1>3, <1>4

\* A client that retries with its key gets the action at most once, however
\* many workers it reaches: no second row with the key exists at all.
THEOREM OncePerKeyHolds == Spec => []OncePerKey
<1>1. Init => KeyInv
  BY DEF Init, KeyInv
<1>2. TypeInv /\ KeyInv /\ [Next]_vars => KeyInv'
  BY KeyStep
<1>3. KeyInv => OncePerKey
  BY DEF KeyInv, OncePerKey
<1>4. QED BY <1>1, <1>2, <1>3, TypeInvariance, PTL DEF Spec

=============================================================================
