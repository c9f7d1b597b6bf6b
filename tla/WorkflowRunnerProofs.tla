------------------------ MODULE WorkflowRunnerProofs ------------------------
(***************************************************************************)
(* Theorems about a run of a workflow, for every order of stages and every *)
(* crew that OrderAssumption allows and for every rework budget.           *)
(***************************************************************************)
EXTENDS WorkflowRunner, TLAPS

Nodes == DOMAIN Order

(***************************************************************************)
(* The inductive invariants                                                *)
(***************************************************************************)
\* What the runner's phase says about the stage it is in.
PhaseInv ==
  /\ phase \in {"agents", "materialize", "gate", "commit"} => at \in Nodes
  /\ phase = "agents" => waiting \subseteq Crew[Stage]
  /\ phase = "materialize" => Stage = "development"
  /\ phase = "gate" => Stage \in {"security", "testing"}
  /\ phase = "commit" => Stage = "code_commit"
  /\ phase \notin {"agents", "over"} => answers = NoAnswer

TypeInv == TypeOK /\ PhaseInv

\* A commit lies behind the run, and a deployment behind the commit; so a gate
\* that escalates has seen neither.
EscInv ==
  /\ escalated => phase \in {"returned", "over"} /\ shipped = 0 /\ ~deployed
  /\ shipped # 0 => \E n \in Nodes : Order[n] = "code_commit" /\ n < at
  /\ deployed => \A n \in Nodes : Order[n] \in Returning \cup {"code_commit"} => n < at
  /\ outcome = "completed" => phase = "over" /\ ~escalated

\* As long as the stage in which code is written lies ahead, no build was made
\* since the last rework cycle was paid for.
BuildInv ==
  /\ builds <= rework + 1
  /\ (\E n \in Nodes : Crew[Order[n]] \cap Coders # {} /\ (n > at \/ (n = at /\ phase = "next")))
       => builds <= rework

\* The artifacts hold what was last reported of the current build, and an
\* objection to it keeps the run in front of the gate that reads it.
GateOf(a) == IF a \in Vetters THEN "testing" ELSE "security"

ObjectionInv ==
  /\ \A a \in Reporters : said[a] # "none" => Merged[a] = said[a]
  /\ \A a \in Reporters : said[a] = "object" => at <= IndexOf(GateOf(a))

\* A run returns at the end of the order or escalated.
ReturnInv ==
  /\ phase = "returned" => escalated \/ at > Len(Order)
  /\ outcome = "completed" => ~failed /\ at > Len(Order)

\* Outside the development stage what the texts come to is on disk, and every report
\* on the current build was made with that code on disk.
DiskInv ==
  /\ at # IndexOf("development") => disk = built
  /\ built = 0 => disk = 0
  /\ at = IndexOf("development") /\ phase = "agents" => builds # 0
  /\ at = IndexOf("development") /\ phase \in {"agents", "materialize"} => said = NoReport
  /\ \A a \in Reporters : said[a] # "none" => saw[a] = disk
  /\ shipped # 0 => shipped = built

(***************************************************************************)
(* Facts about the order of stages                                         *)
(***************************************************************************)
LEMMA OrderFacts ==
  /\ Len(Order) \in Nat
  /\ Nodes = 1..Len(Order)
  /\ \A n \in Nodes : Order[n] \in Stages /\ Crew[Order[n]] \subseteq Agents
BY RunnerAssumption DEF Nodes, Stages, Agents

LEMMA IndexFacts ==
  /\ \A st \in Stages : IndexOf(st) \in Nodes /\ Order[IndexOf(st)] = st
  /\ \A n \in Nodes : IndexOf(Order[n]) = n
<1>1. ASSUME NEW st \in Stages PROVE IndexOf(st) \in Nodes /\ Order[IndexOf(st)] = st
  <2>1. \E n \in DOMAIN Order : Order[n] = st
    BY DEF Stages
  <2>2. QED BY <2>1 DEF IndexOf, Nodes
<1>2. ASSUME NEW n \in Nodes PROVE IndexOf(Order[n]) = n
  BY <1>1, OrderFacts, RunnerAssumption DEF Nodes
<1>3. QED BY <1>1, <1>2

(***************************************************************************)
(* Types                                                                   *)
(***************************************************************************)
\* Where a step that moves between stages leaves the run.
LEMMA Moves ==
  ASSUME TypeInv, at \in Nodes, answers' = NoAnswer,
         Advance \/ \E st \in Stages : JumpTo(st)
  PROVE  at' \in 1..Len(Order) + 1 /\ phase' = "next" /\ PhaseInv'
<1>1. at' \in 1..Len(Order) + 1 /\ phase' = "next"
  BY OrderFacts, IndexFacts DEF Advance, JumpTo
<1>2. QED BY <1>1 DEF PhaseInv, NoAnswer

\* A refused step of the run: back, on, or out.
LEMMA Reworks ==
  ASSUME TypeInv, at \in Nodes, answers = NoAnswer, answers' = answers,
         ReworkCommit \/ ReworkSecurity \/ ReworkTesting
  PROVE  /\ at' \in 1..Len(Order) + 1 /\ phase' \in {"next", "returned"}
         /\ rework' \in 0..MaxRework /\ escalated' \in BOOLEAN /\ PhaseInv'
<1>1. Stage \in Stages
  BY DEF Stage, Nodes, Stages
<1>2. CASE Spend
  <2>1. rework' \in 0..MaxRework /\ escalated' = escalated
    BY <1>2, RunnerAssumption DEF Spend, TypeInv, TypeOK
  <2>2. Advance \/ \E st \in Stages : JumpTo(st)
    BY <1>1, <1>2 DEF ReworkCommit, ReworkSecurity, ReworkTesting, Spend, Escalate, Has, TypeInv, TypeOK
  <2>3. QED BY <2>1, <2>2, Moves DEF TypeInv, TypeOK
<1>3. CASE Escalate
  BY <1>3, OrderFacts DEF Escalate, TypeInv, TypeOK, PhaseInv
<1>4. QED BY <1>2, <1>3 DEF ReworkCommit, ReworkSecurity, ReworkTesting

LEMMA MergedType ==
  ASSUME TypeOK
  PROVE  Merged \in [Reporters -> Reports \cup {"none"}]
BY RunnerAssumption DEF Merged, TypeOK

\* The types, and what the phase of the runner says about its stage.
THEOREM TypeInvariance == Spec => []TypeInv
<1>1. Init => TypeInv
  <2> SUFFICES ASSUME Init PROVE TypeInv
    OBVIOUS
  <2>1. NoAnswer \in [Agents -> Reports \cup {"none"}]
        /\ NoReport \in [Reporters -> Reports \cup {"none"}]
    BY DEF NoAnswer, NoReport
  <2>2. 1 \in 1..Len(Order) + 1 /\ 0 \in 0..MaxRework
    BY OrderFacts, RunnerAssumption
  <2>3. TypeOK
    BY <2>1, <2>2 DEF Init, TypeOK, Phases
  <2>4. PhaseInv
    BY DEF Init, PhaseInv
  <2>5. QED BY <2>3, <2>4 DEF TypeInv
<1>2. TypeInv /\ [Next]_vars => TypeInv'
  <2> SUFFICES ASSUME TypeInv, [Next]_vars PROVE TypeInv'
    OBVIOUS
  <2> USE OrderFacts DEF TypeInv, Phases, code, history
  <2>0. CASE UNCHANGED vars
    BY <2>0 DEF vars, TypeOK, PhaseInv, Stage, Merged
  <2>1. CASE Skip
    BY <2>1, Moves DEF Skip, TypeOK, PhaseInv, Nodes
  <2>2. CASE StartStage
    <3>1. at \in Nodes /\ Called \subseteq Crew[Stage] /\ Called \subseteq Agents
      BY <2>2 DEF StartStage, TypeOK, Called, Stage
    <3>2. NoAnswer \in [Agents -> Reports \cup {"none"}]
          /\ NoReport \in [Reporters -> Reports \cup {"none"}]
      BY DEF NoAnswer, NoReport
    <3>3. QED BY <2>2, <3>1, <3>2 DEF StartStage, TypeOK, PhaseInv, Stage
  <2>3. CASE StartCommit
    BY <2>3 DEF StartCommit, TypeOK, PhaseInv, Stage
  <2>4. CASE Return
    BY <2>4 DEF Return, TypeOK, PhaseInv
  <2>5. ASSUME NEW a \in Agents, NEW r \in Reports, Answer(a, r) PROVE TypeInv'
    BY <2>5 DEF Answer, Survives, TypeOK, PhaseInv, Stage
  <2>6. ASSUME NEW a \in Agents, Fail(a) PROVE TypeInv'
    BY <2>6 DEF Fail, TypeOK, PhaseInv, Stage
  <2>7. CASE FinishStage
    <3>1. at \in Nodes /\ Merged \in [Reporters -> Reports \cup {"none"}]
      BY <2>7, MergedType DEF FinishStage, PhaseInv
    <3>2. NoAnswer \in [Agents -> Reports \cup {"none"}] /\ affected' \subseteq Coders
      BY <2>7 DEF FinishStage, NoAnswer, Named, TypeOK
    <3>3. CASE Stage = "development"
      BY <2>7, <3>1, <3>2, <3>3 DEF FinishStage, Returning, TypeOK, PhaseInv, Stage
    <3>4. CASE Stage \in {"security", "testing"}
      BY <2>7, <3>1, <3>2, <3>4 DEF FinishStage, Returning, TypeOK, PhaseInv, Stage
    <3>5. CASE Stage \notin {"development", "security", "testing"}
      <4>1. Advance
        BY <2>7, <3>5 DEF FinishStage, Returning
      <4>2. QED BY <2>7, <3>1, <3>2, <4>1, Moves DEF FinishStage, TypeOK
    <3>6. QED BY <3>3, <3>4, <3>5
  <2>8. CASE CombinedGate \/ SecurityGate
    <3>1. at \in Nodes /\ answers = NoAnswer /\ answers' = answers
      BY <2>8 DEF CombinedGate, SecurityGate, PhaseInv
    <3>2. CASE Advance /\ UNCHANGED <<rework, escalated>>
      BY <2>8, <3>1, <3>2, Moves DEF CombinedGate, SecurityGate, TypeOK
    <3>3. CASE ReworkSecurity \/ ReworkTesting
      BY <2>8, <3>1, <3>3, Reworks DEF CombinedGate, SecurityGate, TypeOK
    <3>4. QED BY <2>8, <3>2, <3>3 DEF CombinedGate, SecurityGate
  <2>9. CASE Materialize \/ Commit
    <3>1. at \in Nodes /\ answers = NoAnswer /\ answers' = answers
      BY <2>9 DEF Materialize, Commit, PhaseInv
    <3>2. disk' \in Nat /\ shipped' \in Nat
      BY <2>9 DEF Materialize, Commit, Written, TypeOK
    <3>3. CASE Advance /\ UNCHANGED <<rework, escalated>>
      BY <2>9, <3>1, <3>2, <3>3, Moves DEF Materialize, Commit, TypeOK
    <3>4. CASE ReworkCommit
      BY <2>9, <3>1, <3>2, <3>4, Reworks DEF Materialize, Commit, TypeOK
    <3>5. QED BY <2>9, <3>3, <3>4 DEF Materialize, Commit
  <2>10. CASE Raise
    BY <2>10 DEF Raise, TypeOK, PhaseInv
  <2>11. CASE Settle \/ Cancel
    BY <2>11 DEF Settle, Cancel, Verdict, TypeOK, PhaseInv
  <2>12. QED
    BY <2>0, <2>1, <2>2, <2>3, <2>4, <2>5, <2>6, <2>7, <2>8, <2>9, <2>10, <2>11 DEF Next, Run
<1>3. QED BY <1>1, <1>2, PTL DEF Spec

\* In particular every variable keeps its type.
THEOREM TypeCorrectness == Spec => []TypeOK
<1>1. TypeInv => TypeOK
  BY DEF TypeInv
<1>2. QED BY <1>1, TypeInvariance, PTL

(***************************************************************************)
(* Escalation                                                              *)
(***************************************************************************)
\* At a gate or a refused commit nothing is committed or deployed yet, so a
\* run can be escalated or sent back.
LEMMA NotYet ==
  ASSUME TypeInv, EscInv, at \in Nodes, Stage \in Returning \cup {"code_commit"}
  PROVE  ~deployed /\ shipped = 0
<1>1. ~deployed
  BY OrderFacts DEF EscInv, Stage
<1>2. \A n \in Nodes : Order[n] = "code_commit" => ~(n < at)
  BY OrderFacts, OrderAssumption, RunnerAssumption DEF Stage, Nodes, Returning
<1>3. QED BY <1>1, <1>2 DEF EscInv

LEMMA ReworkEsc ==
  ASSUME TypeInv, EscInv, at \in Nodes, Stage \in Returning \cup {"code_commit"},
         phase \notin {"returned", "over"},
         shipped' = shipped, deployed' = deployed, outcome' = outcome,
         ReworkCommit \/ ReworkSecurity \/ ReworkTesting
  PROVE  EscInv'
<1>1. ~deployed /\ shipped = 0
  BY NotYet
<1>2. CASE Spend
  BY <1>1, <1>2 DEF Spend, EscInv
<1>3. CASE Escalate
  BY <1>1, <1>3 DEF Escalate, EscInv
<1>4. QED BY <1>2, <1>3 DEF ReworkCommit, ReworkSecurity, ReworkTesting

LEMMA AdvanceEsc ==
  ASSUME TypeInv, EscInv, at \in Nodes, phase \notin {"returned", "over"}, Advance,
         shipped' = shipped, deployed' = deployed, outcome' = outcome, escalated' = escalated
  PROVE  EscInv'
<1>1. at' > at /\ phase' = "next"
  BY OrderFacts DEF Advance
<1>2. \A n \in Nodes : n < at => n < at'
  BY <1>1, OrderFacts DEF Advance
<1>3. QED BY <1>1, <1>2 DEF EscInv

LEMMA EscInduction == TypeInv /\ EscInv /\ [Next]_vars => EscInv'
<1> SUFFICES ASSUME TypeInv, EscInv, [Next]_vars PROVE EscInv'
  OBVIOUS
<1> USE DEF code, history
<1>0. CASE UNCHANGED vars
  BY <1>0 DEF vars, EscInv
<1>1. CASE Skip
  BY <1>1, AdvanceEsc, OrderFacts DEF Skip, TypeInv, TypeOK
<1>2. CASE StartStage
  <2>1. at \in Nodes /\ ~escalated /\ outcome # "completed" /\ outcome' = outcome
        /\ escalated' = escalated /\ shipped' = shipped /\ at' = at /\ phase' = "agents"
    BY <1>2, OrderFacts DEF StartStage, EscInv, TypeInv, TypeOK
  <2>2. Stage \in Deployers =>
          \A n \in Nodes : Order[n] \in Returning \cup {"code_commit"} => n < at
    BY <2>1, OrderAssumption DEF Stage, Nodes
  <2>3. deployed' => \A n \in Nodes : Order[n] \in Returning \cup {"code_commit"} => n < at
    BY <1>2, <2>2 DEF StartStage, EscInv
  <2>4. QED BY <2>1, <2>3 DEF EscInv
<1>3. CASE StartCommit \/ Return
  BY <1>3 DEF StartCommit, Return, EscInv
<1>4. ASSUME NEW a \in Agents, (\E r \in Reports : Answer(a, r)) \/ Fail(a) PROVE EscInv'
  BY <1>4 DEF Answer, Fail, EscInv
<1>5. CASE FinishStage
  <2>1. CASE Advance
    BY <1>5, <2>1, AdvanceEsc DEF FinishStage, TypeInv, PhaseInv
  <2>2. CASE at' = at /\ phase' \in {"materialize", "gate"}
    BY <1>5, <2>2 DEF FinishStage, EscInv
  <2>3. QED BY <1>5, <2>1, <2>2 DEF FinishStage
<1>6. CASE CombinedGate \/ SecurityGate
  <2>1. at \in Nodes /\ Stage \in Returning
    BY <1>6 DEF CombinedGate, SecurityGate, TypeInv, PhaseInv, Returning
  <2>2. CASE Advance /\ escalated' = escalated
    BY <1>6, <2>1, <2>2, AdvanceEsc DEF CombinedGate, SecurityGate
  <2>3. CASE ReworkSecurity \/ ReworkTesting
    BY <1>6, <2>1, <2>3, ReworkEsc DEF CombinedGate, SecurityGate
  <2>4. QED BY <1>6, <2>2, <2>3 DEF CombinedGate, SecurityGate
<1>7. CASE Materialize
  <2>1. at \in Nodes /\ Stage \in Returning
    BY <1>7 DEF Materialize, TypeInv, PhaseInv, Returning
  <2>2. CASE Advance /\ escalated' = escalated
    BY <1>7, <2>1, <2>2, AdvanceEsc DEF Materialize
  <2>3. CASE ReworkCommit
    BY <1>7, <2>1, <2>3, ReworkEsc DEF Materialize
  <2>4. QED BY <1>7, <2>2, <2>3 DEF Materialize
<1>8. CASE Commit
  <2>1. at \in Nodes /\ Stage = "code_commit"
    BY <1>8 DEF Commit, TypeInv, PhaseInv
  <2>2. CASE ReworkCommit /\ shipped' = shipped
    BY <1>8, <2>1, <2>2, ReworkEsc DEF Commit
  <2>3. CASE Advance /\ escalated' = escalated
    <3>1. at' = at + 1 /\ at < at' /\ phase' = "next" /\ Order[at] = "code_commit"
      BY <2>1, <2>3, OrderFacts DEF Advance, Stage
    <3>2. ~escalated /\ ~deployed /\ outcome # "completed"
      BY <1>8, <2>1, NotYet DEF Commit, EscInv
    <3>3. QED BY <1>8, <2>1, <2>3, <3>1, <3>2 DEF Commit, EscInv
  <2>4. QED BY <1>8, <2>2, <2>3 DEF Commit
<1>9. CASE Raise
  BY <1>9 DEF Raise, EscInv
<1>10. CASE Settle \/ Cancel
  BY <1>10 DEF Settle, Cancel, Verdict, EscInv
<1>11. QED
  BY <1>0, <1>1, <1>2, <1>3, <1>4, <1>5, <1>6, <1>7, <1>8, <1>9, <1>10 DEF Next, Run

\* An escalated run never commits, deploys or completes, in any order of
\* stages that OrderAssumption allows.
THEOREM EscalationHolds == Spec => []EscalationStops
<1>1. Init => EscInv
  BY DEF Init, EscInv
<1>2. EscInv => EscalationStops
  BY DEF EscInv, EscalationStops
<1>3. QED BY <1>1, <1>2, TypeInvariance, EscInduction, PTL DEF Spec

(***************************************************************************)
(* The rework budget                                                       *)
(***************************************************************************)
LEMMA ReworkBuild ==
  ASSUME TypeInv, BuildInv, builds' = builds, at \in Nodes, phase # "next",
         ReworkCommit \/ ReworkSecurity \/ ReworkTesting
  PROVE  BuildInv'
<1>1. builds \in Nat /\ rework \in Nat
  BY RunnerAssumption DEF TypeInv, TypeOK
<1>2. CASE Spend
  BY <1>1, <1>2 DEF Spend, BuildInv
<1>3. CASE Escalate
  BY <1>1, <1>3, OrderFacts DEF Escalate, BuildInv
<1>4. QED BY <1>2, <1>3 DEF ReworkCommit, ReworkSecurity, ReworkTesting

LEMMA AdvanceBuild ==
  ASSUME TypeInv, BuildInv, builds' = builds, rework' = rework, at \in Nodes, Advance
  PROVE  BuildInv'
<1>1. \A n \in Nodes : n > at' \/ n = at' => n > at
  BY OrderFacts DEF Advance
<1>2. QED BY <1>1 DEF BuildInv

LEMMA BuildInduction == TypeInv /\ BuildInv /\ [Next]_vars => BuildInv'
<1> SUFFICES ASSUME TypeInv, BuildInv, [Next]_vars PROVE BuildInv'
  OBVIOUS
<1> USE DEF code, history
<1>0. CASE UNCHANGED vars
  BY <1>0 DEF vars, BuildInv
<1>1. CASE Skip
  BY <1>1, AdvanceBuild, OrderFacts DEF Skip, TypeInv, TypeOK
<1>2. CASE StartStage
  <2>1. at \in Nodes /\ at' = at /\ rework' = rework /\ phase' = "agents" /\ phase = "next"
        /\ builds \in Nat /\ rework \in Nat
    BY <1>2, OrderFacts, RunnerAssumption DEF StartStage, TypeInv, TypeOK
  <2>2. CASE Building
    <3>1. builds <= rework /\ builds' = builds + 1
      BY <1>2, <2>1, <2>2 DEF StartStage, BuildInv, Building, Stage
    <3>2. \A n \in Nodes : n > at => Crew[Order[n]] \cap Coders = {}
      BY <2>1, <2>2, OrderFacts, OrderAssumption, RunnerAssumption
      DEF Building, Stage, Nodes
    <3>3. QED BY <2>1, <3>1, <3>2 DEF BuildInv
  <2>3. CASE ~Building
    BY <1>2, <2>1, <2>3 DEF StartStage, BuildInv
  <2>4. QED BY <2>2, <2>3
<1>3. CASE StartCommit \/ Return \/ Raise \/ Settle \/ Cancel
  BY <1>3 DEF StartCommit, Return, Raise, Settle, Cancel, BuildInv
<1>4. ASSUME NEW a \in Agents, (\E r \in Reports : Answer(a, r)) \/ Fail(a) PROVE BuildInv'
  BY <1>4 DEF Answer, Fail, BuildInv
<1>5. CASE FinishStage
  <2>1. CASE Advance
    BY <1>5, <2>1, AdvanceBuild DEF FinishStage, TypeInv, PhaseInv
  <2>2. CASE at' = at /\ phase' \in {"materialize", "gate"}
    BY <1>5, <2>2 DEF FinishStage, BuildInv
  <2>3. QED BY <1>5, <2>1, <2>2 DEF FinishStage
<1>6. CASE CombinedGate \/ SecurityGate \/ Materialize \/ Commit
  <2>1. at \in Nodes /\ builds' = builds /\ phase # "next"
    BY <1>6 DEF CombinedGate, SecurityGate, Materialize, Commit, TypeInv, PhaseInv
  <2>2. \/ Advance /\ rework' = rework
        \/ ReworkCommit \/ ReworkSecurity \/ ReworkTesting
    BY <1>6 DEF CombinedGate, SecurityGate, Materialize, Commit
  <2>3. QED BY <2>1, <2>2, AdvanceBuild, ReworkBuild
<1>7. QED BY <1>0, <1>1, <1>2, <1>3, <1>4, <1>5, <1>6 DEF Next, Run

\* The coders are called at most MaxRework + 1 times, whatever the gates find.
THEOREM BudgetHolds == Spec => []ReworkIsBounded
<1>1. Init => BuildInv
  BY DEF Init, BuildInv
<1>2. TypeInv /\ BuildInv => ReworkIsBounded
  BY RunnerAssumption DEF TypeInv, TypeOK, BuildInv, ReworkIsBounded
<1>3. QED BY <1>1, <1>2, TypeInvariance, BuildInduction, PTL DEF Spec

(***************************************************************************)
(* Objections                                                              *)
(***************************************************************************)
LEMMA GateFacts ==
  ASSUME WellGated
  PROVE  /\ \A st \in Returning : st \in Stages /\ IndexOf(st) \in Nodes /\ Order[IndexOf(st)] = st
         /\ \A a \in Reporters : GateOf(a) \in {"testing", "security"}
                                 /\ IndexOf("development") < IndexOf(GateOf(a))
         /\ \A n \in Nodes, a \in Reporters : a \in Crew[Order[n]] => n <= IndexOf(GateOf(a))
         /\ \A n \in Nodes, a \in Reporters : n <= IndexOf(GateOf(a)) /\ Order[n] # GateOf(a)
              => n + 1 <= IndexOf(GateOf(a))
<1>1. \A st \in Returning : st \in Stages /\ IndexOf(st) \in Nodes /\ Order[IndexOf(st)] = st
  BY IndexFacts DEF WellGated
<1>2. \A a \in Reporters : GateOf(a) \in {"testing", "security"}
                           /\ IndexOf("development") < IndexOf(GateOf(a))
  BY DEF WellGated, GateOf
<1>3. ASSUME NEW n \in Nodes, NEW a \in Reporters, a \in Crew[Order[n]]
      PROVE  n <= IndexOf(GateOf(a))
  <2>1. Order[n] \in Stages /\ IndexOf(Order[n]) = n
    BY OrderFacts, IndexFacts
  <2>2. CASE a \in Vetters
    <3>1. Crew[Order[n]] \cap Vetters # {}
      BY <1>3, <2>2
    <3>2. QED BY <2>1, <2>2, <3>1 DEF WellGated, GateOf
  <2>3. CASE a \notin Vetters
    <3>1. Guard \in Crew[Order[n]]
      BY <1>3, <2>3 DEF Reporters
    <3>2. QED BY <2>1, <2>3, <3>1 DEF WellGated, GateOf
  <2>4. QED BY <2>2, <2>3
<1>4. ASSUME NEW n \in Nodes, NEW a \in Reporters, n <= IndexOf(GateOf(a)), Order[n] # GateOf(a)
      PROVE  n + 1 <= IndexOf(GateOf(a))
  <2>1. IndexOf(GateOf(a)) \in Nodes /\ Order[IndexOf(GateOf(a))] = GateOf(a)
    BY <1>1, <1>2 DEF Returning
  <2>2. QED BY <1>4, <2>1, OrderFacts
<1>5. QED BY <1>1, <1>2, <1>3, <1>4

\* Leaving a stage that is no gate, or a gate nobody who is read there objects
\* at, brings no objection past its gate.
LEMMA AdvanceObjection ==
  ASSUME WellGated, TypeInv, ObjectionInv, at \in Nodes, Advance, said' = said, Merged' = Merged,
         \A a \in Reporters : said[a] = "object" => Stage # GateOf(a)
  PROVE  ObjectionInv'
<1>1. at' = at + 1
  BY DEF Advance
<1>2. \A a \in Reporters : said[a] = "object" => at + 1 <= IndexOf(GateOf(a))
  BY GateFacts DEF ObjectionInv, Stage
<1>3. QED BY <1>1, <1>2 DEF ObjectionInv

LEMMA ReworkObjection ==
  ASSUME WellGated, TypeInv, ObjectionInv, said' = said, Merged' = Merged,
         ReworkCommit \/ ReworkSecurity \/ ReworkTesting
  PROVE  ObjectionInv'
<1>1. Has("development")
  BY GateFacts DEF Has, Returning
<1>2. CASE JumpTo("development")
  <2>1. at' = IndexOf("development") /\ IndexOf("development") \in Nodes
    BY <1>2, GateFacts DEF JumpTo, Returning
  <2>2. \A a \in Reporters : at' <= IndexOf(GateOf(a))
    <3> SUFFICES ASSUME NEW a \in Reporters PROVE at' <= IndexOf(GateOf(a))
      OBVIOUS
    <3>1. IndexOf(GateOf(a)) \in Nodes /\ IndexOf("development") < IndexOf(GateOf(a))
      BY GateFacts DEF Returning
    <3>2. QED BY <2>1, <3>1, OrderFacts
  <2>3. QED BY <2>2 DEF ObjectionInv
<1>3. CASE Escalate
  BY <1>3 DEF Escalate, ObjectionInv
<1>4. QED BY <1>1, <1>2, <1>3 DEF ReworkCommit, ReworkSecurity, ReworkTesting

LEMMA ObjectionInduction ==
  ASSUME WellGated PROVE TypeInv /\ ObjectionInv /\ [Next]_vars => ObjectionInv'
<1> SUFFICES ASSUME TypeInv, ObjectionInv, [Next]_vars PROVE ObjectionInv'
  OBVIOUS
<1> USE DEF code, history
<1>0. ASSUME UNCHANGED <<said, answers, artifacts, at>> PROVE ObjectionInv'
  BY <1>0 DEF ObjectionInv, Merged
<1>1. CASE Skip
  <2>1. at \in Nodes /\ Advance /\ said' = said /\ Merged' = Merged /\ Stage \in Skipped
    BY <1>1, OrderFacts DEF Skip, TypeInv, TypeOK, Merged
  <2>2. \A a \in Reporters : Stage # GateOf(a)
    BY <2>1, GateFacts DEF WellGated, Returning
  <2>3. QED BY <2>1, <2>2, AdvanceObjection
<1>2. CASE StartStage
  <2>1. answers' = answers /\ artifacts' = artifacts /\ at' = at
    BY <1>2 DEF StartStage, TypeInv, PhaseInv
  <2>2. CASE Building
    BY <1>2, <2>2 DEF StartStage, NoReport, ObjectionInv
  <2>3. CASE ~Building
    BY <1>0, <1>2, <2>1, <2>3 DEF StartStage
  <2>4. QED BY <2>2, <2>3
<1>3. ASSUME NEW a \in Agents, NEW r \in Reports, Answer(a, r) PROVE ObjectionInv'
  <2>1. at \in Nodes /\ a \in Crew[Stage] /\ at' = at /\ artifacts' = artifacts
    BY <1>3 DEF Answer, TypeInv, PhaseInv
  <2>2. CASE a \in Reporters
    <3>1. said' = [said EXCEPT ![a] = r] /\ answers' = [answers EXCEPT ![a] = r] /\ r # "none"
      BY <1>3, <2>2 DEF Answer, Reports
    <3>2. at <= IndexOf(GateOf(a))
      BY <2>1, <2>2, GateFacts DEF Stage
    <3>3. \A b \in Reporters : said'[b] = "object" => at' <= IndexOf(GateOf(b))
      BY <2>1, <3>1, <3>2 DEF ObjectionInv, TypeInv, TypeOK
    <3>4. \A b \in Reporters : b # a => Merged'[b] = Merged[b] /\ said'[b] = said[b]
      BY <2>1, <3>1 DEF Merged, TypeInv, TypeOK
    <3>5. Merged'[a] = r /\ said'[a] = r
      BY <2>1, <2>2, <3>1, RunnerAssumption DEF Merged, TypeInv, TypeOK
    <3>6. QED BY <3>3, <3>4, <3>5 DEF ObjectionInv
  <2>3. CASE a \notin Reporters
    <3>1. said' = said /\ \A b \in Reporters : answers'[b] = answers[b]
      BY <1>3, <2>3, RunnerAssumption DEF Answer, TypeInv, TypeOK
    <3>2. Merged' = Merged
      BY <2>1, <3>1 DEF Merged
    <3>3. QED BY <2>1, <3>1, <3>2 DEF ObjectionInv
  <2>4. QED BY <2>2, <2>3
<1>4. CASE FinishStage
  <2>1. at \in Nodes /\ artifacts' = Merged /\ answers' = NoAnswer /\ said' = said
    BY <1>4 DEF FinishStage, TypeInv, PhaseInv
  <2>2. \A a \in Reporters : NoAnswer[a] = "none"
    BY RunnerAssumption DEF NoAnswer
  <2>3. Merged' = Merged
    BY <2>1, <2>2 DEF Merged
  <2>4. CASE Stage \notin Returning /\ Advance
    BY <2>1, <2>3, <2>4, GateFacts, AdvanceObjection DEF Returning
  <2>5. CASE at' = at
    BY <2>1, <2>3, <2>5 DEF ObjectionInv
  <2>6. QED BY <1>4, <2>4, <2>5 DEF FinishStage
<1>5. CASE CombinedGate \/ SecurityGate
  <2>1. at \in Nodes /\ answers = NoAnswer /\ said' = said /\ Merged' = Merged
    BY <1>5 DEF CombinedGate, SecurityGate, TypeInv, PhaseInv, Merged
  <2>2. \A a \in Reporters : Merged[a] = artifacts[a]
    BY <2>1, RunnerAssumption DEF Merged, NoAnswer
  <2>3. CASE ReworkSecurity \/ ReworkTesting
    BY <2>1, <2>3, ReworkObjection
  <2>4. CASE Advance /\ Stage = "testing" /\ PassesVetting(artifacts)
    <3>1. \A a \in Reporters : said[a] = "object" => a \notin Vetters
      BY <2>2, <2>4 DEF PassesVetting, ObjectionInv
    <3>2. QED BY <2>1, <2>4, <3>1, AdvanceObjection DEF GateOf
  <2>5. CASE Advance /\ Stage = "security" /\ artifacts[Guard] # "object"
    <3>1. said[Guard] # "object"
      BY <2>2, <2>5 DEF Reporters, ObjectionInv
    <3>2. QED BY <2>1, <2>5, <3>1, AdvanceObjection DEF GateOf, Reporters
  <2>6. QED BY <1>5, <2>3, <2>4, <2>5 DEF CombinedGate, SecurityGate
<1>6. CASE Materialize \/ Commit
  <2>1. at \in Nodes /\ Stage \in {"development", "code_commit"} /\ said' = said /\ Merged' = Merged
    BY <1>6 DEF Materialize, Commit, TypeInv, PhaseInv, Merged
  <2>2. CASE ReworkCommit
    BY <2>1, <2>2, ReworkObjection
  <2>3. CASE Advance
    <3>1. \A a \in Reporters : Stage # GateOf(a)
      BY <2>1, GateFacts
    <3>2. QED BY <2>1, <2>3, <3>1, AdvanceObjection
  <2>4. QED BY <1>6, <2>2, <2>3 DEF Materialize, Commit
<1>7. CASE StartCommit \/ Return \/ Raise \/ Settle \/ Cancel \/ (\E a \in Agents : Fail(a)) \/ UNCHANGED vars
  BY <1>0, <1>7 DEF StartCommit, Return, Raise, Settle, Cancel, Fail, vars
<1>8. QED BY <1>1, <1>2, <1>3, <1>4, <1>5, <1>6, <1>7 DEF Next, Run

LEMMA ObjectionInit == Init => ObjectionInv
BY DEF Init, ObjectionInv, NoReport

LEMMA CommitFacts ==
  ASSUME WellGated, TypeInv, EscInv, shipped # 0
  PROVE  \A st \in Returning : IndexOf(st) < at
<1> SUFFICES ASSUME NEW st \in Returning PROVE IndexOf(st) < at
  OBVIOUS
<1>1. PICK n \in Nodes : Order[n] = "code_commit" /\ n < at
  BY DEF EscInv
<1>2. IndexOf(st) \in Nodes /\ Order[IndexOf(st)] = st
  BY GateFacts
<1>3. IndexOf(st) < n
  BY <1>1, <1>2, OrderAssumption DEF Nodes
<1>4. QED BY <1>1, <1>2, <1>3, OrderFacts DEF TypeInv, TypeOK

\* In a workflow whose gates see everybody, no build is committed with an
\* objection to it standing, whatever fails, is silent or is refused on the way.
THEOREM GatesHold == ASSUME WellGated PROVE Spec => []NoObjectionShips
<1>1. Init => EscInv
  BY DEF Init, EscInv
<1>2. TypeInv /\ EscInv /\ ObjectionInv => NoObjectionShips
  <2> SUFFICES ASSUME TypeInv, EscInv, ObjectionInv, shipped # 0, NEW a \in Reporters,
                      said[a] = "object"
               PROVE  FALSE
    BY DEF NoObjectionShips
  <2>1. GateOf(a) \in Returning
    BY GateFacts DEF Returning
  <2>2. IndexOf(GateOf(a)) < at /\ at <= IndexOf(GateOf(a)) /\ IndexOf(GateOf(a)) \in Nodes
    BY <2>1, CommitFacts, GateFacts DEF ObjectionInv
  <2>3. QED BY <2>2, OrderFacts DEF TypeInv, TypeOK
<1>3. QED
  BY <1>1, <1>2, ObjectionInit, TypeInvariance, EscInduction, ObjectionInduction, PTL DEF Spec

(***************************************************************************)
(* What a completed request means                                          *)
(***************************************************************************)
LEMMA ReturnInduction == TypeInv /\ EscInv /\ ReturnInv /\ [Next]_vars => ReturnInv'
<1> SUFFICES ASSUME TypeInv, EscInv, ReturnInv, [Next]_vars PROVE ReturnInv'
  OBVIOUS
<1> USE DEF code, history
<1>1. CASE UNCHANGED vars
  BY <1>1 DEF vars, ReturnInv
<1>2. CASE Return
  BY <1>2, OrderFacts DEF Return, ReturnInv, TypeInv, TypeOK
<1>3. CASE Settle
  <2>1. CASE phase = "raised"
    BY <1>3, <2>1 DEF Settle, ReturnInv
  <2>2. CASE phase = "returned"
    BY <1>3, <2>2 DEF Settle, Verdict, ReturnInv
  <2>3. QED BY <1>3, <2>1, <2>2 DEF Settle
<1>4. CASE Cancel \/ Raise
  BY <1>4 DEF Cancel, Raise, ReturnInv, EscInv
<1>5. CASE \/ Skip \/ StartStage \/ StartCommit
           \/ \E a \in Agents : (\E r \in Reports : Answer(a, r)) \/ Fail(a)
  BY <1>5 DEF Skip, StartStage, StartCommit, Answer, Fail, Advance, ReturnInv, EscInv
<1>6. CASE FinishStage
  BY <1>6 DEF FinishStage, Advance, ReturnInv, EscInv
<1>7. CASE CombinedGate \/ SecurityGate \/ Materialize \/ Commit
  <2>1. phase \notin {"returned", "over"} /\ outcome' = outcome
    BY <1>7 DEF CombinedGate, SecurityGate, Materialize, Commit
  <2>2. phase' = "next" \/ (phase' = "returned" /\ escalated')
    BY <1>7 DEF CombinedGate, SecurityGate, Materialize, Commit, ReworkCommit, ReworkSecurity,
                ReworkTesting, JumpTo, Advance, Escalate
  <2>3. QED BY <2>1, <2>2 DEF ReturnInv, EscInv
<1>8. QED BY <1>1, <1>2, <1>3, <1>4, <1>5, <1>6, <1>7 DEF Next, Run

\* A completed request went through every stage, none of its agents failed and
\* nobody's objection to its last build stands.
THEOREM CompletionIsClean == ASSUME WellGated PROVE Spec => []CompletedIsClean
<1>1. Init => EscInv /\ ReturnInv
  BY DEF Init, EscInv, ReturnInv
<1>2. TypeInv /\ EscInv /\ ReturnInv /\ ObjectionInv => CompletedIsClean
  <2> SUFFICES ASSUME TypeInv, EscInv, ReturnInv, ObjectionInv, outcome = "completed"
               PROVE  CompletedIsClean
    BY DEF CompletedIsClean
  <2>1. ~failed /\ ~escalated /\ at > Len(Order)
    BY DEF EscInv, ReturnInv
  <2>2. \A a \in Reporters : IndexOf(GateOf(a)) \in Nodes
    BY GateFacts DEF Returning
  <2>3. \A a \in Reporters : said[a] # "object"
    BY <2>1, <2>2, OrderFacts DEF ObjectionInv, TypeInv, TypeOK
  <2>4. QED BY <2>1, <2>3 DEF CompletedIsClean
<1>3. QED
  BY <1>1, <1>2, ObjectionInit, TypeInvariance, EscInduction, ReturnInduction, ObjectionInduction,
     PTL DEF Spec

(***************************************************************************)
(* What is committed                                                       *)
(***************************************************************************)
LEMMA CodersAt ==
  ASSUME WellGated, NEW n \in Nodes, Crew[Order[n]] \cap Coders # {}
  PROVE  n = IndexOf("development")
<1>1. Order[n] = "development"
  BY OrderFacts, OrderAssumption, GateFacts DEF WellGated, Returning
<1>2. QED BY <1>1, IndexFacts

\* A step that moves the run and leaves code and reports alone.
LEMMA MoveDisk ==
  ASSUME WellGated, TypeInv, DiskInv, at \in Nodes,
         UNCHANGED <<built, disk, shipped, builds, said, saw>>,
         \/ Advance /\ (at = IndexOf("development") => disk = built)
         \/ ReworkCommit \/ ReworkSecurity \/ ReworkTesting
  PROVE  DiskInv'
<1>1. Has("development")
  BY GateFacts DEF Has, Returning
<1>2. CASE Advance /\ (at = IndexOf("development") => disk = built)
  BY <1>2 DEF Advance, DiskInv
<1>3. CASE JumpTo("development")
  BY <1>3 DEF JumpTo, DiskInv
<1>4. CASE Escalate
  BY <1>4 DEF Escalate, DiskInv
<1>5. QED BY <1>1, <1>2, <1>3, <1>4 DEF ReworkCommit, ReworkSecurity, ReworkTesting

LEMMA DiskInduction ==
  ASSUME WellGated PROVE TypeInv /\ EscInv /\ DiskInv /\ [Next]_vars => DiskInv'
<1> SUFFICES ASSUME TypeInv, EscInv, DiskInv, [Next]_vars PROVE DiskInv'
  OBVIOUS
<1> USE DEF code, history
<1> DEFINE dev == IndexOf("development")
<1>0. dev \in Nodes /\ Order[dev] = "development" /\ (shipped # 0 => dev < at)
  BY GateFacts, CommitFacts DEF Returning
<1>1. CASE Skip
  <2>1. at \in Nodes /\ at # dev
    BY <1>0, <1>1, OrderFacts DEF Skip, WellGated, Returning, Stage, TypeInv, TypeOK
  <2>2. QED BY <1>1, <2>1, MoveDisk DEF Skip
<1>2. CASE StartStage
  <2>1. at \in Nodes /\ at' = at /\ builds \in Nat
        /\ UNCHANGED <<built, disk, shipped, saw>>
    BY <1>2, OrderFacts DEF StartStage, TypeInv, TypeOK
  <2>2. Building <=> at = dev
    BY <1>0, <2>1, CodersAt DEF Building, Stage, WellGated
  <2>3. CASE at = dev
    BY <1>2, <2>1, <2>2, <2>3 DEF StartStage, DiskInv, NoReport
  <2>4. CASE at # dev
    BY <1>2, <2>1, <2>2, <2>4 DEF StartStage, DiskInv
  <2>5. QED BY <2>3, <2>4
<1>3. ASSUME NEW a \in Agents, NEW r \in Reports, Answer(a, r) PROVE DiskInv'
  <2>1. at \in Nodes /\ a \in Crew[Stage] /\ phase = "agents"
        /\ UNCHANGED <<at, phase, disk, shipped, builds>>
    BY <1>3 DEF Answer, TypeInv, PhaseInv
  <2>2. CASE at = dev
    <3>1. a \notin Reporters /\ said = NoReport /\ builds # 0 /\ shipped = 0
      BY <1>0, <2>1, <2>2, OrderFacts DEF Stage, WellGated, DiskInv
    <3>2. UNCHANGED <<said, saw>> /\ built' \in {built, builds}
      BY <1>3, <3>1 DEF Answer, Survives
    <3>3. QED BY <2>1, <2>2, <3>1, <3>2 DEF DiskInv, NoReport
  <2>3. CASE at # dev
    <3>1. a \notin Coders
      BY <2>1, <2>3, CodersAt DEF Stage
    <3>2. built' = built
      BY <1>3, <3>1 DEF Answer
    <3>3. \A b \in Reporters : said'[b] # "none" => saw'[b] = disk
      BY <1>3 DEF Answer, DiskInv, TypeInv, TypeOK
    <3>4. QED BY <2>1, <2>3, <3>2, <3>3 DEF DiskInv
  <2>4. QED BY <2>2, <2>3
<1>4. CASE FinishStage
  <2>1. at \in Nodes /\ UNCHANGED <<built, disk, shipped, builds, said, saw>> /\ phase = "agents"
    BY <1>4 DEF FinishStage, TypeInv, PhaseInv
  <2>2. CASE Stage \notin Returning /\ Advance
    BY <1>0, <2>1, <2>2, MoveDisk DEF Returning, Stage
  <2>3. CASE at' = at /\ phase' \in {"materialize", "gate"}
    BY <2>1, <2>3 DEF DiskInv
  <2>4. QED BY <1>4, <2>2, <2>3 DEF FinishStage
<1>5. CASE CombinedGate \/ SecurityGate
  <2>1. /\ at \in Nodes /\ Stage # "development"
        /\ UNCHANGED <<built, disk, shipped, builds, said, saw>>
    BY <1>5 DEF CombinedGate, SecurityGate, TypeInv, PhaseInv
  <2>2. at # dev
    BY <1>0, <2>1 DEF Stage
  <2>3. Advance \/ ReworkSecurity \/ ReworkTesting
    BY <1>5 DEF CombinedGate, SecurityGate
  <2>4. QED BY <2>1, <2>2, <2>3, MoveDisk
<1>6. CASE Materialize
  <2>1. at \in Nodes /\ at = dev /\ UNCHANGED <<built, shipped, builds, said, saw>>
    BY <1>6, IndexFacts DEF Materialize, TypeInv, PhaseInv, Stage
  <2>2. said = NoReport /\ shipped = 0
    BY <1>0, <1>6, <2>1, OrderFacts DEF Materialize, DiskInv
  <2>3. CASE disk' = disk /\ (ReworkCommit \/ (Advance /\ built = 0))
    BY <2>1, <2>3, MoveDisk DEF DiskInv
  <2>4. CASE disk' = built /\ Advance
    BY <2>1, <2>2, <2>4 DEF Advance, DiskInv, NoReport
  <2>5. QED BY <1>6, <2>3, <2>4 DEF Materialize, Written
<1>7. CASE Commit
  <2>1. at \in Nodes /\ at # dev /\ UNCHANGED <<built, disk, builds, said, saw>>
    BY <1>0, <1>7 DEF Commit, TypeInv, PhaseInv, Stage
  <2>2. CASE shipped' = shipped
    BY <1>7, <2>1, <2>2, MoveDisk DEF Commit
  <2>3. CASE shipped' = built /\ Advance
    BY <2>1, <2>3 DEF Advance, DiskInv
  <2>4. QED BY <1>7, <2>1, <2>2, <2>3 DEF Commit, DiskInv
<1>8. CASE \/ StartCommit \/ Return \/ Raise \/ Settle \/ Cancel \/ UNCHANGED vars
           \/ \E a \in Agents : Fail(a)
  BY <1>8 DEF StartCommit, Return, Raise, Settle, Cancel, Fail, vars, DiskInv
<1>9. QED BY <1>1, <1>2, <1>3, <1>4, <1>5, <1>6, <1>7, <1>8 DEF Next, Run

\* What is committed is what the coders' texts of all cycles come to, and what
\* everybody who reported on the build had in front of them.
THEOREM VettedIsShipped == ASSUME WellGated PROVE Spec => []ShipsWhatWasVetted
<1>1. Init => EscInv /\ DiskInv
  BY DEF Init, EscInv, DiskInv, NoReport
<1>2. TypeInv /\ EscInv /\ DiskInv => ShipsWhatWasVetted
  <2> SUFFICES ASSUME TypeInv, EscInv, DiskInv, shipped # 0 PROVE ShipsWhatWasVetted
    BY DEF ShipsWhatWasVetted
  <2>1. at # IndexOf("development")
    BY CommitFacts, GateFacts, OrderFacts DEF Returning
  <2>2. QED BY <2>1 DEF DiskInv, ShipsWhatWasVetted
<1>3. QED BY <1>1, <1>2, TypeInvariance, EscInduction, DiskInduction, PTL DEF Spec

=============================================================================
