----------------------------- MODULE MakingProofs -----------------------------
(***************************************************************************)
(* What holds of each part of Making whatever the numbers of agents, calls, *)
(* documents, episodes, lessons, stories and model calls: the inductive    *)
(* invariants of the agents' loop, the knowledge base, the memory, the lessons, *)
(* the records of a run and its cost, the lemma for each action that keeps *)
(* them, and the properties they imply.                                    *)
(***************************************************************************)
EXTENDS Making, FiniteSetTheorems, WellFoundedInduction, SequenceTheorems, TLAPS

\* A counter below its bound may count once more.
LEMMA CountsUp == ASSUME NEW bound \in Nat, NEW n \in 0..bound, n < bound PROVE n + 1 \in 0..bound
OBVIOUS

LEMMA LeastNatural ==
  ASSUME NEW T, T \subseteq Nat, T # {} PROVE \E x \in T : \A y \in T : x <= y
<1> DEFINE R == OpToRel(<, Nat)
<1>1. IsWellFoundedOn(R, Nat)
  BY NatLessThanWellFounded
<1>2. \A x, y \in Nat : y < x => <<y, x>> \in R
  BY DEF OpToRel
<1> HIDE DEF R
<1>3. PICK x \in T : \A y \in T : ~ (<<y, x>> \in R)
  BY <1>1, WFMin
<1>4. ASSUME NEW y \in T PROVE x <= y
  <2>1. x \in Nat /\ y \in Nat
    BY <1>4
  <2>2. ~ (y < x)
    BY <1>2, <1>3, <2>1
  <2> QED
    BY <2>1, <2>2
<1> QED
  BY <1>4
LEMMA NatSetInduction ==
  ASSUME NEW S, 0 \in S, \A n \in Nat : n \in S => n + 1 \in S PROVE Nat \subseteq S
<1> SUFFICES ASSUME Nat \ S # {} PROVE FALSE
  OBVIOUS
<1>1. PICK x \in Nat \ S : \A y \in Nat \ S : x <= y
  <2> DEFINE T == Nat \ S
  <2>1. T \subseteq Nat /\ T # {}
    OBVIOUS
  <2> HIDE DEF T
  <2>2. \E x \in T : \A y \in T : x <= y
    BY <2>1, LeastNatural
  <2> QED
    BY <2>2 DEF T
<1>2. x # 0 /\ x - 1 \in Nat
  BY <1>1
<1>3. x - 1 \in S
  BY <1>1, <1>2
<1> QED
  BY <1>1, <1>2, <1>3

CallsTyped == agentCall \in [AgentCalls -> Agent!Invocation] /\ asked \in [AgentCalls -> SUBSET Models]

\* Nobody has been asked outside the loop.
AskedInLoop == \A c \in AgentCalls : agentCall[c].stage \notin {"ground", "ask", "tool"} => asked[c] = {}

\* Whoever may still ask has resolved a model.
Bound == {"start", "ground", "ask", "tool"}
ModelChosen == \A c \in AgentCalls : agentCall[c].stage \in Bound => agentCall[c].model \in Models

ModelInv == CallsTyped /\ AskedInLoop /\ ModelChosen /\ Agent!ModelStaysWithCall

LEMMA NoneYet == 0 \in 0..MaxTurns /\ 0 \in 0..MaxRetries /\ 0 \in 0..MaxAgentChanges
BY BoundsAssumption

LEMMA IdleTyped == Agent!Idle \in Agent!Invocation /\ Agent!Idle.stage = "idle" /\ Agent!Idle.kind = "execute"
BY NoneYet DEF Agent!Idle, Agent!Invocation, Agent!Roots

\* A call that stays with its model and asks no other one.
LEMMA CallKeeps ==
  ASSUME ModelInv, NEW c \in AgentCalls, NEW f \in Agent!Invocation, Agent!Sets(c, f), f.model = agentCall[c].model,
         agentCall[c].stage \in Bound,
         \/ UNCHANGED asked
         \/ asked' = [asked EXCEPT ![c] = @ \cup {agentCall[c].model}],
         f.stage \notin {"ground", "ask", "tool"} => agentCall[c].stage \notin {"ground", "ask", "tool"} /\ UNCHANGED asked
  PROVE  ModelInv'
<1>1. agentCall'[c] = f /\ \A d \in AgentCalls \ {c} : agentCall'[d] = agentCall[d]
  BY DEF ModelInv, CallsTyped, Agent!Sets
<1>2. asked'[c] \in {asked[c], asked[c] \cup {agentCall[c].model}} /\ \A d \in AgentCalls \ {c} : asked'[d] = asked[d]
  BY DEF ModelInv, CallsTyped
<1>3. agentCall[c] \in Agent!Invocation
  BY DEF ModelInv, CallsTyped
<1>4. CallsTyped'
  <2>1. agentCall' \in [AgentCalls -> Agent!Invocation]
    BY DEF ModelInv, CallsTyped, Agent!Sets
  <2>2. agentCall[c].model \in Models
    BY DEF ModelInv, ModelChosen
  <2>3. asked' \in [AgentCalls -> SUBSET Models]
    BY <2>2 DEF ModelInv, CallsTyped
  <2> QED
    BY <2>1, <2>3 DEF CallsTyped
<1>5. AskedInLoop'
  BY <1>1, <1>2 DEF ModelInv, AskedInLoop
<1>6. Agent!ModelStaysWithCall'
  BY <1>1, <1>2 DEF ModelInv, Agent!ModelStaysWithCall
<1>7. ModelChosen'
  BY <1>1 DEF ModelInv, ModelChosen
<1> QED
  BY <1>4, <1>5, <1>6, <1>7 DEF ModelInv

\* The locals of a call, changed before the loop or at its end.
LEMMA CallOutside ==
  ASSUME ModelInv, NEW c \in AgentCalls, NEW f \in Agent!Invocation, Agent!Sets(c, f),
         f.stage \in Bound => f.model \in Models,
         \/ asked[c] = {} /\ UNCHANGED asked
         \/ asked' = [asked EXCEPT ![c] = {}]
  PROVE  ModelInv'
<1>1. agentCall'[c] = f /\ \A d \in AgentCalls \ {c} : agentCall'[d] = agentCall[d]
  BY DEF ModelInv, CallsTyped, Agent!Sets
<1>2. asked'[c] = {} /\ \A d \in AgentCalls \ {c} : asked'[d] = asked[d]
  BY DEF ModelInv, CallsTyped
<1>3. CallsTyped'
  BY DEF ModelInv, CallsTyped, Agent!Sets
<1>4. AskedInLoop' /\ ModelChosen' /\ Agent!ModelStaysWithCall'
  BY <1>1, <1>2 DEF ModelInv, AskedInLoop, ModelChosen, Agent!ModelStaysWithCall
<1> QED
  BY <1>3, <1>4 DEF ModelInv

LEMMA EndsKeeps == ASSUME ModelInv, NEW c \in AgentCalls, Agent!Ends(c) PROVE ModelInv'
<1>1. [Agent!Idle EXCEPT !.stage = "over"] \in Agent!Invocation /\ [Agent!Idle EXCEPT !.stage = "over"].stage \notin Bound
  BY NoneYet DEF Agent!Idle, Agent!Invocation, Agent!Roots, Bound
<1> QED
  BY <1>1, CallOutside DEF Agent!Ends

LEMMA MovesKeeps ==
  ASSUME ModelInv, NEW c \in AgentCalls, NEW step \in {"ground", "ask", "tool"}, Agent!Moves(c, step), UNCHANGED asked,
         agentCall[c].stage \in Bound
  PROVE  ModelInv'
<1>1. agentCall[c] \in Agent!Invocation
  BY DEF ModelInv, CallsTyped
<1>2. [agentCall[c] EXCEPT !.stage = step] \in Agent!Invocation
      /\ [agentCall[c] EXCEPT !.stage = step].model = agentCall[c].model
      /\ [agentCall[c] EXCEPT !.stage = step].stage = step
  BY <1>1 DEF Agent!Invocation
<1> QED
  BY <1>2, CallKeeps DEF Agent!Moves

(***************************************************************************)
(* The steps                                                               *)
(***************************************************************************)
LEMMA BeginKeeps == ASSUME ModelInv, NEW c \in AgentCalls, Agent!Begin(c) PROVE ModelInv'
<1>1. PICK kind \in {"execute", "single"}, r \in Agent!Roots, want \in Models \cup {Null} :
        Agent!Sets(c, [Agent!Idle EXCEPT !.kind = kind, !.stage = "resolve", !.root = r, !.want = want])
  BY DEF Agent!Begin
<1>2. /\ [Agent!Idle EXCEPT !.kind = kind, !.stage = "resolve", !.root = r, !.want = want] \in Agent!Invocation
      /\ [Agent!Idle EXCEPT !.kind = kind, !.stage = "resolve", !.root = r, !.want = want].stage \notin Bound
  BY NoneYet DEF Agent!Idle, Agent!Invocation, Agent!Roots, Bound
<1>3. asked[c] = {} /\ UNCHANGED asked
  BY DEF Agent!Begin, ModelInv, AskedInLoop, Agent!history
<1> QED
  BY <1>1, <1>2, <1>3, CallOutside

LEMMA ResolveKeeps == ASSUME ModelInv, NEW c \in AgentCalls, Agent!Resolve(c) PROVE ModelInv'
<1>1. PICK stored \in {override, Null} :
        LET m == Agent!Resolved(c, stored) IN
        Agent!Sets(c, [agentCall[c] EXCEPT !.stage = "start",
                   !.model = IF Agent!Known(m) = "client" THEN m ELSE Yaml,
                   !.client = IF Agent!Known(m) = "client" THEN m ELSE IF booted THEN "aws" ELSE Null])
  BY DEF Agent!Resolve
<1> DEFINE m == Agent!Resolved(c, stored)
           model == IF Agent!Known(m) = "client" THEN m ELSE Yaml
           client == IF Agent!Known(m) = "client" THEN m ELSE IF booted THEN "aws" ELSE Null
           f == [agentCall[c] EXCEPT !.stage = "start", !.model = model, !.client = client]
<1>5. m \in Models
  BY YamlAssumption DEF Agent!Resolved, Agent!Listed
<1>6. model \in Models /\ client \in Models \cup {Null, "aws"}
  BY <1>5, YamlAssumption
<1>7. Agent!Sets(c, f)
  BY <1>1
<1>2. agentCall[c] \in Agent!Invocation
  BY DEF ModelInv, CallsTyped
<1>3. f \in Agent!Invocation /\ f.model \in Models
  <2> HIDE DEF model, client
  <2> QED
    BY <1>2, <1>6 DEF Agent!Invocation
<1>4. asked[c] = {} /\ UNCHANGED asked
  BY DEF Agent!Resolve, ModelInv, AskedInLoop, Agent!history
<1> QED
  BY <1>3, <1>4, <1>7, CallOutside

LEMMA StartKeeps == ASSUME ModelInv, NEW c \in AgentCalls, Agent!Start(c) PROVE ModelInv'
<1>1. CASE Agent!Ends(c)
  BY <1>1, EndsKeeps
<1>2. ASSUME NEW next \in {"ground", "ask"}, Agent!Moves(c, next), UNCHANGED Agent!history PROVE ModelInv'
  BY <1>2, MovesKeeps DEF Agent!history, Agent!Start, Bound
<1> QED
  BY <1>1, <1>2 DEF Agent!Start

LEMMA GroundKeeps == ASSUME ModelInv, NEW c \in AgentCalls, Agent!Ground(c) PROVE ModelInv'
BY MovesKeeps DEF Agent!Ground, Agent!history, Bound

LEMMA AnswersKeep == ASSUME ModelInv, NEW c \in AgentCalls, Agent!Retries(c) \/ Agent!Ended(c) \/ Agent!AsksTools(c) PROVE ModelInv'
<1>1. agentCall[c] \in Agent!Invocation
  BY DEF ModelInv, CallsTyped
<1>2. CASE Agent!Retries(c)
  <2> DEFINE n == agentCall[c].attempt + 1
             f == [agentCall[c] EXCEPT !.attempt = n]
  <2>0. n \in 0..MaxRetries
    BY <1>1, <1>2, BoundsAssumption DEF Agent!Invocation, Agent!Retries
  <2>2. agentCall[c].stage = "ask" /\ Agent!Sets(c, f) /\ asked' = [asked EXCEPT ![c] = @ \cup {agentCall[c].model}]
    BY <1>2 DEF Agent!Retries, Agent!Attempt, Agent!Heard, Agent!AskedModel
  <2> HIDE DEF n
  <2>1. f \in Agent!Invocation /\ f.model = agentCall[c].model /\ f.stage = agentCall[c].stage
    BY <1>1, <2>0 DEF Agent!Invocation
  <2> QED
    BY <2>1, <2>2, CallKeeps DEF Bound
<1>3. CASE Agent!Ended(c)
  BY <1>3, EndsKeeps DEF Agent!Ended
<1>4. CASE Agent!AsksTools(c)
  <2> DEFINE f == [agentCall[c] EXCEPT !.stage = "tool", !.attempt = 0]
  <2>1. f \in Agent!Invocation /\ f.model = agentCall[c].model /\ f.stage = "tool"
    BY <1>1, NoneYet DEF Agent!Invocation
  <2>2. Agent!Sets(c, f) /\ asked' = [asked EXCEPT ![c] = @ \cup {agentCall[c].model}] /\ agentCall[c].stage = "ask"
    BY <1>4 DEF Agent!AsksTools, Agent!Heard, Agent!AskedModel, Agent!Attempt
  <2> QED
    BY <2>1, <2>2, CallKeeps DEF Bound
<1> QED
  BY <1>2, <1>3, <1>4

LEMMA UseToolKeeps == ASSUME ModelInv, NEW c \in AgentCalls, Agent!UseTool(c) PROVE ModelInv'
<1>1. agentCall[c] \in Agent!Invocation
  BY DEF ModelInv, CallsTyped
<1>2. CASE UNCHANGED <<agentCall, asked>>
  BY <1>2 DEF ModelInv, CallsTyped, AskedInLoop, ModelChosen, Agent!ModelStaysWithCall
<1>3. CASE agentCall[c].turns + 1 < MaxTurns /\ UNCHANGED asked /\ Agent!Sets(c, [agentCall[c] EXCEPT !.turns = @ + 1, !.stage = "ask"])
  <2> DEFINE t == agentCall[c].turns + 1
             f == [agentCall[c] EXCEPT !.turns = t, !.stage = "ask"]
  <2>1. t \in 0..MaxTurns
    BY <1>1, <1>3, BoundsAssumption DEF Agent!Invocation
  <2>2. Agent!Sets(c, f) /\ agentCall[c].stage = "tool"
    BY <1>3 DEF Agent!UseTool, Agent!Works
  <2> HIDE DEF t
  <2>3. f \in Agent!Invocation /\ f.model = agentCall[c].model /\ f.stage = "ask"
    BY <1>1, <2>1 DEF Agent!Invocation
  <2> QED
    BY <1>3, <2>2, <2>3, CallKeeps DEF Bound
<1>4. CASE Agent!Ends(c)
  BY <1>4, EndsKeeps
<1> QED
  BY <1>2, <1>3, <1>4 DEF Agent!UseTool, Agent!Works

LEMMA ModelInit == Agent!Init => ModelInv
BY IdleTyped DEF Agent!Init, ModelInv, CallsTyped, AskedInLoop, ModelChosen, Bound, Agent!ModelStaysWithCall

LEMMA ModelNext == ASSUME ModelInv, [Agent!Next]_Agent!agentVars PROVE ModelInv'
<1>1. CASE Agent!AssignModel \/ Agent!ClearModel \/ Agent!Reload \/ UNCHANGED Agent!agentVars
  BY <1>1 DEF Agent!AssignModel, Agent!ClearModel, Agent!Reload, Agent!agentVars, Agent!history, ModelInv, CallsTyped, AskedInLoop, ModelChosen, Agent!ModelStaysWithCall
<1>2. ASSUME NEW c \in AgentCalls, Agent!Begin(c) \/ Agent!Runs(c) PROVE ModelInv'
  BY <1>2, BeginKeeps, ResolveKeeps, StartKeeps, GroundKeeps, AnswersKeep, UseToolKeeps DEF Agent!Runs
<1> QED
  BY <1>1, <1>2 DEF Agent!Next

(***************************************************************************)
(* The types of what the invocations share                                 *)
(***************************************************************************)
SharedTyped ==
  /\ root \in Agent!Roots \cup {Null} /\ grounding \in Agent!Roots \cup {Null}
  /\ override \in Models \cup {Null}
  /\ catalog \in [Models -> {"absent", "no key", "good"}]
  /\ pool \in [Models -> {"none", "client", "failed"}]
  /\ touched \in [AgentCalls -> SUBSET Agent!Roots] /\ told \in [AgentCalls -> SUBSET Agent!Roots]
  /\ agentChanges \in 0..MaxAgentChanges
AgentInv == ModelInv /\ SharedTyped

LEMMA AgentInit == ASSUME Agent!Init PROVE AgentInv
<1>1. catalog \in [Models -> {"absent", "no key", "good"}]
  BY DEF Agent!Init
<1>2. /\ pool \in [Models -> {"none", "client", "failed"}] /\ touched \in [AgentCalls -> SUBSET Agent!Roots]
      /\ told \in [AgentCalls -> SUBSET Agent!Roots]
  BY DEF Agent!Init
<1>3. SharedTyped
  BY <1>1, <1>2, NoneYet DEF Agent!Init, SharedTyped
<1> QED
  BY <1>3, ModelInit DEF AgentInv

LEMMA SharedNext == ASSUME AgentInv, [Agent!Next]_Agent!agentVars PROVE SharedTyped'
<1>0. ASSUME Agent!Counts PROVE agentChanges' \in 0..MaxAgentChanges
  <2>1. agentChanges \in 0..MaxAgentChanges
    BY DEF AgentInv, SharedTyped
  <2> QED
    BY <1>0, <2>1, BoundsAssumption, CountsUp DEF Agent!Counts
<1>1. CASE Agent!AssignModel
  BY <1>0, <1>1 DEF Agent!AssignModel, Agent!agentObject, Agent!history, AgentInv, SharedTyped
<1>2. CASE Agent!ClearModel
  BY <1>0, <1>2 DEF Agent!ClearModel, Agent!agentObject, Agent!history, AgentInv, SharedTyped
<1>3. CASE Agent!Reload
  BY <1>0, <1>3 DEF Agent!Reload, Agent!agentObject, Agent!history, AgentInv, SharedTyped
<1>4. CASE UNCHANGED Agent!agentVars
  BY <1>4 DEF Agent!agentVars, AgentInv, SharedTyped
<1>5. ASSUME NEW c \in AgentCalls, Agent!Begin(c) PROVE SharedTyped'
  BY <1>5 DEF Agent!Begin, Agent!agentObject, Agent!models, Agent!history, AgentInv, SharedTyped
<1>9. ASSUME NEW c \in AgentCalls, Agent!Ground(c) PROVE SharedTyped'
  <2>1. agentCall[c].root \in Agent!Roots
    BY DEF AgentInv, ModelInv, CallsTyped, Agent!Invocation
  <2> QED
    BY <1>9, <2>1 DEF Agent!Ground, Agent!models, Agent!history, AgentInv, SharedTyped
<1>10. ASSUME NEW c \in AgentCalls, Agent!Retries(c) \/ Agent!AsksTools(c) PROVE SharedTyped'
  <2>1. Agent!InPrompt \subseteq Agent!Roots
    BY DEF Agent!InPrompt, AgentInv, SharedTyped
  <2>2. told \in [AgentCalls -> SUBSET Agent!Roots] /\ told' = [told EXCEPT ![c] = @ \cup Agent!InPrompt]
    BY <1>10 DEF Agent!Retries, Agent!AsksTools, Agent!Heard, AgentInv, SharedTyped
  <2>3. told' \in [AgentCalls -> SUBSET Agent!Roots]
    BY <2>1, <2>2
  <2> QED
    BY <1>10, <2>3 DEF Agent!Retries, Agent!AsksTools, Agent!Attempt, Agent!Heard, Agent!agentObject, Agent!models, AgentInv, SharedTyped
<1>6. ASSUME NEW c \in AgentCalls, Agent!Resolve(c) PROVE SharedTyped'
  <2>1. PICK stored \in {override, Null} : pool' = [pool EXCEPT ![Agent!Resolved(c, stored)] = Agent!Known(Agent!Resolved(c, stored))]
    BY <1>6 DEF Agent!Resolve
  <2>2. Agent!Resolved(c, stored) \in Models
    BY YamlAssumption DEF Agent!Resolved, Agent!Listed
  <2>3. pool' \in [Models -> {"none", "client", "failed"}]
    BY <2>1, <2>2 DEF Agent!Known, AgentInv, SharedTyped
  <2> QED
    BY <1>6, <2>3 DEF Agent!Resolve, Agent!agentObject, Agent!history, AgentInv, SharedTyped
<1>7. ASSUME NEW c \in AgentCalls, Agent!Start(c) PROVE SharedTyped'
  <2>1. agentCall[c].root \in Agent!Roots
    BY DEF AgentInv, ModelInv, CallsTyped, Agent!Invocation
  <2>2. touched' \in [AgentCalls -> SUBSET Agent!Roots] /\ told' \in [AgentCalls -> SUBSET Agent!Roots]
    BY <1>7 DEF Agent!Start, Agent!Ends, Agent!history, AgentInv, SharedTyped
  <2> QED
    BY <1>7, <2>1, <2>2 DEF Agent!Start, Agent!agentObject, Agent!models, AgentInv, SharedTyped
<1>8. ASSUME NEW c \in AgentCalls, Agent!Ended(c) \/ Agent!UseTool(c) PROVE SharedTyped'
  <2>1. Agent!RootOfTool(c) \in Agent!Roots
    BY DEF Agent!RootOfTool, Agent!Roots, AgentInv, SharedTyped
  <2>2. touched \in [AgentCalls -> SUBSET Agent!Roots] /\ told \in [AgentCalls -> SUBSET Agent!Roots]
    BY DEF AgentInv, SharedTyped
  <2>3. \/ /\ touched' = [touched EXCEPT ![c] = @ \cup {Agent!RootOfTool(c)}]
           /\ told' = [told EXCEPT ![c] = @ \cup {Agent!RootOfTool(c)}]
        \/ touched' = [touched EXCEPT ![c] = {}] /\ told' = [told EXCEPT ![c] = {}]
    BY <1>8 DEF Agent!Ended, Agent!UseTool, Agent!Works, Agent!Ends
  <2>4. touched' \in [AgentCalls -> SUBSET Agent!Roots] /\ told' \in [AgentCalls -> SUBSET Agent!Roots]
    BY <2>1, <2>2, <2>3
  <2> QED
    BY <1>8, <2>4 DEF Agent!Ended, Agent!UseTool, Agent!Attempt, Agent!agentObject, Agent!models, AgentInv, SharedTyped
<1> QED
  BY <1>1, <1>5, <1>6, <1>7, <1>8, <1>2, <1>3, <1>4, <1>9, <1>10 DEF Agent!Next, Agent!Runs

LEMMA AgentNext == ASSUME AgentInv, [Agent!Next]_Agent!agentVars PROVE AgentInv'
BY ModelNext, SharedNext DEF AgentInv

LEMMA AgentFacts == ASSUME AgentInv PROVE Agent!TypeOK /\ Agent!ModelStaysWithCall
BY DEF AgentInv, ModelInv, CallsTyped, SharedTyped, Agent!TypeOK

\* Null is neither a document, a row nor a retrieval; the two fixed namespaces exist.
Distinct == Null \notin Docs \cup Base!Document \cup Base!Retrieval /\ {Personal, Platform} \subseteq Spaces

BaseTyped ==
  /\ doc \in [Docs -> Base!Document \cup {Null}]
  /\ buckets \subseteq Buckets
  /\ ingestion \in [Writers -> Base!Ingestion \cup {Base!Idle}]
  /\ \A w \in Writers : ingestion[w].stage \in {"insert", "tag", "approve"} => ingestion[w].doc \in Docs
  /\ look \in Base!Retrieval \cup {Null}
  /\ vetted \subseteq Docs

\* An approved document was approved by somebody.
ApprovedIsVetted == \A d \in Docs : doc[d] # Null /\ doc[d].status = "approved" => d \in vetted

\* What may be handed out to a request of this namespace.
Fit(space, d) == d \in vetted /\ doc[d] # Null /\ doc[d].space = space

AnswersFit ==
  /\ \A h \in handed : Fit(h[1], h[2])
  /\ look # Null => \A d \in look.found : Fit(look.space, d)
  /\ \A c \in cache : \A d \in c.found : Fit(c.key[1], d)

KnowledgeInv == BaseTyped /\ ApprovedIsVetted /\ AnswersFit

\* Rows are never removed from the history, nor moved to another namespace.
RowsKept ==
  /\ vetted \subseteq vetted'
  /\ \A d \in Docs : doc[d] # Null => doc'[d] # Null /\ doc'[d].space = doc[d].space

(***************************************************************************)
(* The operations, by what they do to the rows                             *)
(***************************************************************************)
Ingests(w) == Base!Upload(w) \/ Base!IngestPersonal(w) \/ Base!IngestTrusted(w) \/ Base!Seed(w) \/ Base!Reindex(w)
Works(w) == Base!WriteDocument(w) \/ Base!InsertChunks(w) \/ Base!SetTags(w) \/ Base!ApproveTrusted(w)
Curates(d) == Base!Approve(d) \/ Base!Retire(d) \/ Base!SetBuckets(d) \/ Base!PurgeDocument(d)
Erases == \/ \E text \in Texts : Base!ForgetSubject(text)
          \/ \E space \in Spaces : Base!PurgeProject(space)
          \/ \E b \in Buckets : Base!DeleteBucket(b)
Answers == \/ \E d \in Docs, space \in Spaces : Base!Get(space, d)
           \/ \E space \in Spaces, scope \in SUBSET Buckets : Base!Search(space, scope)
           \/ Base!Hydrate \/ Base!Evict

LEMMA KnowledgeSteps ==
  ASSUME Base!Next
  PROVE  \/ \E w \in Writers : Ingests(w) \/ Works(w)
         \/ \E d \in Docs : Curates(d)
         \/ Erases \/ Answers \/ Base!Crash
BY DEF Base!Next, Ingests, Works, Curates, Erases, Answers

\* Writing one row of a document that exists, in its namespace.
LEMMA RowWritten ==
  ASSUME Distinct, BaseTyped, NEW d \in Docs, doc[d] # Null,
         NEW f \in Base!Document, f.space = doc[d].space, Base!SetsDoc(d, f)
  PROVE  /\ doc' \in [Docs -> Base!Document \cup {Null}]
         /\ \A e \in Docs : doc[e] # Null => doc'[e] # Null /\ doc'[e].space = doc[e].space
         /\ doc'[d] = f /\ \A e \in Docs \ {d} : doc'[e] = doc[e]
BY DEF Distinct, BaseTyped, Base!SetsDoc

LEMMA TaggedType ==
  ASSUME BaseTyped, Distinct, NEW d \in Docs, doc[d] # Null, NEW tags \in SUBSET Buckets
  PROVE  /\ Base!Tagged(d, tags) \in Base!Document
         /\ Base!Tagged(d, tags).space = doc[d].space /\ Base!Tagged(d, tags).status = doc[d].status
<1>1. doc[d] \in Base!Document
  BY DEF BaseTyped
<1> QED
  BY <1>1 DEF Base!Tagged, Base!Document

LEMMA ErasedRows ==
  ASSUME Distinct, BaseTyped, NEW lostDocs, Base!Erased(lostDocs)
  PROVE  /\ doc' \in [Docs -> Base!Document \cup {Null}]
         /\ \A e \in Docs : doc[e] # Null => doc'[e] # Null /\ doc'[e].space = doc[e].space
         /\ \A e \in Docs : doc'[e] # Null /\ doc'[e].status = "approved" => doc'[e] = doc[e]
<1>1. ASSUME NEW e \in Docs, doc[e] # Null
      PROVE  [doc[e] EXCEPT !.status = "gone"] \in Base!Document
             /\ [doc[e] EXCEPT !.status = "gone"].space = doc[e].space
             /\ [doc[e] EXCEPT !.status = "gone"].status = "gone"
  BY <1>1 DEF BaseTyped, Base!Document, Base!Status
<1> QED
  BY <1>1 DEF Distinct, BaseTyped, Base!Erased, Base!Live

\* What one step has to keep, and what follows for the answers.
RowsSound == BaseTyped' /\ RowsKept /\ ApprovedIsVetted'

LEMMA FitKept ==
  ASSUME Distinct, BaseTyped, RowsKept, NEW space, NEW d, Fit(space, d)
  PROVE  Fit(space, d)'
BY DEF BaseTyped, RowsKept, Fit

(***************************************************************************)
(* Ingestion                                                               *)
(***************************************************************************)
LEMMA BeginsSound ==
  ASSUME Distinct, BaseTyped, ApprovedIsVetted, NEW w \in Writers, NEW space \in Spaces, NEW text \in Texts,
         NEW tags \in SUBSET buckets, NEW source \in {"upload", "auto", "trusted"}, Base!Begins(w, space, text, tags, source)
  PROVE  RowsSound
<1>1. CASE Base!Same(space, text) # {}
  <2>1. PICK d \in Base!Same(space, text) : Base!SetsDoc(d, Base!Tagged(d, doc[d].tags \cup tags))
    BY <1>1 DEF Base!Begins
  <2>2. d \in Docs /\ doc[d] # Null /\ doc[d] \in Base!Document
    BY <2>1 DEF Base!Same, Base!Live, BaseTyped
  <2>3. doc[d].tags \cup tags \in SUBSET Buckets
    BY <2>2 DEF BaseTyped, Base!Document
  <2>4. /\ Base!Tagged(d, doc[d].tags \cup tags) \in Base!Document
        /\ Base!Tagged(d, doc[d].tags \cup tags).space = doc[d].space
        /\ Base!Tagged(d, doc[d].tags \cup tags).status = doc[d].status
    BY <2>2, <2>3, TaggedType
  <2>5. UNCHANGED <<ingestion, buckets, look, vetted>>
    BY <1>1 DEF Base!Begins
  <2> QED
    BY <2>1, <2>2, <2>4, <2>5, RowWritten DEF RowsSound, BaseTyped, RowsKept, ApprovedIsVetted
<1>2. CASE Base!Same(space, text) = {}
  <2> DEFINE entry == [stage |-> "embed", doc |-> Null, space |-> space, text |-> text, tags |-> tags, source |-> source]
  <2>1. ingestion' = [ingestion EXCEPT ![w] = entry] /\ UNCHANGED <<doc, buckets, look, vetted>>
    BY <1>2 DEF Base!Begins
  <2>2. entry \in Base!Ingestion
    BY DEF Base!Ingestion, BaseTyped
  <2>3. ingestion' \in [Writers -> Base!Ingestion \cup {Base!Idle}]
    BY <2>1, <2>2 DEF BaseTyped
  <2>4. \A v \in Writers : ingestion'[v].stage \in {"insert", "tag", "approve"} => ingestion'[v].doc \in Docs
    BY <2>1 DEF BaseTyped
  <2> QED
    BY <2>1, <2>3, <2>4 DEF RowsSound, BaseTyped, RowsKept, ApprovedIsVetted
<1> QED
  BY <1>1, <1>2

LEMMA IngestsSound ==
  ASSUME Distinct, BaseTyped, ApprovedIsVetted, NEW w \in Writers, Ingests(w)
  PROVE  RowsSound
<1>1. CASE Base!Upload(w)
  BY <1>1, BeginsSound DEF Base!Upload
<1>2. CASE Base!IngestPersonal(w)
  BY <1>2, BeginsSound DEF Base!IngestPersonal, Distinct
<1>3. CASE Base!IngestTrusted(w)
  BY <1>3, BeginsSound DEF Base!IngestTrusted
<1>4. CASE Base!Seed(w)
  BY <1>4, BeginsSound DEF Base!Seed
<1>5. CASE Base!Reindex(w)
  BY <1>5, BeginsSound DEF Base!Reindex, Distinct
<1> QED
  BY <1>1, <1>2, <1>3, <1>4, <1>5 DEF Ingests

\* A job that stops, or goes on with the document it has.
LEMMA JobStops ==
  ASSUME BaseTyped, NEW w \in Writers, Base!Stops(w)
  PROVE  /\ ingestion' \in [Writers -> Base!Ingestion \cup {Base!Idle}]
         /\ \A v \in Writers : ingestion'[v].stage \in {"insert", "tag", "approve"} => ingestion'[v].doc \in Docs
BY DEF BaseTyped, Base!Stops, Base!Idle

LEMMA JobGoes ==
  ASSUME BaseTyped, NEW w \in Writers, NEW step \in {"tag", "approve"}, Base!Goes(w, step),
         ingestion[w].stage \in {"insert", "tag"}
  PROVE  /\ ingestion' \in [Writers -> Base!Ingestion \cup {Base!Idle}]
         /\ \A v \in Writers : ingestion'[v].stage \in {"insert", "tag", "approve"} => ingestion'[v].doc \in Docs
<1>1. ingestion[w] \in Base!Ingestion /\ ingestion[w].doc \in Docs
  BY DEF BaseTyped, Base!Idle
<1>2. [ingestion[w] EXCEPT !.stage = step] \in Base!Ingestion /\ [ingestion[w] EXCEPT !.stage = step].doc = ingestion[w].doc
  BY <1>1 DEF Base!Ingestion
<1> QED
  BY <1>1, <1>2 DEF BaseTyped, Base!Goes

LEMMA WriteDocumentSound ==
  ASSUME Distinct, BaseTyped, ApprovedIsVetted, NEW w \in Writers, Base!WriteDocument(w)
  PROVE  RowsSound
<1>1. CASE Base!Stops(w) /\ UNCHANGED <<doc, vetted>>
  BY <1>1, JobStops DEF Base!WriteDocument, RowsSound, BaseTyped, RowsKept, ApprovedIsVetted
<1>2. ASSUME NEW d \in Docs, doc[d] = Null,
             Base!SetsDoc(d, [space |-> ingestion[w].space, text |-> ingestion[w].text,
                         status |-> IF ingestion[w].source = "auto" THEN "approved" ELSE "pending",
                         chunked |-> FALSE, tags |-> {}, synced |-> {}]),
             vetted' = IF ingestion[w].source = "auto" THEN vetted \cup {d} ELSE vetted,
             ingestion' = [ingestion EXCEPT ![w] = [@ EXCEPT !.stage = "insert", !.doc = d]]
      PROVE  RowsSound
  <2> DEFINE new == [space |-> ingestion[w].space, text |-> ingestion[w].text,
                     status |-> IF ingestion[w].source = "auto" THEN "approved" ELSE "pending",
                     chunked |-> FALSE, tags |-> {}, synced |-> {}]
  <2>0. ingestion[w].stage = "embed" /\ ingestion[w] \in Base!Ingestion \cup {Base!Idle}
    BY DEF Base!WriteDocument, BaseTyped
  <2>1. ingestion[w] \in Base!Ingestion
    BY <2>0 DEF Base!Idle
  <2>2. new \in Base!Document
    BY <2>1 DEF Base!Document, Base!Ingestion, Base!Status
  <2>3. /\ doc' \in [Docs -> Base!Document \cup {Null}]
        /\ doc'[d] = new /\ \A e \in Docs \ {d} : doc'[e] = doc[e]
    BY <1>2, <2>2 DEF BaseTyped, Base!SetsDoc
  <2>4. [ingestion[w] EXCEPT !.stage = "insert", !.doc = d] \in Base!Ingestion
        /\ [ingestion[w] EXCEPT !.stage = "insert", !.doc = d].doc = d
    BY <2>1 DEF Base!Ingestion
  <2>5. /\ ingestion' \in [Writers -> Base!Ingestion \cup {Base!Idle}]
        /\ \A v \in Writers : ingestion'[v].stage \in {"insert", "tag", "approve"} => ingestion'[v].doc \in Docs
    BY <1>2, <2>4 DEF BaseTyped
  <2>6. UNCHANGED <<buckets, look>>
    BY DEF Base!WriteDocument
  <2>7. vetted \subseteq vetted' /\ vetted' \subseteq Docs
    BY <1>2 DEF BaseTyped
  <2>8. RowsKept
    BY <1>2, <2>3, <2>7 DEF RowsKept
  <2>9. ApprovedIsVetted'
    BY <1>2, <2>3, <2>7 DEF ApprovedIsVetted
  <2> QED
    BY <2>3, <2>5, <2>6, <2>7, <2>8, <2>9 DEF RowsSound, BaseTyped
<1> QED
  BY <1>1, <1>2 DEF Base!WriteDocument

LEMMA InsertChunksSound ==
  ASSUME Distinct, BaseTyped, ApprovedIsVetted, NEW w \in Writers, Base!InsertChunks(w)
  PROVE  RowsSound
<1> DEFINE d == ingestion[w].doc
           f == [doc[d] EXCEPT !.chunked = TRUE, !.synced = {}]
<1>1. d \in Docs
  BY DEF Base!InsertChunks, BaseTyped
<1>2. CASE Base!Live(d)
  <2>1. Base!SetsDoc(d, f) /\ Base!Goes(w, "tag") /\ UNCHANGED <<buckets, look, vetted>>
    BY <1>2 DEF Base!InsertChunks
  <2>2. doc[d] # Null /\ f \in Base!Document /\ f.space = doc[d].space /\ f.status = doc[d].status
    BY <1>1, <1>2 DEF Base!Live, BaseTyped, Base!Document
  <2>3. /\ doc' \in [Docs -> Base!Document \cup {Null}]
        /\ \A e \in Docs : doc[e] # Null => doc'[e] # Null /\ doc'[e].space = doc[e].space
        /\ doc'[d] = f /\ \A e \in Docs \ {d} : doc'[e] = doc[e]
    BY <1>1, <2>1, <2>2, RowWritten
  <2>4. /\ ingestion' \in [Writers -> Base!Ingestion \cup {Base!Idle}]
        /\ \A v \in Writers : ingestion'[v].stage \in {"insert", "tag", "approve"} => ingestion'[v].doc \in Docs
    BY <2>1, JobGoes DEF Base!InsertChunks
  <2>5. BaseTyped'
    BY <2>1, <2>3, <2>4 DEF BaseTyped
  <2>6. RowsKept
    BY <2>1, <2>3 DEF RowsKept
  <2>7. ASSUME NEW e \in Docs, doc'[e] # Null, doc'[e].status = "approved"
        PROVE  e \in vetted
    <3>1. CASE e = d
      BY <1>1, <2>2, <2>3, <2>7, <3>1 DEF ApprovedIsVetted
    <3>2. CASE e # d
      BY <2>3, <2>7, <3>2 DEF ApprovedIsVetted
    <3> QED
      BY <3>1, <3>2
  <2>8. ApprovedIsVetted'
    BY <2>1, <2>7 DEF ApprovedIsVetted
  <2> QED
    BY <2>5, <2>6, <2>8 DEF RowsSound
<1>3. CASE ~Base!Live(d)
  BY <1>3, JobStops DEF Base!InsertChunks, RowsSound, BaseTyped, RowsKept, ApprovedIsVetted
<1> QED
  BY <1>2, <1>3

LEMMA SetTagsSound ==
  ASSUME Distinct, BaseTyped, ApprovedIsVetted, NEW w \in Writers, Base!SetTags(w)
  PROVE  RowsSound
<1> DEFINE d == ingestion[w].doc
<1>1. d \in Docs /\ UNCHANGED <<buckets, look, vetted>>
  BY DEF Base!SetTags, BaseTyped
<1>2. CASE UNCHANGED doc /\ Base!Goes(w, "approve")
  <2>1. /\ ingestion' \in [Writers -> Base!Ingestion \cup {Base!Idle}]
        /\ \A v \in Writers : ingestion'[v].stage \in {"insert", "tag", "approve"} => ingestion'[v].doc \in Docs
    BY <1>2, JobGoes DEF Base!SetTags
  <2> QED
    BY <1>1, <1>2, <2>1 DEF RowsSound, BaseTyped, RowsKept, ApprovedIsVetted
<1>3. CASE Base!Live(d) /\ ingestion[w].tags \subseteq buckets /\ Base!SetsDoc(d, Base!Tagged(d, ingestion[w].tags)) /\ Base!Goes(w, "approve")
  <2>1. doc[d] # Null /\ ingestion[w].tags \in SUBSET Buckets
    BY <1>3 DEF Base!Live, BaseTyped
  <2>2. /\ Base!Tagged(d, ingestion[w].tags) \in Base!Document
        /\ Base!Tagged(d, ingestion[w].tags).space = doc[d].space /\ Base!Tagged(d, ingestion[w].tags).status = doc[d].status
    BY <1>1, <2>1, TaggedType
  <2>3. /\ doc' \in [Docs -> Base!Document \cup {Null}]
        /\ \A e \in Docs : doc[e] # Null => doc'[e] # Null /\ doc'[e].space = doc[e].space
        /\ doc'[d] = Base!Tagged(d, ingestion[w].tags) /\ \A e \in Docs \ {d} : doc'[e] = doc[e]
    BY <1>1, <1>3, <2>1, <2>2, RowWritten
  <2>4. /\ ingestion' \in [Writers -> Base!Ingestion \cup {Base!Idle}]
        /\ \A v \in Writers : ingestion'[v].stage \in {"insert", "tag", "approve"} => ingestion'[v].doc \in Docs
    BY <1>3, JobGoes DEF Base!SetTags
  <2> QED
    BY <1>1, <2>1, <2>2, <2>3, <2>4 DEF RowsSound, BaseTyped, RowsKept, ApprovedIsVetted
<1>4. CASE Base!Stops(w) /\ UNCHANGED doc
  BY <1>1, <1>4, JobStops DEF RowsSound, BaseTyped, RowsKept, ApprovedIsVetted
<1> QED
  BY <1>2, <1>3, <1>4 DEF Base!SetTags

LEMMA ApproveTrustedSound ==
  ASSUME Distinct, BaseTyped, ApprovedIsVetted, NEW w \in Writers, Base!ApproveTrusted(w)
  PROVE  RowsSound
<1> DEFINE d == ingestion[w].doc
           f == [doc[d] EXCEPT !.status = "approved"]
<1>1. d \in Docs /\ Base!Stops(w) /\ UNCHANGED <<buckets, look>>
  BY DEF Base!ApproveTrusted, BaseTyped
<1>2. /\ ingestion' \in [Writers -> Base!Ingestion \cup {Base!Idle}]
      /\ \A v \in Writers : ingestion'[v].stage \in {"insert", "tag", "approve"} => ingestion'[v].doc \in Docs
  BY <1>1, JobStops
<1>3. CASE ingestion[w].source = "trusted" /\ Base!Live(d)
  <2>1. Base!SetsDoc(d, f) /\ vetted' = vetted \cup {d}
    BY <1>3 DEF Base!ApproveTrusted
  <2>2. doc[d] # Null /\ f \in Base!Document /\ f.space = doc[d].space
    BY <1>1, <1>3 DEF Base!Live, BaseTyped, Base!Document, Base!Status
  <2>3. /\ doc' \in [Docs -> Base!Document \cup {Null}]
        /\ \A e \in Docs : doc[e] # Null => doc'[e] # Null /\ doc'[e].space = doc[e].space
        /\ doc'[d] = f /\ \A e \in Docs \ {d} : doc'[e] = doc[e]
    BY <1>1, <2>1, <2>2, RowWritten
  <2> QED
    BY <1>1, <1>2, <2>1, <2>3 DEF RowsSound, BaseTyped, RowsKept, ApprovedIsVetted
<1>4. CASE ~(ingestion[w].source = "trusted" /\ Base!Live(d))
  BY <1>1, <1>2, <1>4 DEF Base!ApproveTrusted, RowsSound, BaseTyped, RowsKept, ApprovedIsVetted
<1> QED
  BY <1>3, <1>4

(***************************************************************************)
(* Curation                                                                *)
(***************************************************************************)
LEMMA CuratesSound ==
  ASSUME Distinct, BaseTyped, ApprovedIsVetted, NEW d \in Docs, Curates(d)
  PROVE  RowsSound
<1>1. doc[d] # Null /\ doc[d] \in Base!Document
  BY DEF Curates, Base!Approve, Base!Retire, Base!SetBuckets, Base!PurgeDocument, Base!Live, BaseTyped
<1>2. ASSUME NEW status \in Base!Status
      PROVE  /\ [doc[d] EXCEPT !.status = status] \in Base!Document
             /\ [doc[d] EXCEPT !.status = status].space = doc[d].space
             /\ [doc[d] EXCEPT !.status = status].status = status
  BY <1>1 DEF Base!Document
<1>3. CASE Base!Approve(d)
  <2> DEFINE f == [doc[d] EXCEPT !.status = "approved"]
  <2>1. Base!SetsDoc(d, f) /\ vetted' = vetted \cup {d} /\ UNCHANGED <<buckets, ingestion, look>>
    BY <1>3 DEF Base!Approve
  <2>2. f \in Base!Document /\ f.space = doc[d].space
    BY <1>2 DEF Base!Status
  <2>3. /\ doc' \in [Docs -> Base!Document \cup {Null}]
        /\ \A e \in Docs : doc[e] # Null => doc'[e] # Null /\ doc'[e].space = doc[e].space
        /\ doc'[d] = f /\ \A e \in Docs \ {d} : doc'[e] = doc[e]
    BY <1>1, <2>1, <2>2, RowWritten
  <2> QED
    BY <2>1, <2>3 DEF RowsSound, BaseTyped, RowsKept, ApprovedIsVetted
<1>4. CASE Base!Retire(d)
  <2>1. PICK status \in {"superseded", "retired", "pending"} : Base!SetsDoc(d, [doc[d] EXCEPT !.status = status])
    BY <1>4 DEF Base!Retire
  <2> DEFINE f == [doc[d] EXCEPT !.status = status]
  <2>2. f \in Base!Document /\ f.space = doc[d].space /\ f.status # "approved"
    BY <1>2, <2>1 DEF Base!Status
  <2>3. /\ doc' \in [Docs -> Base!Document \cup {Null}]
        /\ \A e \in Docs : doc[e] # Null => doc'[e] # Null /\ doc'[e].space = doc[e].space
        /\ doc'[d] = f /\ \A e \in Docs \ {d} : doc'[e] = doc[e]
    BY <1>1, <2>1, <2>2, RowWritten
  <2>4. UNCHANGED <<buckets, ingestion, look, vetted>>
    BY <1>4 DEF Base!Retire
  <2> QED
    BY <2>2, <2>3, <2>4 DEF RowsSound, BaseTyped, RowsKept, ApprovedIsVetted
<1>5. CASE Base!SetBuckets(d)
  <2>1. PICK tags \in SUBSET buckets : Base!SetsDoc(d, Base!Tagged(d, tags))
    BY <1>5 DEF Base!SetBuckets
  <2>2. /\ Base!Tagged(d, tags) \in Base!Document
        /\ Base!Tagged(d, tags).space = doc[d].space /\ Base!Tagged(d, tags).status = doc[d].status
    BY <1>1, <2>1, TaggedType DEF BaseTyped
  <2>3. /\ doc' \in [Docs -> Base!Document \cup {Null}]
        /\ \A e \in Docs : doc[e] # Null => doc'[e] # Null /\ doc'[e].space = doc[e].space
        /\ doc'[d] = Base!Tagged(d, tags) /\ \A e \in Docs \ {d} : doc'[e] = doc[e]
    BY <1>1, <2>1, <2>2, RowWritten
  <2>4. UNCHANGED <<buckets, ingestion, look, vetted>>
    BY <1>5 DEF Base!SetBuckets
  <2> QED
    BY <1>1, <2>2, <2>3, <2>4 DEF RowsSound, BaseTyped, RowsKept, ApprovedIsVetted
<1>6. CASE Base!PurgeDocument(d)
  <2>1. Base!Erased({d}) /\ UNCHANGED <<buckets, ingestion, look, vetted>>
    BY <1>6 DEF Base!PurgeDocument
  <2> QED
    BY <2>1, ErasedRows DEF RowsSound, BaseTyped, RowsKept, ApprovedIsVetted
<1> QED
  BY <1>3, <1>4, <1>5, <1>6 DEF Curates

LEMMA ErasesSound ==
  ASSUME Distinct, BaseTyped, ApprovedIsVetted, Erases
  PROVE  RowsSound
<1>1. ASSUME NEW lostDocs, Base!Erased(lostDocs), UNCHANGED <<buckets, ingestion, look, vetted>>
      PROVE  RowsSound
  BY <1>1, ErasedRows DEF RowsSound, BaseTyped, RowsKept, ApprovedIsVetted
<1>2. ASSUME NEW text \in Texts, Base!ForgetSubject(text) PROVE RowsSound
  BY <1>1, <1>2 DEF Base!ForgetSubject
<1>3. ASSUME NEW space \in Spaces, Base!PurgeProject(space) PROVE RowsSound
  BY <1>1, <1>3 DEF Base!PurgeProject
<1>4. ASSUME NEW b \in Buckets, Base!DeleteBucket(b) PROVE RowsSound
  <2>1. ASSUME NEW e \in Docs, Base!Live(e)
        PROVE  /\ Base!Tagged(e, doc[e].tags \ {b}) \in Base!Document
               /\ Base!Tagged(e, doc[e].tags \ {b}).space = doc[e].space
               /\ Base!Tagged(e, doc[e].tags \ {b}).status = doc[e].status
    <3>1. doc[e] # Null /\ doc[e] \in Base!Document
      BY <2>1 DEF Base!Live, BaseTyped
    <3>2. doc[e].tags \ {b} \in SUBSET Buckets
      BY <3>1 DEF Base!Document
    <3> QED
      BY <3>1, <3>2, TaggedType
  <2>2. doc' = [e \in Docs |-> IF Base!Live(e) /\ b \in doc[e].tags THEN Base!Tagged(e, doc[e].tags \ {b}) ELSE doc[e]]
        /\ buckets' \subseteq Buckets /\ UNCHANGED <<ingestion, look, vetted>>
    BY <1>4 DEF Base!DeleteBucket, BaseTyped
  <2>3. doc' \in [Docs -> Base!Document \cup {Null}]
    BY <2>1, <2>2 DEF BaseTyped
  <2>4. \A e \in Docs : doc[e] # Null => doc'[e] # Null /\ doc'[e].space = doc[e].space
    BY <2>1, <2>2 DEF Distinct
  <2>5. \A e \in Docs : doc'[e] # Null /\ doc'[e].status = "approved" => doc[e] # Null /\ doc[e].status = "approved"
    BY <2>1, <2>2 DEF Base!Live
  <2> QED
    BY <2>2, <2>3, <2>4, <2>5 DEF RowsSound, BaseTyped, RowsKept, ApprovedIsVetted
<1> QED
  BY <1>2, <1>3, <1>4 DEF Erases

(***************************************************************************)
(* Answers                                                                 *)
(***************************************************************************)
LEMMA MatchesFit ==
  ASSUME BaseTyped, ApprovedIsVetted, NEW space, NEW scope
  PROVE  \A d \in Base!Matches(space, scope) : d \in Docs /\ Fit(space, d)
BY DEF Base!Matches, Base!Live, ApprovedIsVetted, Fit

LEMMA AnswersKept ==
  ASSUME Distinct, KnowledgeInv, Answers
  PROVE  KnowledgeInv'
<1>1. UNCHANGED <<doc, buckets, ingestion, vetted>>
  BY DEF Answers, Base!Get, Base!Search, Base!Hydrate, Base!Evict
<1>2. \A space, d : Fit(space, d)' <=> Fit(space, d)
  BY <1>1 DEF Fit
<1>3. ASSUME NEW d \in Docs, NEW space \in Spaces, Base!Get(space, d) PROVE KnowledgeInv'
  <2>1. handed' = {space} \X {d} /\ UNCHANGED <<look, cache>>
    BY <1>3 DEF Base!Get, Base!Hands
  <2>2. Fit(space, d)
    BY <1>3 DEF Base!Get, Base!Live, KnowledgeInv, ApprovedIsVetted, Fit
  <2> QED
    BY <1>1, <1>2, <2>1, <2>2 DEF KnowledgeInv, BaseTyped, ApprovedIsVetted, AnswersFit
<1>4. ASSUME NEW space \in Spaces, NEW scope \in SUBSET Buckets, Base!Search(space, scope) PROVE KnowledgeInv'
  <2>1. CASE Base!Cached(space, scope) # {}
    <3>1. PICK c \in Base!Cached(space, scope) : handed' = {space} \X c.found /\ UNCHANGED look
      BY <1>4, <2>1 DEF Base!Search, Base!Hands
    <3>2. c \in cache /\ c.key[1] = space
      BY <3>1 DEF Base!Cached, Base!CacheKey
    <3>3. \A d \in c.found : Fit(space, d)
      BY <3>2 DEF KnowledgeInv, AnswersFit
    <3>4. UNCHANGED cache
      BY <1>4 DEF Base!Search
    <3> QED
      BY <1>1, <1>2, <3>1, <3>3, <3>4 DEF KnowledgeInv, BaseTyped, ApprovedIsVetted, AnswersFit
  <2>2. CASE Base!Cached(space, scope) = {}
    <3>1. PICK found \in SUBSET Base!Matches(space, scope) :
            look' = [space |-> space, scope |-> scope, found |-> found] /\ UNCHANGED handed
      BY <1>4, <2>2 DEF Base!Search
    <3>2. \A d \in found : d \in Docs /\ Fit(space, d)
      BY <3>1, MatchesFit DEF KnowledgeInv
    <3>3. look' \in Base!Retrieval /\ look'.found = found /\ look'.space = space
      BY <3>1, <3>2 DEF Base!Retrieval
    <3>4. UNCHANGED cache
      BY <1>4 DEF Base!Search
    <3> QED
      BY <1>1, <1>2, <3>1, <3>2, <3>3, <3>4 DEF KnowledgeInv, BaseTyped, ApprovedIsVetted, AnswersFit
  <2> QED
    BY <2>1, <2>2
<1>5. CASE Base!Hydrate
  <2> DEFINE found == {d \in look.found : Base!Live(d)}
             key == Base!CacheKey(look.space, look.scope)
  <2>1. look # Null /\ look' = Null /\ handed' = {look.space} \X found
    BY <1>5 DEF Base!Hydrate, Base!Hands
  <2>2. \A d \in found : Fit(look.space, d)
    BY <2>1 DEF KnowledgeInv, AnswersFit
  <2>3. key[1] = look.space
    BY DEF Base!CacheKey
  <2>4. \A c \in cache' : c \in cache \/ c = [key |-> key, found |-> found]
    BY <1>5 DEF Base!Hydrate, Base!CachePut
  <2>5. \A c \in cache' : \A d \in c.found : Fit(c.key[1], d)
    BY <2>2, <2>3, <2>4 DEF KnowledgeInv, AnswersFit
  <2> QED
    BY <1>1, <1>2, <2>1, <2>2, <2>5 DEF KnowledgeInv, BaseTyped, ApprovedIsVetted, AnswersFit
<1>6. CASE Base!Evict
  <2>1. cache' \subseteq cache /\ UNCHANGED <<look, handed>>
    BY <1>6 DEF Base!Evict
  <2> QED
    BY <1>1, <1>2, <2>1 DEF KnowledgeInv, BaseTyped, ApprovedIsVetted, AnswersFit
<1> QED
  BY <1>3, <1>4, <1>5, <1>6 DEF Answers

(***************************************************************************)
(* The invariant                                                           *)
(***************************************************************************)
LEMMA KnowledgeInit == ASSUME Distinct, Base!Init PROVE KnowledgeInv
BY DEF Base!Init, KnowledgeInv, BaseTyped, ApprovedIsVetted, AnswersFit, Base!Idle

LEMMA KnowledgeNext ==
  ASSUME Distinct, KnowledgeInv, [Base!Next]_Base!knowledgeVars
  PROVE  KnowledgeInv'
<1>1. ASSUME RowsSound, UNCHANGED <<look, cache, handed>> PROVE KnowledgeInv'
  <2>1. \A space, d : Fit(space, d) => Fit(space, d)'
    BY <1>1, FitKept DEF KnowledgeInv, RowsSound
  <2> QED
    BY <1>1, <2>1 DEF KnowledgeInv, RowsSound, AnswersFit
<1>2. ASSUME NEW w \in Writers, Ingests(w) PROVE KnowledgeInv'
  <2>1. UNCHANGED <<look, cache, handed>>
    BY <1>2 DEF Ingests, Base!Upload, Base!IngestPersonal, Base!IngestTrusted, Base!Seed, Base!Reindex, Base!Begins
  <2> QED
    BY <1>1, <1>2, <2>1, IngestsSound DEF KnowledgeInv
<1>3. ASSUME NEW w \in Writers, Works(w) PROVE KnowledgeInv'
  <2>1. UNCHANGED <<look, cache, handed>>
    BY <1>3 DEF Works, Base!WriteDocument, Base!InsertChunks, Base!SetTags, Base!ApproveTrusted
  <2>2. RowsSound
    BY <1>3, WriteDocumentSound, InsertChunksSound, SetTagsSound, ApproveTrustedSound DEF Works, KnowledgeInv
  <2> QED
    BY <1>1, <2>1, <2>2
<1>4. ASSUME NEW d \in Docs, Curates(d) PROVE KnowledgeInv'
  <2>1. UNCHANGED <<look, cache, handed>>
    BY <1>4 DEF Curates, Base!Approve, Base!Retire, Base!SetBuckets, Base!PurgeDocument
  <2> QED
    BY <1>1, <1>4, <2>1, CuratesSound DEF KnowledgeInv
<1>5. CASE Erases
  <2>1. UNCHANGED <<look, cache, handed>>
    BY <1>5 DEF Erases, Base!ForgetSubject, Base!PurgeProject, Base!DeleteBucket
  <2> QED
    BY <1>1, <1>5, <2>1, ErasesSound DEF KnowledgeInv
<1>6. CASE Answers
  BY <1>6, AnswersKept
<1>7. CASE Base!Crash
  <2>1. UNCHANGED <<doc, buckets, vetted, handed>> /\ ingestion' = [w \in Writers |-> Base!Idle] /\ look' = Null /\ cache' = {}
    BY <1>7 DEF Base!Crash
  <2>2. \A space, d : Fit(space, d)' <=> Fit(space, d)
    BY <2>1 DEF Fit
  <2> QED
    BY <2>1, <2>2 DEF KnowledgeInv, BaseTyped, ApprovedIsVetted, AnswersFit, Base!Idle
<1>8. CASE UNCHANGED Base!knowledgeVars
  BY <1>8 DEF Base!knowledgeVars, KnowledgeInv, BaseTyped, ApprovedIsVetted, AnswersFit, Fit
<1> QED
  BY <1>2, <1>3, <1>4, <1>5, <1>6, <1>7, <1>8, KnowledgeSteps

(***************************************************************************)
(* The types                                                               *)
(***************************************************************************)
\* What the proof above has no use for: the bounds, and the key of an answer.
AnswersTyped ==
  /\ edits \in 0..MaxEdits /\ handed \subseteq Spaces \X Docs /\ cache \subseteq Base!Answer
BaseInv == KnowledgeInv /\ AnswersTyped

LEMMA AnswersTypedNext == ASSUME Distinct, MaxEdits \in Nat, BaseInv, [Base!Next]_Base!knowledgeVars PROVE AnswersTyped'
<1>1. CASE UNCHANGED <<cache, handed>>
  <2> DEFINE counted == edits' = edits \/ (edits < MaxEdits /\ edits' = edits + 1)
  <2>1. ASSUME NEW w \in Writers, Ingests(w) \/ Works(w) PROVE counted
    BY <2>1 DEF Ingests, Works, Base!Upload, Base!IngestPersonal, Base!IngestTrusted, Base!Seed, Base!Reindex,
           Base!Begins, Base!WriteDocument, Base!InsertChunks, Base!SetTags, Base!ApproveTrusted
  <2>2. ASSUME NEW d \in Docs, Curates(d) PROVE counted
    BY <2>2 DEF Curates, Base!Approve, Base!Retire, Base!SetBuckets, Base!PurgeDocument, Base!Edit
  <2>3. ASSUME Erases PROVE counted
    <3>1. ASSUME NEW text \in Texts, Base!ForgetSubject(text) PROVE Base!Edit
      BY <3>1 DEF Base!ForgetSubject
    <3>2. ASSUME NEW space \in Spaces, Base!PurgeProject(space) PROVE Base!Edit
      BY <3>2 DEF Base!PurgeProject
    <3>3. ASSUME NEW b \in Buckets, Base!DeleteBucket(b) PROVE Base!Edit
      BY <3>3 DEF Base!DeleteBucket
    <3>4. Base!Edit
      BY <2>3, <3>1, <3>2, <3>3 DEF Erases
    <3> QED
      BY <3>4 DEF Base!Edit
  <2>4. ASSUME Answers PROVE counted
    BY <2>4 DEF Answers, Base!Search, Base!Hydrate, Base!Evict, Base!Get
  <2>5. ASSUME Base!Crash PROVE counted
    BY <2>5 DEF Base!Crash, Base!Edit
  <2>6. ASSUME UNCHANGED Base!knowledgeVars PROVE counted
    BY <2>6 DEF Base!knowledgeVars
  <2>7. counted
    BY <2>1, <2>2, <2>3, <2>4, <2>5, <2>6, KnowledgeSteps
  <2> QED
    BY <1>1, <2>7 DEF BaseInv, AnswersTyped
<1>2. CASE Answers
  <2>1. UNCHANGED edits
    BY <1>2 DEF Answers, Base!Get, Base!Search, Base!Hydrate, Base!Evict
  <2>2. look # Null => look \in Base!Retrieval
    BY DEF BaseInv, KnowledgeInv, BaseTyped
  <2>3. ASSUME NEW d \in Docs, NEW space \in Spaces, Base!Get(space, d) PROVE AnswersTyped'
    BY <2>1, <2>3 DEF Base!Get, Base!Hands, BaseInv, AnswersTyped
  <2>4. ASSUME NEW space \in Spaces, NEW scope \in SUBSET Buckets, Base!Search(space, scope) PROVE AnswersTyped'
    <3>1. UNCHANGED handed \/ \E c \in cache : handed' = {space} \X c.found
      BY <2>4 DEF Base!Search, Base!Hands, Base!Cached
    <3>2. \A c \in cache : c.found \subseteq Docs
      BY DEF BaseInv, AnswersTyped, Base!Answer
    <3>3. UNCHANGED cache
      BY <2>4 DEF Base!Search
    <3> QED
      BY <2>1, <3>1, <3>2, <3>3 DEF BaseInv, AnswersTyped
  <2>5. CASE Base!Hydrate
    <3> DEFINE found == {d \in look.found : Base!Live(d)}
               key == Base!CacheKey(look.space, look.scope)
    <3>1. look \in Base!Retrieval /\ handed' = {look.space} \X found
      BY <2>2, <2>5 DEF Base!Hydrate, Base!Hands
    <3>2. found \subseteq Docs /\ look.space \in Spaces /\ key \in Spaces \X SUBSET Buckets
      BY <3>1 DEF Base!Retrieval, Base!CacheKey
    <3>3. \A c \in cache' : c \in cache \/ c = [key |-> key, found |-> found]
      BY <2>5 DEF Base!Hydrate, Base!CachePut
    <3>4. [key |-> key, found |-> found] \in Base!Answer
      BY <3>2 DEF Base!Answer
    <3> QED
      BY <2>1, <3>1, <3>2, <3>3, <3>4 DEF BaseInv, AnswersTyped
  <2>6. CASE Base!Evict
    BY <2>1, <2>6 DEF Base!Evict, BaseInv, AnswersTyped
  <2> QED
    BY <1>2, <2>3, <2>4, <2>5, <2>6 DEF Answers
<1>3. CASE Base!Crash
  BY <1>3 DEF Base!Crash, Base!Edit, BaseInv, AnswersTyped
<1> QED
  BY <1>1, <1>2, <1>3, KnowledgeSteps
     DEF Base!knowledgeVars, Ingests, Works, Curates, Erases, Base!Upload, Base!IngestPersonal, Base!IngestTrusted,
         Base!Seed, Base!Reindex, Base!Begins, Base!WriteDocument, Base!InsertChunks, Base!SetTags,
         Base!ApproveTrusted, Base!Approve, Base!Retire, Base!SetBuckets, Base!PurgeDocument, Base!ForgetSubject,
         Base!PurgeProject, Base!DeleteBucket

LEMMA BaseInit == ASSUME Distinct, MaxEdits \in Nat, Base!Init PROVE BaseInv
<1>1. AnswersTyped
  BY DEF Base!Init, AnswersTyped
<1> QED
  BY <1>1, KnowledgeInit DEF BaseInv

LEMMA BaseNext == ASSUME Distinct, MaxEdits \in Nat, BaseInv, [Base!Next]_Base!knowledgeVars PROVE BaseInv'
BY KnowledgeNext, AnswersTypedNext DEF BaseInv

LEMMA BaseFacts == ASSUME BaseInv PROVE Base!TypeOK /\ Base!HandedIsVetted
<1>1. Base!TypeOK
  BY DEF BaseInv, KnowledgeInv, BaseTyped, AnswersTyped, Base!TypeOK
<1> QED
  BY <1>1 DEF BaseInv, KnowledgeInv, AnswersFit, Fit, Base!HandedIsVetted

\* What a worker is about to expire is in a summary that is stored, or was.
FoldsAreSummed == \A w \in Workers : fold[w].stage = "summed" => fold[w].rows \in summaries \cup erased
MemoryInv == Memory!TypeOK /\ FoldsAreSummed /\ Memory!NothingIsLost

LEMMA DeletedTyped ==
  ASSUME Memory!TypeOK, NEW rows PROVE Memory!Deleted(rows) \in [Episodes -> {"none", "fresh", "old", "gone"}]
<1>1. \A e \in Episodes : episode[e] \in {"none", "fresh", "old", "gone"}
  BY DEF Memory!TypeOK
<1> QED
  BY <1>1 DEF Memory!Deleted

LEMMA ErasureCounts == ASSUME Memory!TypeOK, Memory!Erasure PROVE erasures' \in 0..MaxErasures
<1>1. erasures \in 0..MaxErasures
  BY DEF Memory!TypeOK
<1> QED
  BY <1>1, BoundsAssumption, CountsUp DEF Memory!Erasure

\* A step that leaves the jobs alone keeps the invariant when what is no longer
\* a summary has been erased.
LEMMA JobsUntouched ==
  ASSUME MemoryInv, Memory!TypeOK', UNCHANGED <<fold, folded>>, summaries \cup erased \subseteq summaries' \cup erased'
  PROVE  MemoryInv'
BY DEF MemoryInv, FoldsAreSummed, Memory!NothingIsLost

LEMMA MemoryInit == ASSUME Memory!Init PROVE MemoryInv
<1>1. 0 \in 0..MaxErasures
  BY BoundsAssumption
<1>2. Memory!TypeOK
  BY <1>1 DEF Memory!Init, Memory!TypeOK, Memory!Idle
<1> QED
  BY <1>2 DEF Memory!Init, MemoryInv, FoldsAreSummed, Memory!NothingIsLost, Memory!Idle

LEMMA MemoryNext == ASSUME MemoryInv, [Memory!Next]_Memory!memoryVars PROVE MemoryInv'
<1>t. Memory!TypeOK
  BY DEF MemoryInv
<1>1. CASE UNCHANGED Memory!memoryVars
  BY <1>1 DEF Memory!memoryVars, MemoryInv, FoldsAreSummed, Memory!NothingIsLost, Memory!TypeOK
<1>2. ASSUME NEW e \in Episodes, Memory!Capture(e) \/ Memory!Age(e) PROVE MemoryInv'
  <2>1. Memory!TypeOK'
    BY <1>t, <1>2 DEF Memory!Capture, Memory!Age, Memory!TypeOK
  <2> QED
    BY <1>2, <2>1, JobsUntouched DEF Memory!Capture, Memory!Age
<1>3. CASE Memory!Recall
  <2>1. used' \subseteq Episodes
    BY <1>t, <1>3 DEF Memory!Recall, Memory!Stored, Memory!TypeOK
  <2>2. Memory!TypeOK'
    BY <1>t, <1>3, <2>1 DEF Memory!Recall, Memory!TypeOK
  <2> QED
    BY <1>3, <2>2, JobsUntouched DEF Memory!Recall
<1>4. CASE Memory!Prune
  <2>1. Memory!TypeOK'
    BY <1>t, <1>4, DeletedTyped DEF Memory!Prune, Memory!TypeOK
  <2> QED
    BY <1>4, <2>1, JobsUntouched DEF Memory!Prune
<1>5. CASE Memory!BeginApproval \/ Memory!Ingest \/ Memory!ApproveLesson \/ Memory!RecordApproval \/ Memory!Reject
  <2>1. \A status \in {"promoted", "rejected"} :
          Memory!Moved(status) \in {Null} \cup [status : {"pending", "promoted", "rejected"}, private : BOOLEAN]
    BY <1>t DEF Memory!Moved, Memory!TypeOK
  <2>2. Memory!TypeOK'
    BY <1>t, <1>5, <2>1 DEF Memory!BeginApproval, Memory!Ingest, Memory!ApproveLesson, Memory!RecordApproval, Memory!Reject, Memory!TypeOK
  <2> QED
    BY <1>5, <2>2, JobsUntouched DEF Memory!BeginApproval, Memory!Ingest, Memory!ApproveLesson, Memory!RecordApproval, Memory!Reject
<1>6. CASE Memory!Forget \/ Memory!Purge
  <2>1. erasures' \in 0..MaxErasures
    BY <1>t, <1>6, ErasureCounts DEF Memory!Forget, Memory!Purge
  <2>2. summaries' \subseteq summaries /\ erased \subseteq erased' /\ erased' \subseteq erased \cup summaries
        /\ summaries \subseteq summaries' \cup erased'
    BY <1>6 DEF Memory!Forget, Memory!Purge
  <2>3. Memory!TypeOK'
    BY <1>t, <1>6, <2>1, <2>2, DeletedTyped DEF Memory!Forget, Memory!Purge, Memory!TypeOK
  <2> QED
    BY <1>6, <2>2, <2>3, JobsUntouched DEF Memory!Forget, Memory!Purge
<1>7. ASSUME NEW w \in Workers, Memory!List(w) \/ Memory!Propose(w) PROVE MemoryInv'
  <2>1. fold[w] \in [stage : {"idle", "listed", "proposed", "summed"}, rows : SUBSET Episodes] /\ Memory!Old \subseteq Episodes
    BY <1>t DEF Memory!TypeOK, Memory!Old
  <2>2. fold' \in [Workers -> [stage : {"idle", "listed", "proposed", "summed"}, rows : SUBSET Episodes]]
        /\ fold'[w].stage # "summed" /\ \A v \in Workers \ {w} : fold'[v] = fold[v]
    BY <1>t, <1>7, <2>1 DEF Memory!List, Memory!Propose, Memory!TypeOK
  <2>3. candidate' \in {Null} \cup [status : {"pending", "promoted", "rejected"}, private : BOOLEAN]
    <3> DEFINE mentions == fold[w].rows \cap Private # {}
    <3>1. candidate' \in {candidate, [status |-> "pending", private |-> mentions]}
      BY <1>7 DEF Memory!List, Memory!Propose
    <3>2. mentions \in BOOLEAN
      OBVIOUS
    <3> HIDE DEF mentions
    <3> QED
      BY <1>t, <3>1, <3>2 DEF Memory!TypeOK
  <2>4. Memory!TypeOK'
    BY <1>t, <1>7, <2>2, <2>3 DEF Memory!List, Memory!Propose, Memory!TypeOK
  <2> QED
    BY <1>7, <2>2, <2>4 DEF Memory!List, Memory!Propose, MemoryInv, FoldsAreSummed, Memory!NothingIsLost
<1>8. ASSUME NEW w \in Workers, Memory!Summarise(w) PROVE MemoryInv'
  <2>1. fold[w] \in [stage : {"idle", "listed", "proposed", "summed"}, rows : SUBSET Episodes]
    BY <1>t DEF Memory!TypeOK
  <2>2. fold' \in [Workers -> [stage : {"idle", "listed", "proposed", "summed"}, rows : SUBSET Episodes]]
        /\ fold'[w].rows = fold[w].rows /\ \A v \in Workers \ {w} : fold'[v] = fold[v]
    BY <1>t, <1>8, <2>1 DEF Memory!Summarise, Memory!TypeOK
  <2>3. summaries' = summaries \cup {fold[w].rows} /\ UNCHANGED <<erased, folded>>
    BY <1>8 DEF Memory!Summarise, Memory!Summed
  <2>4. Memory!TypeOK'
    BY <1>t, <1>8, <2>1, <2>2, <2>3 DEF Memory!Summarise, Memory!TypeOK
  <2> QED
    BY <2>2, <2>3, <2>4 DEF MemoryInv, FoldsAreSummed, Memory!NothingIsLost
<1>9. ASSUME NEW w \in Workers, Memory!Expire(w) PROVE MemoryInv'
  <2>1. fold[w] \in [stage : {"idle", "listed", "proposed", "summed"}, rows : SUBSET Episodes]
    BY <1>t DEF Memory!TypeOK
  <2>2. fold' \in [Workers -> [stage : {"idle", "listed", "proposed", "summed"}, rows : SUBSET Episodes]]
        /\ fold'[w].stage = "idle" /\ \A v \in Workers \ {w} : fold'[v] = fold[v]
    BY <1>t, <1>9, <2>1 DEF Memory!Expire, Memory!TypeOK, Memory!Idle
  <2>3. folded' \subseteq folded \cup fold[w].rows /\ UNCHANGED <<summaries, erased>>
    BY <1>9 DEF Memory!Expire, Memory!Folds
  <2>4. Memory!TypeOK'
    BY <1>t, <1>9, <2>1, <2>2, <2>3, DeletedTyped DEF Memory!Expire, Memory!TypeOK
  <2>5. fold[w].rows \in summaries \cup erased
    BY <1>9 DEF Memory!Expire, MemoryInv, FoldsAreSummed
  <2> QED
    BY <2>2, <2>3, <2>4, <2>5 DEF MemoryInv, FoldsAreSummed, Memory!NothingIsLost
<1>10. ASSUME NEW w \in Workers, Memory!Crash(w) PROVE MemoryInv'
  <2>1. erasures' \in 0..MaxErasures
    BY <1>t, <1>10, ErasureCounts DEF Memory!Crash
  <2>2. fold' \in [Workers -> [stage : {"idle", "listed", "proposed", "summed"}, rows : SUBSET Episodes]]
        /\ fold'[w].stage = "idle" /\ \A v \in Workers \ {w} : fold'[v] = fold[v]
    BY <1>t, <1>10 DEF Memory!Crash, Memory!TypeOK, Memory!Idle
  <2>3. Memory!TypeOK'
    BY <1>t, <1>10, <2>1, <2>2 DEF Memory!Crash, Memory!TypeOK
  <2> QED
    BY <1>10, <2>2, <2>3 DEF Memory!Crash, MemoryInv, FoldsAreSummed, Memory!NothingIsLost
<1> QED
  BY <1>1, <1>2, <1>3, <1>4, <1>5, <1>6, <1>7, <1>8, <1>9, <1>10 DEF Memory!Next

LEMMA MemoryFacts == ASSUME MemoryInv PROVE Memory!TypeOK /\ Memory!NothingIsLost
BY DEF MemoryInv

(***************************************************************************)
(* The lessons                                                             *)
(***************************************************************************)
\* What is in the queue, or about to be, has been queued.
OnlyQueued ==
  /\ Learning!ToSet(pending) \subseteq queued
  /\ \A w \in Analysts : edit[w] # Null => edit[w].lesson \in queued /\ Learning!ToSet(edit[w].pending) \subseteq queued
LessonsTyped == Learning!TypeOK /\ OnlyQueued

\* The queue without its i-th lesson, and the one that was taken out.
LEMMA WithoutOne ==
  ASSUME NEW T, NEW s \in Seq(T), NEW i \in DOMAIN s
  PROVE  /\ Learning!RemoveAt(s, i) \in Seq(T) /\ s[i] \in T
         /\ Learning!ToSet(s) = Learning!ToSet(Learning!RemoveAt(s, i)) \cup {s[i]}
<1> DEFINE before == SubSeq(s, 1, i - 1)
           after == SubSeq(s, i + 1, Len(s))
<1>1. i \in 1..Len(s) /\ Len(s) \in Nat /\ DOMAIN s = 1..Len(s) /\ \A j \in 1..Len(s) : s[j] \in T
  BY LenProperties, ElementOfSeq
<1>2. before \in Seq(T) /\ Len(before) = i - 1 /\ \A j \in 1..(i - 1) : before[j] = s[j]
  <2>1. 1 \in Int /\ i - 1 \in Int /\ \A j \in 1..(i - 1) : s[j] \in T
    BY <1>1
  <2>2. /\ before \in Seq(T)
        /\ Len(before) = IF 1 <= i - 1 THEN (i - 1) - 1 + 1 ELSE 0
        /\ \A j \in 1..((i - 1) - 1 + 1) : before[j] = s[1 + j - 1]
    BY <2>1, SubSeqProperties
  <2> HIDE DEF before
  <2> QED
    BY <1>1, <2>2
<1>3. after \in Seq(T) /\ Len(after) = Len(s) - i /\ \A j \in 1..(Len(s) - i) : after[j] = s[i + j]
  <2>1. i + 1 \in Int /\ Len(s) \in Int /\ \A j \in (i + 1)..Len(s) : s[j] \in T
    BY <1>1
  <2>2. /\ after \in Seq(T)
        /\ Len(after) = IF i + 1 <= Len(s) THEN Len(s) - (i + 1) + 1 ELSE 0
        /\ \A j \in 1..(Len(s) - (i + 1) + 1) : after[j] = s[(i + 1) + j - 1]
    BY <2>1, SubSeqProperties
  <2> HIDE DEF after
  <2>3. Len(after) = Len(s) - i
    BY <1>1, <2>2
  <2>4. ASSUME NEW j \in 1..(Len(s) - i) PROVE after[j] = s[i + j]
    <3>1. j \in 1..(Len(s) - (i + 1) + 1) /\ (i + 1) + j - 1 = i + j
      BY <1>1
    <3> QED
      BY <2>2, <3>1
  <2> QED
    BY <2>2, <2>3, <2>4
<1> DEFINE rest == Learning!RemoveAt(s, i)
<1>4. rest = before \o after
  BY DEF Learning!RemoveAt
<1> HIDE DEF before, after, rest
<1>5. rest \in Seq(T) /\ Len(rest) = Len(s) - 1
      /\ \A j \in 1..(Len(s) - 1) : rest[j] = IF j <= i - 1 THEN before[j] ELSE after[j - (i - 1)]
  <2>1. /\ rest \in Seq(T) /\ Len(rest) = Len(before) + Len(after)
        /\ \A j \in 1..(Len(before) + Len(after)) : rest[j] = IF j <= Len(before) THEN before[j] ELSE after[j - Len(before)]
    BY <1>2, <1>3, <1>4, ConcatProperties
  <2>2. Len(before) + Len(after) = Len(s) - 1
    BY <1>1, <1>2, <1>3
  <2>3. Len(before) = i - 1
    BY <1>2
  <2> QED
    BY <2>1, <2>2, <2>3
<1>6. \A j \in 1..(Len(s) - 1) : rest[j] = IF j <= i - 1 THEN s[j] ELSE s[j + 1]
  <2> TAKE j \in 1..(Len(s) - 1)
  <2>1. CASE j <= i - 1
    BY <1>1, <1>2, <1>5, <2>1
  <2>2. CASE ~(j <= i - 1)
    <3>1. j - (i - 1) \in 1..(Len(s) - i) /\ i + (j - (i - 1)) = j + 1
      BY <1>1, <2>2
    <3> QED
      BY <1>3, <1>5, <2>2, <3>1
  <2> QED
    BY <2>1, <2>2
<1>7. DOMAIN rest = 1..(Len(s) - 1)
  BY <1>5, LenProperties
<1>8. ASSUME NEW j \in 1..Len(s), j # i PROVE s[j] \in Learning!ToSet(rest)
  <2>1. CASE j < i
    <3>1. j \in 1..(Len(s) - 1) /\ rest[j] = s[j]
      BY <1>1, <1>6, <2>1
    <3> QED
      BY <1>7, <3>1 DEF Learning!ToSet
  <2>2. CASE j > i
    <3>1. j - 1 \in 1..(Len(s) - 1) /\ rest[j - 1] = s[j]
      BY <1>1, <1>6, <2>2
    <3> QED
      BY <1>7, <3>1 DEF Learning!ToSet
  <2> QED
    BY <1>1, <1>8, <2>1, <2>2
<1>9. ASSUME NEW j \in 1..(Len(s) - 1) PROVE rest[j] \in Learning!ToSet(s)
  <2>1. j \in 1..Len(s) /\ j + 1 \in 1..Len(s) /\ rest[j] \in {s[j], s[j + 1]}
    BY <1>1, <1>6
  <2> QED
    BY <1>1, <2>1 DEF Learning!ToSet
<1>10. Learning!ToSet(s) = Learning!ToSet(rest) \cup {s[i]}
  BY <1>1, <1>7, <1>8, <1>9 DEF Learning!ToSet
<1> QED
  BY <1>1, <1>5, <1>10 DEF rest

\* A lesson appended to a file is the one it has more.
LEMMA OneMore ==
  ASSUME NEW T, NEW s \in Seq(T), NEW m \in T
  PROVE  Append(s, m) \in Seq(T) /\ Learning!ToSet(Append(s, m)) = Learning!ToSet(s) \cup {m}
<1>1. /\ Append(s, m) \in Seq(T) /\ Len(Append(s, m)) = Len(s) + 1 /\ Len(s) \in Nat
      /\ \A i \in 1..Len(s) : Append(s, m)[i] = s[i]
      /\ Append(s, m)[Len(s) + 1] = m
  BY AppendProperties, LenProperties
<1>2. DOMAIN s = 1..Len(s) /\ DOMAIN Append(s, m) = 1..(Len(s) + 1)
  BY <1>1, LenProperties
<1>3. 1..(Len(s) + 1) = 1..Len(s) \cup {Len(s) + 1}
  BY <1>1
<1> QED
  BY <1>1, <1>2, <1>3 DEF Learning!ToSet

LEMMA FileSet == ASSUME NEW T, NEW s \in Seq(T) PROVE Learning!ToSet(s) \subseteq T
BY ElementOfSeq, LenProperties DEF Learning!ToSet

\* A file that is not empty has a lesson with the largest number.
LEMMA LargestNumber ==
  ASSUME NEW file \in Seq(Learning!Lesson), file # <<>>
  PROVE  \E m \in Learning!ToSet(file) : \A n \in Learning!ToSet(file) : n.id <= m.id
<1> DEFINE Upto(k) == \E i \in 1..k : \A j \in 1..k : file[j].id <= file[i].id
           S == {k \in Nat : k \in 1..Len(file) => Upto(k)}
<1>1. Len(file) \in Nat /\ Len(file) # 0 /\ DOMAIN file = 1..Len(file) /\ \A j \in 1..Len(file) : file[j].id \in Nat
  <2>1. \A j \in 1..Len(file) : file[j] \in Learning!Lesson
    BY ElementOfSeq
  <2> QED
    BY <2>1, LenProperties, EmptySeq DEF Learning!Lesson
<1>2. 0 \in S
  OBVIOUS
<1>3. ASSUME NEW k \in Nat, k \in S PROVE k + 1 \in S
  <2> SUFFICES ASSUME k + 1 \in 1..Len(file) PROVE Upto(k + 1)
    OBVIOUS
  <2>1. CASE k = 0
    BY <1>1, <2>1
  <2>2. CASE k # 0
    <3>1. k \in 1..Len(file)
      BY <1>1, <2>2
    <3>6. Upto(k)
      BY <1>3, <3>1
    <3>7. PICK i \in 1..k : \A j \in 1..k : file[j].id <= file[i].id
      BY <3>6
    <3>2. /\ i \in 1..(k + 1) /\ k + 1 \in 1..(k + 1) /\ file[i].id \in Nat /\ file[k + 1].id \in Nat
          /\ \A j \in 1..k : j \in 1..Len(file)
      BY <1>1, <3>1, <3>7
    <3>8. \A j \in 1..k : file[j].id \in Nat
      BY <1>1, <3>2
    <3>4. ASSUME file[k + 1].id <= file[i].id PROVE Upto(k + 1)
      <4>1. ASSUME NEW j \in 1..(k + 1) PROVE file[j].id <= file[i].id
        <5>1. j \in 1..k \/ j = k + 1
          OBVIOUS
        <5> QED
          BY <3>4, <3>7, <5>1
      <4> QED
        BY <3>2, <4>1
    <3>5. ASSUME file[i].id <= file[k + 1].id PROVE Upto(k + 1)
      <4>1. ASSUME NEW j \in 1..(k + 1) PROVE file[j].id <= file[k + 1].id
        <5>1. CASE j \in 1..k
          BY <3>2, <3>5, <3>7, <3>8, <5>1
        <5>2. CASE j = k + 1
          BY <3>2, <5>2
        <5> QED
          BY <5>1, <5>2
      <4> QED
        BY <3>2, <4>1
    <3>9. file[k + 1].id <= file[i].id \/ file[i].id <= file[k + 1].id
      BY <3>2
    <3> QED
      BY <3>4, <3>5, <3>9
  <2> QED
    BY <2>1, <2>2
<1> HIDE DEF Upto, S
<1>4. Len(file) \in S
  BY <1>1, <1>2, <1>3, NatSetInduction
<1>5. Upto(Len(file))
  BY <1>1, <1>4 DEF S
<1> QED
  BY <1>1, <1>5 DEF Upto, Learning!ToSet

LEMMA LastIdTyped == ASSUME NEW file \in Seq(Learning!Lesson) PROVE Learning!LastId(file) \in Nat
<1>1. CASE file = <<>>
  BY <1>1 DEF Learning!LastId
<1>2. CASE file # <<>>
  <2> DEFINE last == CHOOSE m \in Learning!ToSet(file) : \A n \in Learning!ToSet(file) : n.id <= m.id
  <2>1. last \in Learning!ToSet(file)
    BY <1>2, LargestNumber
  <2>2. last \in Learning!Lesson
    BY <2>1, FileSet
  <2> QED
    BY <1>2, <2>2 DEF Learning!LastId, Learning!Lesson
<1> QED
  BY <1>1, <1>2

\* _find_pending finds a block when there is one.
LEMMA FirstFound ==
  ASSUME pending \in Seq(Learning!Lesson), NEW id, \E m \in Learning!ToSet(pending) : m.id = id
  PROVE  Learning!First(id) \in DOMAIN pending
<1> DEFINE T == {i \in DOMAIN pending : pending[i].id = id}
<1>1. DOMAIN pending = 1..Len(pending) /\ Len(pending) \in Nat
  BY LenProperties
<1>2. T \subseteq Nat /\ T # {}
  BY <1>1 DEF Learning!ToSet
<1> HIDE DEF T
<1>3. PICK i \in T : \A j \in T : i <= j
  BY <1>2, LeastNatural
<1>4. i \in DOMAIN pending /\ pending[i].id = id /\ \A j \in 1..(i - 1) : pending[j].id # id
  <2>1. i \in DOMAIN pending /\ pending[i].id = id
    BY DEF T
  <2>2. ASSUME NEW j \in 1..(i - 1), pending[j].id = id PROVE FALSE
    <3>1. j \in DOMAIN pending /\ j < i
      BY <1>1, <2>1
    <3>2. j \in T
      BY <2>2, <3>1 DEF T
    <3> QED
      BY <1>1, <1>3, <2>1, <3>1, <3>2
  <2> QED
    BY <2>1, <2>2
<1> QED
  BY <1>4 DEF Learning!First

LEMMA LessonsInit == ASSUME Learning!Init PROVE LessonsTyped
<1>1. 0 \in 0..MaxDecisions /\ 0 <= MaxAnalyses /\ Len(<<>>) = 0
  BY BoundsAssumption
<1>2. Learning!ToSet(<<>>) = {}
  BY DEF Learning!ToSet
<1>3. <<>> \in Seq(Learning!Analysis) /\ <<>> \in Seq(Learning!Lesson)
  OBVIOUS
<1>4. Learning!TypeOK
  BY <1>1, <1>3 DEF Learning!Init, Learning!TypeOK
<1>5. OnlyQueued
  BY <1>2 DEF Learning!Init, OnlyQueued
<1> QED
  BY <1>4, <1>5 DEF LessonsTyped

\* The analyses change, and a draft may join the queue.
LEMMA AnalysesTyped ==
  ASSUME LessonsTyped, run' \in Seq(Learning!Analysis), Len(run') <= MaxAnalyses,
         UNCHANGED <<canonical, edit, decisions, dropped>>,
         \/ UNCHANGED <<pending, queued>>
         \/ \E m \in Learning!Lesson : pending' = Append(pending, m) /\ queued' = queued \cup {m}
  PROVE  LessonsTyped'
<1>1. pending \in Seq(Learning!Lesson) /\ queued \subseteq Learning!Lesson /\ Learning!ToSet(pending) \subseteq queued
  BY DEF LessonsTyped, Learning!TypeOK, OnlyQueued
<1>2. /\ pending' \in Seq(Learning!Lesson) /\ queued \subseteq queued' /\ queued' \subseteq Learning!Lesson
      /\ Learning!ToSet(pending') \subseteq queued'
  <2>1. CASE UNCHANGED <<pending, queued>>
    BY <1>1, <2>1
  <2>2. ASSUME NEW m \in Learning!Lesson, pending' = Append(pending, m), queued' = queued \cup {m}
        PROVE  /\ pending' \in Seq(Learning!Lesson) /\ queued \subseteq queued' /\ queued' \subseteq Learning!Lesson
               /\ Learning!ToSet(pending') \subseteq queued'
    BY <1>1, <2>2, OneMore
  <2> QED
    BY <2>1, <2>2
<1>3. Learning!TypeOK'
  BY <1>2 DEF LessonsTyped, Learning!TypeOK
<1>4. OnlyQueued'
  BY <1>2 DEF LessonsTyped, OnlyQueued, Learning!ToSet
<1> QED
  BY <1>3, <1>4 DEF LessonsTyped

LEMMA AnalysisTyped == ASSUME LessonsTyped, NEW k \in DOMAIN run PROVE run[k] \in Learning!Analysis /\ k \in 1..MaxAnalyses
<1>1. run \in Seq(Learning!Analysis) /\ Len(run) <= MaxAnalyses
  BY DEF LessonsTyped, Learning!TypeOK
<1>2. DOMAIN run = 1..Len(run) /\ Len(run) \in Nat
  BY <1>1, LenProperties
<1>3. k \in 1..MaxAnalyses
  BY <1>1, <1>2, BoundsAssumption
<1> QED
  BY <1>1, <1>2, <1>3, ElementOfSeq

LEMMA AnalysisChanges ==
  ASSUME LessonsTyped, NEW k \in DOMAIN run, NEW a \in Learning!Analysis
  PROVE  [run EXCEPT ![k] = a] \in Seq(Learning!Analysis) /\ Len([run EXCEPT ![k] = a]) <= MaxAnalyses
<1>1. run \in Seq(Learning!Analysis) /\ Len(run) <= MaxAnalyses
  BY DEF LessonsTyped, Learning!TypeOK
<1>2. DOMAIN run = 1..Len(run)
  BY <1>1, LenProperties
<1>3. [run EXCEPT ![k] = a] \in Seq(Learning!Analysis) /\ Len([run EXCEPT ![k] = a]) = Len(run)
  BY <1>1, <1>2, ExceptSeq
<1> QED
  BY <1>1, <1>3

LEMMA AnalysesKeep ==
  ASSUME LessonsTyped,
         \/ \E r \in Analysed : Learning!Trigger(r)
         \/ \E k \in DOMAIN run : Learning!Start(k) \/ Learning!Read(k) \/ Learning!Draft(k)
  PROVE  LessonsTyped'
<1>1. ASSUME NEW r \in Analysed, Learning!Trigger(r) PROVE LessonsTyped'
  <2> DEFINE a == [request |-> r, stage |-> "scheduled", next |-> 0]
  <2>1. a \in Learning!Analysis
    BY DEF Learning!Analysis, Learning!Running
  <2>2. run' = Append(run, a) /\ Len(run) < MaxAnalyses /\ UNCHANGED <<canonical, pending, edit, decisions, queued, dropped>>
    BY <1>1 DEF Learning!Trigger
  <2>3. run \in Seq(Learning!Analysis)
    BY DEF LessonsTyped, Learning!TypeOK
  <2> HIDE DEF a
  <2>4. run' \in Seq(Learning!Analysis) /\ Len(run') = Len(run) + 1 /\ Len(run) \in Nat
    BY <2>1, <2>2, <2>3, AppendProperties, LenProperties
  <2>5. Len(run') <= MaxAnalyses
    BY <2>2, <2>4, BoundsAssumption
  <2> QED
    BY <2>2, <2>4, <2>5, AnalysesTyped
<1>2. ASSUME NEW k \in DOMAIN run, Learning!Start(k) PROVE LessonsTyped'
  <2> DEFINE a == [run[k] EXCEPT !.stage = "reading"]
  <2>1. a \in Learning!Analysis
    BY AnalysisTyped DEF Learning!Analysis, Learning!Running
  <2>2. run' = [run EXCEPT ![k] = a] /\ UNCHANGED <<canonical, pending, edit, decisions, queued, dropped>>
    BY <1>2 DEF Learning!Start
  <2> HIDE DEF a
  <2>3. run' \in Seq(Learning!Analysis) /\ Len(run') <= MaxAnalyses
    BY <2>1, <2>2, AnalysisChanges
  <2> QED
    BY <2>2, <2>3, AnalysesTyped
<1>3. ASSUME NEW k \in DOMAIN run, Learning!Read(k) PROVE LessonsTyped'
  <2> DEFINE next == Learning!LastId(canonical) + 1
             a == [[run[k] EXCEPT !.stage = "drafting"] EXCEPT !.next = next]
  <2>1. Learning!LastId(canonical) \in Nat
    BY LastIdTyped DEF LessonsTyped, Learning!TypeOK
  <2>2. next \in Nat
    BY <2>1
  <2>3. run' = [run EXCEPT ![k].stage = "drafting", ![k].next = next] /\ UNCHANGED <<canonical, pending, edit, decisions, queued, dropped>>
    BY <1>3 DEF Learning!Read
  <2> HIDE DEF next
  <2>4. run[k] \in Learning!Analysis
    BY AnalysisTyped
  <2>5. a \in Learning!Analysis
    BY <2>2, <2>4 DEF Learning!Analysis, Learning!Running
  <2>6. run' = [run EXCEPT ![k] = a]
    BY <2>3, <2>4
  <2> HIDE DEF a
  <2>7. run' \in Seq(Learning!Analysis) /\ Len(run') <= MaxAnalyses
    BY <2>5, <2>6, AnalysisChanges
  <2> QED
    BY <2>3, <2>7, AnalysesTyped
<1>4. ASSUME NEW k \in DOMAIN run, Learning!Draft(k) PROVE LessonsTyped'
  <2> DEFINE a == [run[k] EXCEPT !.stage = "done"]
  <2>1. a \in Learning!Analysis
    BY AnalysisTyped DEF Learning!Analysis
  <2>2. run' = [run EXCEPT ![k] = a] /\ UNCHANGED <<canonical, edit, decisions, dropped>>
    BY <1>4 DEF Learning!Draft, Learning!Ends
  <2>3. run[k].next \in Nat /\ k \in 1..MaxAnalyses
    BY AnalysisTyped DEF Learning!Analysis
  <2> HIDE DEF a
  <2>6. run' \in Seq(Learning!Analysis) /\ Len(run') <= MaxAnalyses
    BY <2>1, <2>2, AnalysisChanges
  <2>4. ASSUME NEW sig \in Signatures, Learning!Queue(k, sig) PROVE LessonsTyped'
    <3> DEFINE m == [by |-> k, sig |-> sig, id |-> run[k].next]
    <3>1. m \in Learning!Lesson
      BY <2>3 DEF Learning!Lesson
    <3>2. pending' = Append(pending, m) /\ queued' = queued \cup {m}
      BY <2>4 DEF Learning!Queue
    <3> HIDE DEF m
    <3> QED
      BY <2>2, <2>6, <3>1, <3>2, AnalysesTyped
  <2>5. CASE UNCHANGED <<pending, queued>>
    BY <2>2, <2>5, <2>6, AnalysesTyped
  <2> QED
    BY <1>4, <2>4, <2>5 DEF Learning!Draft
<1> QED
  BY <1>1, <1>2, <1>3, <1>4

LEMMA DecisionCounts == ASSUME LessonsTyped, decisions < MaxDecisions, decisions' = decisions + 1 PROVE decisions' \in 0..MaxDecisions
<1>1. decisions \in 0..MaxDecisions
  BY DEF LessonsTyped, Learning!TypeOK
<1> QED
  BY <1>1, BoundsAssumption, CountsUp

\* What a decision takes along.
LEMMA DecisionBegins ==
  ASSUME LessonsTyped, NEW w \in Analysts, NEW id, NEW what \in {"approve", "reject"}, NEW step \in 1..2,
         Learning!Decide(w, id, what, step)
  PROVE  /\ LessonsTyped'
         /\ UNCHANGED <<run, canonical, pending, queued, dropped>>
         /\ edit'[w].verdict = what /\ edit'[w].step = step /\ edit'[w].canonical = canonical
         /\ Learning!ToSet(pending) = Learning!ToSet(edit'[w].pending) \cup {edit'[w].lesson}
<1> DEFINE i == Learning!First(id)
           rest == Learning!RemoveAt(pending, i)
           m == pending[i]
           d == [verdict |-> what, lesson |-> m, step |-> step, canonical |-> canonical, pending |-> rest]
<1>1. canonical \in Seq(Learning!Lesson) /\ pending \in Seq(Learning!Lesson) /\ Learning!ToSet(pending) \subseteq queued
  BY DEF LessonsTyped, Learning!TypeOK, OnlyQueued
<1>2. /\ decisions < MaxDecisions /\ decisions' = decisions + 1 /\ (\E n \in Learning!ToSet(pending) : n.id = id)
      /\ edit' = [edit EXCEPT ![w] = d] /\ UNCHANGED <<run, canonical, pending, queued, dropped>>
  BY DEF Learning!Decide
<1>3. i \in DOMAIN pending
  BY <1>1, <1>2, FirstFound
<1>4. rest \in Seq(Learning!Lesson) /\ m \in Learning!Lesson /\ Learning!ToSet(pending) = Learning!ToSet(rest) \cup {m}
  BY <1>1, <1>3, WithoutOne
<1> HIDE DEF i, rest, m
<1>5. d \in Learning!Decision
  BY <1>1, <1>4 DEF Learning!Decision
<1>6. d.verdict = what /\ d.step = step /\ d.canonical = canonical /\ d.lesson = m /\ d.pending = rest
  OBVIOUS
<1> HIDE DEF d
<1>7. edit'[w] = d /\ \A v \in Analysts \ {w} : edit'[v] = edit[v]
  BY <1>2 DEF LessonsTyped, Learning!TypeOK
<1>8. decisions' \in 0..MaxDecisions
  BY <1>2, DecisionCounts
<1>9. edit' \in [Analysts -> Learning!Decision \cup {Null}]
  BY <1>2, <1>5 DEF LessonsTyped, Learning!TypeOK
<1>10. Learning!TypeOK'
  BY <1>2, <1>8, <1>9 DEF LessonsTyped, Learning!TypeOK
<1>11. m \in queued /\ Learning!ToSet(rest) \subseteq queued
  BY <1>1, <1>4
<1>12. OnlyQueued'
  <2>1. Learning!ToSet(pending)' \subseteq queued'
    BY <1>1, <1>2 DEF Learning!ToSet
  <2>2. ASSUME NEW v \in Analysts, edit'[v] # Null
        PROVE  edit'[v].lesson \in queued' /\ Learning!ToSet(edit'[v].pending) \subseteq queued'
    <3>1. CASE v = w
      BY <1>2, <1>6, <1>7, <1>11, <3>1
    <3>2. CASE v # w
      BY <1>2, <1>7, <2>2, <3>2 DEF LessonsTyped, OnlyQueued
    <3> QED
      BY <3>1, <3>2
  <2> QED
    BY <2>1, <2>2 DEF OnlyQueued, Learning!ToSet
<1> QED
  BY <1>2, <1>4, <1>6, <1>7, <1>10, <1>12 DEF LessonsTyped

\* One of the writes of a decision.
LEMMA WriteTyped == ASSUME LessonsTyped, NEW w \in Analysts, Learning!WriteFile(w) PROVE LessonsTyped'
<1> DEFINE next == IF edit[w].step = 1 THEN [edit[w] EXCEPT !.step = 2] ELSE Null
<1>1. edit[w] # Null /\ edit[w] \in Learning!Decision /\ canonical \in Seq(Learning!Lesson) /\ pending \in Seq(Learning!Lesson)
      /\ queued \subseteq Learning!Lesson /\ dropped \subseteq queued /\ Learning!ToSet(pending) \subseteq queued
      /\ edit[w].lesson \in queued /\ Learning!ToSet(edit[w].pending) \subseteq queued
  BY DEF LessonsTyped, Learning!TypeOK, OnlyQueued, Learning!WriteFile
<1>2. edit[w].lesson \in Learning!Lesson /\ edit[w].canonical \in Seq(Learning!Lesson) /\ edit[w].pending \in Seq(Learning!Lesson)
  BY <1>1 DEF Learning!Decision
<1>3. edit' = [edit EXCEPT ![w] = next] /\ UNCHANGED <<run, decisions, queued>>
  BY DEF LessonsTyped, Learning!TypeOK, Learning!WriteFile
<1>4. next \in Learning!Decision \cup {Null}
      /\ (next # Null => next.lesson = edit[w].lesson /\ next.pending = edit[w].pending)
  <2>1. CASE edit[w].step = 1
    <3>1. next = [edit[w] EXCEPT !.step = 2]
      BY <2>1
    <3>2. PICK d \in Learning!Decision : d = edit[w]
      BY <1>1
    <3>3. PICK n : n = [d EXCEPT !.step = 2]
      OBVIOUS
    <3>4. n \in Learning!Decision /\ n.lesson = d.lesson /\ n.pending = d.pending
      BY ONLY d \in Learning!Decision, <3>3 DEF Learning!Decision
    <3>5. n = next
      BY <3>1, <3>2, <3>3
    <3> QED
      BY <3>2, <3>4, <3>5
  <2>2. CASE edit[w].step # 1
    BY <2>2
  <2> QED
    BY <2>1, <2>2
<1> HIDE DEF next
<1>5. edit'[w] = next /\ (\A v \in Analysts \ {w} : edit'[v] = edit[v]) /\ edit' \in [Analysts -> Learning!Decision \cup {Null}]
  BY <1>3, <1>4 DEF LessonsTyped, Learning!TypeOK
<1>6. /\ canonical' \in Seq(Learning!Lesson) /\ pending' \in Seq(Learning!Lesson) /\ dropped' \subseteq queued
      /\ Learning!ToSet(pending') \subseteq queued
  <2>1. \/ /\ canonical' = Append(edit[w].canonical, edit[w].lesson) /\ UNCHANGED <<pending, dropped>>
        \/ /\ pending' = edit[w].pending /\ UNCHANGED canonical /\ dropped' \in {dropped, dropped \cup {edit[w].lesson}}
    BY DEF Learning!WriteFile
  <2>2. Append(edit[w].canonical, edit[w].lesson) \in Seq(Learning!Lesson)
    BY <1>2, OneMore
  <2> QED
    BY <1>1, <1>2, <2>1, <2>2 DEF Learning!ToSet
<1>7. Learning!TypeOK'
  BY <1>3, <1>5, <1>6 DEF LessonsTyped, Learning!TypeOK
<1>8. OnlyQueued'
  <2>1. ASSUME NEW v \in Analysts, edit'[v] # Null PROVE edit'[v].lesson \in queued /\ Learning!ToSet(edit'[v].pending) \subseteq queued
    <3>1. CASE v = w
      BY <1>1, <1>4, <1>5, <2>1, <3>1
    <3>2. CASE v # w
      BY <1>5, <2>1, <3>2 DEF LessonsTyped, OnlyQueued
    <3> QED
      BY <3>1, <3>2
  <2> QED
    BY <1>3, <1>6, <2>1 DEF OnlyQueued, Learning!ToSet
<1> QED
  BY <1>7, <1>8 DEF LessonsTyped

LEMMA CrashTyped == ASSUME LessonsTyped, NEW w \in Analysts, Learning!Crash(w) PROVE LessonsTyped'
<1>1. /\ decisions < MaxDecisions /\ decisions' = decisions + 1 /\ edit' = [edit EXCEPT ![w] = Null]
      /\ run' = [k \in DOMAIN run |-> [run[k] EXCEPT !.stage = "done"]]
      /\ UNCHANGED <<canonical, pending, queued, dropped>>
  BY DEF Learning!Crash
<1>2. decisions' \in 0..MaxDecisions
  BY <1>1, DecisionCounts
<1>3. run \in Seq(Learning!Analysis) /\ Len(run) <= MaxAnalyses /\ DOMAIN run = 1..Len(run) /\ Len(run) \in Nat
  BY LenProperties DEF LessonsTyped, Learning!TypeOK
<1>4. \A k \in 1..Len(run) : [run[k] EXCEPT !.stage = "done"] \in Learning!Analysis
  BY <1>3, AnalysisTyped DEF Learning!Analysis
<1>5. run' \in Seq(Learning!Analysis) /\ Len(run') = Len(run)
  BY <1>1, <1>3, <1>4
<1>6. edit' \in [Analysts -> Learning!Decision \cup {Null}] /\ \A v \in Analysts : edit'[v] \in {edit[v], Null}
  BY <1>1 DEF LessonsTyped, Learning!TypeOK
<1>7. Learning!TypeOK'
  BY <1>1, <1>2, <1>3, <1>5, <1>6 DEF LessonsTyped, Learning!TypeOK
<1>8. OnlyQueued'
  BY <1>1, <1>6 DEF LessonsTyped, OnlyQueued, Learning!ToSet
<1> QED
  BY <1>7, <1>8 DEF LessonsTyped

LEMMA LessonsNext == ASSUME LessonsTyped, [Learning!Next]_Learning!lessonVars PROVE LessonsTyped'
<1>1. CASE UNCHANGED Learning!lessonVars
  BY <1>1 DEF Learning!lessonVars, LessonsTyped, Learning!TypeOK, OnlyQueued, Learning!ToSet
<1>2. ASSUME NEW w \in Analysts, NEW id, Learning!Approve(w, id) \/ Learning!Reject(w, id) PROVE LessonsTyped'
  BY <1>2, DecisionBegins DEF Learning!Approve, Learning!Reject
<1>3. ASSUME NEW w \in Analysts, Learning!WriteFile(w) \/ Learning!Crash(w) PROVE LessonsTyped'
  BY <1>3, WriteTyped, CrashTyped
<1> QED
  BY <1>1, <1>2, <1>3, AnalysesKeep DEF Learning!Next

(***************************************************************************)
(* With one process nothing comes between a decision and its writes        *)
(***************************************************************************)
\* The files of a decision are those that are stored, its lesson apart.
UpToDate(w) ==
  edit[w] # Null =>
    /\ Learning!ToSet(pending) \subseteq Learning!ToSet(edit[w].pending) \cup {edit[w].lesson}
    /\ edit[w].verdict = "reject" => edit[w].step = 2
    /\ edit[w].step = 1 => edit[w].canonical = canonical
    /\ edit[w].verdict = "approve" /\ edit[w].step = 2 => edit[w].lesson \in Learning!ToSet(canonical)
OneProcess(w) == Analysts = {w}
LessonsKept(w) == LessonsTyped /\ UpToDate(w) /\ Learning!NoLessonLost

LEMMA KeptInit == ASSUME NEW w, OneProcess(w), Learning!Init PROVE LessonsKept(w)
<1>1. LessonsTyped
  BY LessonsInit
<1> QED
  BY <1>1 DEF Learning!Init, LessonsKept, UpToDate, OneProcess, Learning!NoLessonLost, Learning!ToSet

LEMMA LessonsFacts ==
  /\ LessonsTyped => Learning!TypeOK
  /\ \A w : LessonsKept(w) => Learning!NoLessonLost
BY DEF LessonsTyped, LessonsKept

LEMMA KeptNext == ASSUME NEW w, OneProcess(w), LessonsKept(w), [Learning!Next]_Learning!lessonVars PROVE LessonsKept(w)'
<1>0. LessonsTyped'
  BY LessonsNext DEF LessonsKept
<1>1. w \in Analysts
  BY DEF OneProcess
<1>2. canonical \in Seq(Learning!Lesson) /\ pending \in Seq(Learning!Lesson)
  BY DEF LessonsKept, LessonsTyped, Learning!TypeOK
<1>3. CASE UNCHANGED Learning!lessonVars
  BY <1>0, <1>3 DEF Learning!lessonVars, LessonsKept, UpToDate, Learning!NoLessonLost, Learning!ToSet
<1>4. ASSUME Learning!Free, \/ \E r \in Analysed : Learning!Trigger(r)
                           \/ \E k \in DOMAIN run : Learning!Start(k) \/ Learning!Read(k) \/ Learning!Draft(k)
      PROVE  LessonsKept(w)'
  <2>1. Learning!Cardinality(Analysts) = 1
    <3>1. Learning!Cardinality(Analysts) = Cardinality(Analysts)
      BY DEF Learning!Cardinality, Cardinality
    <3> QED
      BY <3>1, FS_Singleton DEF OneProcess
  <2>2. edit[w] = Null
    <3>1. ~(Learning!Cardinality(Analysts) > 1)
      BY <2>1
    <3> QED
      BY <1>1, <1>4, <3>1, Zenon DEF Learning!Free
  <2>3. UNCHANGED <<canonical, edit, dropped>>
    BY <1>4 DEF Learning!Trigger, Learning!Start, Learning!Read, Learning!Draft
  <2>4. UpToDate(w)'
    BY <2>2, <2>3 DEF UpToDate
  <2>5. Learning!NoLessonLost'
    <3>1. CASE UNCHANGED <<pending, queued>>
      BY <2>3, <3>1 DEF LessonsKept, Learning!NoLessonLost, Learning!ToSet
    <3>2. ASSUME NEW k \in DOMAIN run, NEW sig \in Signatures, Learning!Queue(k, sig) PROVE Learning!NoLessonLost'
      <4> DEFINE m == [by |-> k, sig |-> sig, id |-> run[k].next]
      <4>1. run[k].next \in Nat /\ k \in 1..MaxAnalyses
        BY AnalysisTyped DEF LessonsKept, Learning!Analysis
      <4>2. m \in Learning!Lesson
        BY <4>1 DEF Learning!Lesson
      <4>3. pending' = Append(pending, m) /\ queued' = queued \cup {m}
        BY <3>2 DEF Learning!Queue
      <4> HIDE DEF m
      <4>4. Learning!ToSet(pending') = Learning!ToSet(pending) \cup {m}
        BY <1>2, <4>2, <4>3, OneMore
      <4> QED
        BY <2>3, <4>3, <4>4 DEF LessonsKept, Learning!NoLessonLost, Learning!ToSet
    <3> QED
      BY <1>4, <3>1, <3>2 DEF Learning!Trigger, Learning!Start, Learning!Read, Learning!Draft
  <2> QED
    BY <1>0, <2>4, <2>5 DEF LessonsKept
<1>5. ASSUME NEW id, Learning!Approve(w, id) \/ Learning!Reject(w, id) PROVE LessonsKept(w)'
  <2>1. /\ UNCHANGED <<canonical, pending, queued, dropped>> /\ edit'[w].canonical = canonical
        /\ Learning!ToSet(pending) = Learning!ToSet(edit'[w].pending) \cup {edit'[w].lesson}
        /\ \/ edit'[w].verdict = "approve" /\ edit'[w].step = 1
           \/ edit'[w].verdict = "reject" /\ edit'[w].step = 2
    BY <1>1, <1>5, DecisionBegins DEF Learning!Approve, Learning!Reject, LessonsKept
  <2> QED
    BY <1>0, <2>1 DEF LessonsKept, UpToDate, Learning!NoLessonLost, Learning!ToSet
<1>6. CASE Learning!Crash(w)
  <2>1. edit'[w] = Null /\ UNCHANGED <<canonical, pending, queued, dropped>>
    BY <1>1, <1>6 DEF Learning!Crash, LessonsKept, LessonsTyped, Learning!TypeOK
  <2> QED
    BY <1>0, <2>1 DEF LessonsKept, UpToDate, Learning!NoLessonLost, Learning!ToSet
<1>7. CASE Learning!WriteFile(w)
  <2>1. edit[w] # Null /\ UpToDate(w) /\ edit[w] \in Learning!Decision /\ Learning!NoLessonLost
    BY <1>1, <1>7 DEF Learning!WriteFile, LessonsKept, LessonsTyped, Learning!TypeOK
  <2>2. edit[w].step \in {1, 2} /\ edit[w].verdict \in {"approve", "reject"} /\ edit[w].lesson \in Learning!Lesson
    BY <2>1 DEF Learning!Decision
  <2>3. CASE edit[w].verdict = "approve" /\ edit[w].step = 1
    <3>1. canonical' = Append(canonical, edit[w].lesson) /\ UNCHANGED <<pending, dropped, queued>>
          /\ edit'[w] = [edit[w] EXCEPT !.step = 2]
      BY <1>1, <1>7, <2>1, <2>3 DEF Learning!WriteFile, Learning!File, UpToDate, LessonsKept, LessonsTyped, Learning!TypeOK
    <3>2. Learning!ToSet(canonical') = Learning!ToSet(canonical) \cup {edit[w].lesson}
      BY <1>2, <2>2, <3>1, OneMore
    <3>3. edit'[w].lesson = edit[w].lesson /\ edit'[w].pending = edit[w].pending /\ edit'[w].step = 2 /\ edit'[w].verdict = "approve"
      BY <2>1, <2>3, <3>1 DEF Learning!Decision
    <3>4. UpToDate(w)'
      BY <2>1, <3>1, <3>2, <3>3 DEF UpToDate, Learning!ToSet
    <3>5. Learning!NoLessonLost'
      BY <2>1, <3>1, <3>2 DEF Learning!NoLessonLost, Learning!ToSet
    <3> QED
      BY <1>0, <3>4, <3>5 DEF LessonsKept
  <2>4. CASE edit[w].step = 2
    <3>1. pending' = edit[w].pending /\ UNCHANGED <<canonical, queued>> /\ edit'[w] = Null
          /\ dropped' = IF edit[w].verdict = "reject" THEN dropped \cup {edit[w].lesson} ELSE dropped
      BY <1>1, <1>7, <2>4 DEF Learning!WriteFile, Learning!File, LessonsKept, LessonsTyped, Learning!TypeOK
    <3>2. UpToDate(w)'
      BY <3>1 DEF UpToDate
    <3>3. Learning!ToSet(pending) \subseteq Learning!ToSet(pending') \cup Learning!ToSet(canonical') \cup dropped'
      BY <2>1, <2>2, <2>4, <3>1 DEF UpToDate, Learning!ToSet
    <3>4. dropped \subseteq dropped'
      BY <3>1
    <3>5. Learning!NoLessonLost'
      BY <2>1, <3>1, <3>3, <3>4 DEF Learning!NoLessonLost, Learning!ToSet
    <3> QED
      BY <1>0, <3>2, <3>5 DEF LessonsKept
  <2> QED
    BY <2>1, <2>2, <2>3, <2>4 DEF UpToDate
<1> QED
  BY <1>3, <1>4, <1>5, <1>6, <1>7 DEF Learning!Next, OneProcess

(***************************************************************************)
(* The records of a run                                                    *)
(***************************************************************************)
StoryIsNoNull == Null \notin Records!StoryRow

\* What the answer being stored for a request goes by.
StoriesFollow(r) ==
  job[r] # Null /\ job[r].kind = "stories" =>
    /\ \A raw \in job[r].raws : Records!Namespaced(r, raw) \in job[r].ids \/ story[Records!Namespaced(r, raw)] # Null
    /\ job[r].criteria # Null => story[job[r].criteria] # Null
StatusFollows(r) ==
  job[r] # Null /\ job[r].kind = "status" => \A t \in job[r].todo : story[t.id] # Null
CasesFollow(r) ==
  job[r] # Null /\ job[r].kind = "cases" => \A t \in job[r].todo \cup job[r].stored : story[t.story] # Null
Follows(r) == StoriesFollow(r) /\ StatusFollows(r) /\ CasesFollow(r)

NumberedStored == \A e \in emitted : e.raw.of = Null => story[<<e.of, e.raw.n>>] # Null
RecordInv == Records!TypeOK /\ (\A r \in Requests : Follows(r)) /\ NumberedStored

\* No story is ever taken away.
StoriesStay == \A id \in Records!Ids : story[id] # Null => story'[id] # Null

LEMMA NamespacedId == ASSUME NEW r \in Requests, NEW raw \in Records!Raw PROVE Records!Namespaced(r, raw) \in Records!Ids
BY DEF Records!Namespaced, Records!Raw, Records!Ids

LEMMA OthersFollow ==
  ASSUME RecordInv, StoriesStay, NEW r \in Requests, job'[r] = job[r] PROVE Follows(r)'
<1>1. job[r] # Null => job[r] \in Records!Job
  BY DEF RecordInv, Records!TypeOK
<1>2. Follows(r)
  BY DEF RecordInv
<1>3. StoriesFollow(r)'
  <2> SUFFICES ASSUME job[r] # Null, job[r].kind = "stories" PROVE StoriesFollow(r)'
    BY DEF StoriesFollow
  <2>1. job[r].raws \subseteq Records!Raw /\ job[r].criteria \in Records!Ids \cup {Null}
    BY <1>1 DEF Records!Job
  <2>2. \A raw \in job[r].raws : Records!Namespaced(r, raw) \in Records!Ids
    BY <2>1, NamespacedId
  <2>3. \A raw : Records!Namespaced(r, raw)' = Records!Namespaced(r, raw)
    BY DEF Records!Namespaced
  <2>4. StoriesFollow(r)
    BY <1>2 DEF Follows
  <2>5. \A raw \in job'[r].raws : Records!Namespaced(r, raw) \in job'[r].ids \/ story'[Records!Namespaced(r, raw)] # Null
    BY <2>2, <2>4 DEF StoriesFollow, StoriesStay
  <2>6. job'[r].criteria # Null => story'[job'[r].criteria] # Null
    BY <2>1, <2>4 DEF StoriesFollow, StoriesStay
  <2> QED
    BY <2>5, <2>6 DEF StoriesFollow, Records!Namespaced
<1>4. StatusFollows(r)'
  <2> SUFFICES ASSUME job[r] # Null, job[r].kind = "status", NEW t \in job[r].todo PROVE story'[t.id] # Null
    BY DEF StatusFollows
  <2>1. t.id \in Records!Ids
    BY <1>1 DEF Records!Job
  <2> QED
    BY <1>2, <2>1 DEF Follows, StatusFollows, StoriesStay
<1>5. CasesFollow(r)'
  <2> SUFFICES ASSUME job[r] # Null, job[r].kind = "cases", NEW t \in job[r].todo \cup job[r].stored PROVE story'[t.story] # Null
    BY DEF CasesFollow
  <2>1. t.story \in Records!Ids
    BY <1>1 DEF Records!Job, Records!CaseRow
  <2> QED
    BY <1>2, <2>1 DEF Follows, CasesFollow, StoriesStay
<1> QED
  BY <1>3, <1>4, <1>5 DEF Follows

LEMMA NumberedStay == ASSUME RecordInv, StoriesStay, UNCHANGED emitted PROVE NumberedStored'
<1>1. \A e \in emitted : <<e.of, e.raw.n>> \in Records!Ids
  BY DEF RecordInv, Records!TypeOK, Records!Raw, Records!Ids
<1> QED
  BY <1>1 DEF RecordInv, NumberedStored, StoriesStay

\* What a step of one request's answer has to show.
LEMMA OneFollows ==
  ASSUME RecordInv, Records!TypeOK', StoriesStay, NEW r \in Requests, Follows(r)', NumberedStored',
         \A q \in Requests \ {r} : job'[q] = job[q]
  PROVE  RecordInv'
<1>1. \A q \in Requests : Follows(q)'
  <2> TAKE q \in Requests
  <2>1. CASE q = r
    BY <2>1
  <2>2. CASE q # r
    BY <2>2, OthersFollow
  <2> QED
    BY <2>1, <2>2
<1> QED
  BY <1>1 DEF RecordInv

LEMMA NothingFollows == ASSUME NEW r \in Requests, job'[r] = Null \/ job'[r].kind = "publish" PROVE Follows(r)'
BY DEF Follows, StoriesFollow, StatusFollows, CasesFollow

LEMMA StoryNotNull == ASSUME StoryIsNoNull, NEW s \in Records!StoryRow PROVE s # Null
BY DEF StoryIsNoNull

LEMMA JobTyped ==
  ASSUME RecordInv, NEW r \in Requests, job[r] # Null
  PROVE  /\ job[r] \in Records!Job
         /\ job[r].kind = "stories" =>
              job[r] \in [kind : {"stories"}, raws : SUBSET Records!Raw, ids : SUBSET Records!Ids, criteria : Records!Ids \cup {Null}]
         /\ job[r].kind = "status" =>
              job[r] \in [kind : {"status"}, status : 2..5, table : SUBSET Records!CaseRow,
                          todo : SUBSET [id : Records!Ids, was : Records!StoryRow]]
         /\ job[r].kind = "cases" => job[r] \in [kind : {"cases"}, todo : SUBSET Records!CaseRow, stored : SUBSET Records!CaseRow]
         /\ job[r].kind = "publish" => job[r] \in [kind : {"publish"}, files : SUBSET Reports, commit : BOOLEAN, tried : BOOLEAN]
<1>1. job[r] \in Records!Job
  BY DEF RecordInv, Records!TypeOK
<1> QED
  BY <1>1 DEF Records!Job

\* The shape of a step that changes the answer of one request.
LEMMA RunCounts == ASSUME RecordInv, runs < MaxRuns, runs' = runs + 1 PROVE runs' \in 0..MaxRuns
<1>1. runs \in 0..MaxRuns
  BY DEF RecordInv, Records!TypeOK
<1> QED
  BY <1>1, BoundsAssumption, CountsUp

LEMMA AnalystKeeps ==
  ASSUME RecordInv, NEW r \in Requests, NEW raws \in SUBSET Records!Raw, Records!Analyst(r, raws) PROVE RecordInv'
<1> DEFINE open == {Records!Namespaced(r, raw) : raw \in raws}
           j == [kind |-> "stories", raws |-> raws, ids |-> open, criteria |-> Null]
<1>1. runs < MaxRuns /\ runs' = runs + 1 /\ job' = [job EXCEPT ![r] = j] /\ UNCHANGED <<story, case, folder, repo, repoRow, emitted>>
  BY DEF Records!Analyst, Records!Begins
<1>2. open \subseteq Records!Ids
  BY NamespacedId
<1>3. \A raw \in raws : Records!Namespaced(r, raw) \in open
  OBVIOUS
<1>9. runs' \in 0..MaxRuns
  BY <1>1, RunCounts
<1> HIDE DEF open
<1>4. j \in Records!Job
  BY <1>2 DEF Records!Job
<1>5. job'[r] = j /\ \A q \in Requests \ {r} : job'[q] = job[q]
  BY <1>1 DEF RecordInv, Records!TypeOK
<1>6. Records!TypeOK'
  <2>1. job' \in [Requests -> Records!Job \cup {Null}]
    BY <1>1, <1>4 DEF RecordInv, Records!TypeOK
  <2> QED
    BY <1>1, <1>9, <2>1 DEF RecordInv, Records!TypeOK
<1>7. Follows(r)'
  BY <1>3, <1>5 DEF Follows, StoriesFollow, StatusFollows, CasesFollow, Records!Namespaced
<1> QED
  BY <1>1, <1>5, <1>6, <1>7, OneFollows, NumberedStay DEF StoriesStay

LEMMA CreateStoryKeeps == ASSUME StoryIsNoNull, RecordInv, NEW r \in Requests, Records!CreateStory(r) PROVE RecordInv'
<1>0. job[r] # Null /\ job[r].kind = "stories" /\ job[r].criteria = Null
  BY DEF Records!CreateStory, Records!Doing
<1>1. job[r] \in [kind : {"stories"}, raws : SUBSET Records!Raw, ids : SUBSET Records!Ids, criteria : Records!Ids \cup {Null}]
  BY <1>0, JobTyped
<1>2. PICK id \in job[r].ids :
       IF story[id] = Null
       THEN /\ story' = [story EXCEPT ![id] = [of |-> r, status |-> 1, covered |-> Null, criteria |-> FALSE]]
            /\ job' = [job EXCEPT ![r].ids = @ \ {id}, ![r].criteria = id]
       ELSE job' = [job EXCEPT ![r].ids = @ \ {id}] /\ UNCHANGED story
  BY DEF Records!CreateStory
<1>3. id \in Records!Ids
  BY <1>1
<1> DEFINE new == [of |-> r, status |-> 1, covered |-> Null, criteria |-> FALSE]
<1>4. new \in Records!StoryRow
  BY DEF Records!StoryRow
<1>5. new # Null
  BY <1>4, StoryNotNull
<1>6. UNCHANGED <<case, folder, repo, repoRow, runs, emitted>>
  BY DEF Records!CreateStory
<1> HIDE DEF new
<1>7. story' \in [Records!Ids -> Records!StoryRow \cup {Null}] /\ story'[id] # Null /\ StoriesStay
  BY <1>2, <1>3, <1>4, <1>5 DEF new, RecordInv, Records!TypeOK, StoriesStay
<1>8. \A q \in Requests \ {r} : job'[q] = job[q]
  BY <1>2 DEF RecordInv, Records!TypeOK
<1>9. /\ job'[r].kind = "stories" /\ job'[r].raws = job[r].raws /\ job'[r].ids = job[r].ids \ {id}
      /\ job'[r].criteria \in {Null, id} /\ job'[r] \in Records!Job
  BY <1>1, <1>2, <1>3, <1>0 DEF RecordInv, Records!TypeOK, Records!Job
<1>10. Records!TypeOK'
  <2>1. job' \in [Requests -> Records!Job \cup {Null}]
    BY <1>2, <1>9 DEF RecordInv, Records!TypeOK
  <2> QED
    BY <1>6, <1>7, <2>1 DEF RecordInv, Records!TypeOK
<1>11. Follows(r)'
  <2>1. \A raw \in job[r].raws : Records!Namespaced(r, raw) \in Records!Ids
    BY <1>1, NamespacedId
  <2>2. StoriesFollow(r)
    BY DEF RecordInv, Follows
  <2>3. \A raw \in job[r].raws : Records!Namespaced(r, raw) \in job[r].ids \ {id} \/ story'[Records!Namespaced(r, raw)] # Null
    BY <1>0, <1>7, <2>1, <2>2 DEF StoriesFollow, StoriesStay
  <2> QED
    BY <1>7, <1>9, <2>3 DEF Follows, StoriesFollow, StatusFollows, CasesFollow, Records!Namespaced
<1> QED
  BY <1>6, <1>7, <1>8, <1>10, <1>11, OneFollows, NumberedStay

LEMMA CreateCriteriaKeeps == ASSUME StoryIsNoNull, RecordInv, NEW r \in Requests, Records!CreateCriteria(r) PROVE RecordInv'
<1>0. job[r] # Null /\ job[r].kind = "stories" /\ job[r].criteria # Null
  BY DEF Records!CreateCriteria, Records!Doing
<1>1. job[r] \in [kind : {"stories"}, raws : SUBSET Records!Raw, ids : SUBSET Records!Ids, criteria : Records!Ids \cup {Null}]
  BY <1>0, JobTyped
<1>2. job[r].criteria \in Records!Ids /\ story[job[r].criteria] # Null
  BY <1>0, <1>1 DEF RecordInv, Follows, StoriesFollow
<1>3. story[job[r].criteria] \in Records!StoryRow
  BY <1>2 DEF RecordInv, Records!TypeOK
<1>4. [story[job[r].criteria] EXCEPT !.criteria = TRUE] \in Records!StoryRow
  BY <1>3 DEF Records!StoryRow
<1>5. [story[job[r].criteria] EXCEPT !.criteria = TRUE] # Null
  BY <1>4, StoryNotNull
<1>6. UNCHANGED <<case, folder, repo, repoRow, runs, emitted>> /\ job' = [job EXCEPT ![r].criteria = Null]
      /\ story' = [story EXCEPT ![job[r].criteria].criteria = TRUE]
  BY DEF Records!CreateCriteria
<1>7. story' \in [Records!Ids -> Records!StoryRow \cup {Null}] /\ StoriesStay
  BY <1>2, <1>4, <1>5, <1>6 DEF RecordInv, Records!TypeOK, StoriesStay
<1>8. \A q \in Requests \ {r} : job'[q] = job[q]
  BY <1>6 DEF RecordInv, Records!TypeOK
<1>9. /\ job'[r].kind = "stories" /\ job'[r].raws = job[r].raws /\ job'[r].ids = job[r].ids
      /\ job'[r].criteria = Null /\ job'[r] \in Records!Job
  BY <1>0, <1>1, <1>6 DEF RecordInv, Records!TypeOK, Records!Job
<1>10. Records!TypeOK'
  <2>1. job' \in [Requests -> Records!Job \cup {Null}]
    BY <1>6, <1>9 DEF RecordInv, Records!TypeOK
  <2> QED
    BY <1>6, <1>7, <2>1 DEF RecordInv, Records!TypeOK
<1>11. Follows(r)'
  <2>1. \A raw \in job[r].raws : Records!Namespaced(r, raw) \in Records!Ids
    BY <1>1, NamespacedId
  <2>2. StoriesFollow(r)
    BY DEF RecordInv, Follows
  <2>3. \A raw \in job[r].raws : Records!Namespaced(r, raw) \in job[r].ids \/ story'[Records!Namespaced(r, raw)] # Null
    BY <1>0, <1>7, <2>1, <2>2 DEF StoriesFollow, StoriesStay
  <2> QED
    BY <1>9, <2>3 DEF Follows, StoriesFollow, StatusFollows, CasesFollow, Records!Namespaced
<1> QED
  BY <1>6, <1>7, <1>8, <1>10, <1>11, OneFollows, NumberedStay

LEMMA StoriesStoredKeeps == ASSUME RecordInv, NEW r \in Requests, Records!StoriesStored(r) PROVE RecordInv'
<1>0. job[r] # Null /\ job[r].kind = "stories" /\ job[r].ids = {}
  BY DEF Records!StoriesStored, Records!Doing
<1>1. job[r] \in [kind : {"stories"}, raws : SUBSET Records!Raw, ids : SUBSET Records!Ids, criteria : Records!Ids \cup {Null}]
  BY <1>0, JobTyped
<1>2. emitted' = emitted \cup [of : {r}, raw : job[r].raws] /\ job' = [job EXCEPT ![r] = Null]
      /\ UNCHANGED <<story, case, folder, repo, repoRow, runs>>
  BY DEF Records!StoriesStored
<1>3. job'[r] = Null /\ \A q \in Requests \ {r} : job'[q] = job[q]
  BY <1>2 DEF RecordInv, Records!TypeOK
<1>4. Records!TypeOK'
  <2>1. job' \in [Requests -> Records!Job \cup {Null}]
    BY <1>2 DEF RecordInv, Records!TypeOK
  <2>2. emitted' \subseteq [of : Requests, raw : Records!Raw]
    BY <1>1, <1>2 DEF RecordInv, Records!TypeOK
  <2> QED
    BY <1>2, <2>1, <2>2 DEF RecordInv, Records!TypeOK
<1>5. NumberedStored'
  <2> SUFFICES ASSUME NEW e \in emitted', e.raw.of = Null PROVE story[<<e.of, e.raw.n>>] # Null
    BY <1>2 DEF NumberedStored
  <2>1. CASE e \in emitted
    BY <2>1 DEF RecordInv, NumberedStored
  <2>2. CASE e \in [of : {r}, raw : job[r].raws]
    <3>1. e.of = r /\ e.raw \in job[r].raws
      BY <2>2
    <3>2. story[Records!Namespaced(r, e.raw)] # Null
      BY <1>0, <3>1 DEF RecordInv, Follows, StoriesFollow
    <3> QED
      BY <3>1, <3>2 DEF Records!Namespaced
  <2> QED
    BY <1>2, <2>1, <2>2
<1> QED
  BY <1>2, <1>3, <1>4, <1>5, NothingFollows, OneFollows DEF StoriesStay

LEMMA ProgressKeeps ==
  ASSUME StoryIsNoNull, RecordInv, NEW r \in Requests, NEW s \in 2..5,
         NEW table \in SUBSET [id : Cases, story : Records!Own(r), passed : BOOLEAN], Records!Progress(r, s, table)
  PROVE  RecordInv'
<1> DEFINE open == {[id |-> id, was |-> story[id]] : id \in Records!Own(r)}
           j == [kind |-> "status", status |-> s, table |-> table, todo |-> open]
<1>1. runs < MaxRuns /\ runs' = runs + 1 /\ job' = [job EXCEPT ![r] = j] /\ UNCHANGED <<story, case, folder, repo, repoRow, emitted>>
  BY DEF Records!Progress, Records!Begins
<1>2. \A id \in Records!Own(r) : id \in Records!Ids /\ story[id] # Null /\ story[id] \in Records!StoryRow
  BY DEF Records!Own, RecordInv, Records!TypeOK
<1>3. open \subseteq [id : Records!Ids, was : Records!StoryRow] /\ \A t \in open : story[t.id] # Null
  BY <1>2
<1>4. table \subseteq Records!CaseRow
  BY <1>2 DEF Records!CaseRow
<1>9. runs' \in 0..MaxRuns
  BY <1>1, RunCounts
<1> HIDE DEF open
<1>5. j \in Records!Job
  BY <1>3, <1>4 DEF Records!Job
<1>6. job'[r] = j /\ \A q \in Requests \ {r} : job'[q] = job[q]
  BY <1>1 DEF RecordInv, Records!TypeOK
<1>7. Records!TypeOK'
  <2>1. job' \in [Requests -> Records!Job \cup {Null}]
    BY <1>1, <1>5 DEF RecordInv, Records!TypeOK
  <2> QED
    BY <1>1, <1>9, <2>1 DEF RecordInv, Records!TypeOK
<1>8. Follows(r)'
  BY <1>1, <1>3, <1>6 DEF Follows, StoriesFollow, StatusFollows, CasesFollow
<1> QED
  BY <1>1, <1>6, <1>7, <1>8, OneFollows, NumberedStay DEF StoriesStay

LEMMA UpdateStatusKeeps == ASSUME StoryIsNoNull, RecordInv, NEW r \in Requests, Records!UpdateStatus(r) PROVE RecordInv'
<1>0. job[r] # Null /\ job[r].kind = "status"
  BY DEF Records!UpdateStatus, Records!Doing
<1>1. job[r] \in [kind : {"status"}, status : 2..5, table : SUBSET Records!CaseRow,
                  todo : SUBSET [id : Records!Ids, was : Records!StoryRow]]
  BY <1>0, JobTyped
<1>2. PICK t \in job[r].todo :
       /\ story' = IF t.was.status = 5 THEN story
                   ELSE [story EXCEPT ![t.id].status = job[r].status, ![t.id].covered = t.was.covered]
       /\ job' = [job EXCEPT ![r].todo = @ \ {t}]
  BY DEF Records!UpdateStatus
<1>3. t.id \in Records!Ids /\ t.was \in Records!StoryRow /\ story[t.id] # Null
  BY <1>0, <1>1 DEF RecordInv, Follows, StatusFollows
<1>4. story[t.id] \in Records!StoryRow
  BY <1>3 DEF RecordInv, Records!TypeOK
<1>5. [[story[t.id] EXCEPT !.status = job[r].status] EXCEPT !.covered = t.was.covered] \in Records!StoryRow
  <2>1. job[r].status \in 1..5 /\ t.was.covered \in Records!Rates \cup {Null}
    BY <1>1, <1>3 DEF Records!StoryRow
  <2> QED
    BY <1>4, <2>1 DEF Records!StoryRow
<1>6. UNCHANGED <<case, folder, repo, repoRow, runs, emitted>>
  BY DEF Records!UpdateStatus
<1>7. story' \in [Records!Ids -> Records!StoryRow \cup {Null}] /\ StoriesStay
  <2>1. CASE t.was.status = 5
    BY <1>2, <2>1 DEF RecordInv, Records!TypeOK, StoriesStay
  <2>2. CASE t.was.status # 5
    <3> DEFINE new == [[story[t.id] EXCEPT !.status = job[r].status] EXCEPT !.covered = t.was.covered]
    <3>1. story' = [story EXCEPT ![t.id] = new]
      BY <1>2, <1>3, <2>2 DEF RecordInv, Records!TypeOK
    <3>2. new # Null
      BY <1>5, StoryNotNull
    <3>3. new \in Records!StoryRow
      BY <1>5
    <3> HIDE DEF new
    <3> QED
      BY <1>3, <3>1, <3>2, <3>3 DEF RecordInv, Records!TypeOK, StoriesStay
  <2> QED
    BY <2>1, <2>2
<1>8. \A q \in Requests \ {r} : job'[q] = job[q]
  BY <1>2 DEF RecordInv, Records!TypeOK
<1>9. job'[r].kind = "status" /\ job'[r].todo \subseteq job[r].todo /\ job'[r] \in Records!Job
  BY <1>0, <1>1, <1>2 DEF RecordInv, Records!TypeOK, Records!Job
<1>10. Records!TypeOK'
  <2>1. job' \in [Requests -> Records!Job \cup {Null}]
    BY <1>2, <1>9 DEF RecordInv, Records!TypeOK
  <2> QED
    BY <1>6, <1>7, <2>1 DEF RecordInv, Records!TypeOK
<1>11. Follows(r)'
  <2>1. \A u \in job'[r].todo : u.id \in Records!Ids /\ story[u.id] # Null
    BY <1>0, <1>1, <1>9 DEF RecordInv, Follows, StatusFollows
  <2> QED
    BY <1>7, <1>9, <2>1 DEF Follows, StoriesFollow, StatusFollows, CasesFollow, StoriesStay
<1> QED
  BY <1>6, <1>7, <1>8, <1>10, <1>11, OneFollows, NumberedStay

LEMMA ReadTableKeeps == ASSUME RecordInv, NEW r \in Requests, Records!ReadTable(r) PROVE RecordInv'
<1>0. job[r] # Null /\ job[r].kind = "status"
  BY DEF Records!ReadTable, Records!Doing
<1>1. job[r] \in [kind : {"status"}, status : 2..5, table : SUBSET Records!CaseRow,
                  todo : SUBSET [id : Records!Ids, was : Records!StoryRow]]
  BY <1>0, JobTyped
<1> DEFINE open == {t \in job[r].table : t.story \in Records!Own(r)}
           j == [kind |-> "cases", todo |-> open, stored |-> {}]
<1>2. job' = [job EXCEPT ![r] = j] /\ UNCHANGED <<story, case, folder, repo, repoRow, runs, emitted>>
  BY DEF Records!ReadTable
<1>3. open \subseteq Records!CaseRow /\ \A t \in open : story[t.story] # Null
  BY <1>1 DEF Records!Own
<1> HIDE DEF open
<1>5. j \in Records!Job
  BY <1>3 DEF Records!Job
<1>6. job'[r] = j /\ \A q \in Requests \ {r} : job'[q] = job[q]
  BY <1>2 DEF RecordInv, Records!TypeOK
<1>7. Records!TypeOK'
  <2>1. job' \in [Requests -> Records!Job \cup {Null}]
    BY <1>2, <1>5 DEF RecordInv, Records!TypeOK
  <2> QED
    BY <1>2, <2>1 DEF RecordInv, Records!TypeOK
<1>8. Follows(r)'
  BY <1>2, <1>3, <1>6 DEF Follows, StoriesFollow, StatusFollows, CasesFollow
<1> QED
  BY <1>2, <1>6, <1>7, <1>8, OneFollows, NumberedStay DEF StoriesStay

LEMMA CreateCaseKeeps == ASSUME RecordInv, NEW r \in Requests, Records!CreateCase(r) PROVE RecordInv'
<1>0. job[r] # Null /\ job[r].kind = "cases"
  BY DEF Records!CreateCase, Records!Doing
<1>1. job[r] \in [kind : {"cases"}, todo : SUBSET Records!CaseRow, stored : SUBSET Records!CaseRow]
  BY <1>0, JobTyped
<1>2. PICK t \in job[r].todo :
       /\ case' = [case EXCEPT ![t.id] = [story |-> t.story, passed |-> t.passed]]
       /\ job' = [job EXCEPT ![r].todo = @ \ {t}, ![r].stored = @ \cup {t}]
  BY DEF Records!CreateCase
<1>3. t \in Records!CaseRow
  BY <1>1
<1>4. case' \in [Cases -> [story : Records!Ids, passed : BOOLEAN] \cup {Null}]
  BY <1>2, <1>3 DEF RecordInv, Records!TypeOK, Records!CaseRow
<1>5. UNCHANGED <<story, folder, repo, repoRow, runs, emitted>>
  BY DEF Records!CreateCase
<1>6. \A q \in Requests \ {r} : job'[q] = job[q]
  BY <1>2 DEF RecordInv, Records!TypeOK
<1>7. /\ job'[r].kind = "cases" /\ job'[r].todo \cup job'[r].stored = job[r].todo \cup job[r].stored
      /\ job'[r] \in Records!Job
  BY <1>0, <1>1, <1>2, <1>3 DEF RecordInv, Records!TypeOK, Records!Job
<1>8. Records!TypeOK'
  <2>1. job' \in [Requests -> Records!Job \cup {Null}]
    BY <1>2, <1>7 DEF RecordInv, Records!TypeOK
  <2> QED
    BY <1>4, <1>5, <2>1 DEF RecordInv, Records!TypeOK
<1>9. Follows(r)'
  <2>1. \A u \in job'[r].todo \cup job'[r].stored : story[u.story] # Null
    BY <1>0, <1>7 DEF RecordInv, Follows, CasesFollow
  <2> QED
    BY <1>5, <1>7, <2>1 DEF Follows, StoriesFollow, StatusFollows, CasesFollow
<1> QED
  BY <1>5, <1>6, <1>8, <1>9, OneFollows, NumberedStay DEF StoriesStay

LEMMA CoverageKeeps == ASSUME StoryIsNoNull, RecordInv, NEW r \in Requests, Records!Coverage(r) PROVE RecordInv'
<1>0. job[r] # Null /\ job[r].kind = "cases"
  BY DEF Records!Coverage, Records!Doing
<1>1. job[r] \in [kind : {"cases"}, todo : SUBSET Records!CaseRow, stored : SUBSET Records!CaseRow]
  BY <1>0, JobTyped
<1> DEFINE ids == {t.story : t \in job[r].stored}
<1>2. /\ story' = [id \in Records!Ids |-> IF id \in ids THEN [story[id] EXCEPT !.covered = Records!Rate(id, job[r].stored)] ELSE story[id]]
      /\ job' = [job EXCEPT ![r] = Null] /\ UNCHANGED <<case, folder, repo, repoRow, runs, emitted>>
  BY DEF Records!Coverage
<1>3. \A id \in ids : id \in Records!Ids /\ story[id] # Null
  BY <1>0, <1>1 DEF RecordInv, Follows, CasesFollow, Records!CaseRow
<1> HIDE DEF ids
<1>4. ASSUME NEW id \in ids PROVE /\ [story[id] EXCEPT !.covered = Records!Rate(id, job[r].stored)] \in Records!StoryRow
                                  /\ [story[id] EXCEPT !.covered = Records!Rate(id, job[r].stored)] # Null
  <2>1. story[id] \in Records!StoryRow
    BY <1>3 DEF RecordInv, Records!TypeOK
  <2>2. Records!Rate(id, job[r].stored) \in Records!Rates
    BY <1>1, <1>3 DEF Records!Rates
  <2>3. [story[id] EXCEPT !.covered = Records!Rate(id, job[r].stored)] \in Records!StoryRow
    BY <2>1, <2>2 DEF Records!StoryRow
  <2> QED
    BY <2>3, StoryNotNull
<1>5. story' \in [Records!Ids -> Records!StoryRow \cup {Null}] /\ StoriesStay
  BY <1>2, <1>4 DEF RecordInv, Records!TypeOK, StoriesStay
<1>6. job'[r] = Null /\ \A q \in Requests \ {r} : job'[q] = job[q]
  BY <1>2 DEF RecordInv, Records!TypeOK
<1>7. Records!TypeOK'
  <2>1. job' \in [Requests -> Records!Job \cup {Null}]
    BY <1>2 DEF RecordInv, Records!TypeOK
  <2> QED
    BY <1>2, <1>5, <2>1 DEF RecordInv, Records!TypeOK
<1> QED
  BY <1>2, <1>5, <1>6, <1>7, NothingFollows, OneFollows, NumberedStay

LEMMA PublishKeeps ==
  ASSUME RecordInv, NEW r \in Requests,
         \/ \E files \in Records!Produced : Records!WriteFiles(r, files)
         \/ \E ok \in BOOLEAN : Records!CommitFiles(r, ok)
         \/ Records!Persist(r) \/ Records!Crash(r)
  PROVE  RecordInv'
<1>1. ASSUME NEW files \in Records!Produced, Records!WriteFiles(r, files) PROVE RecordInv'
  <2> DEFINE j == [kind |-> "publish", files |-> files, commit |-> FALSE, tried |-> FALSE]
  <2>0. runs' \in 0..MaxRuns
    BY <1>1, RunCounts DEF Records!WriteFiles
  <2>1. files \subseteq Reports
    BY DEF Records!Produced
  <2>2. j \in Records!Job
    BY <2>1 DEF Records!Job
  <2>3. job' = [job EXCEPT ![r] = j] /\ folder' = [folder EXCEPT ![r] = @ \cup files] /\ UNCHANGED <<story, case, repo, repoRow, emitted>>
    BY <1>1 DEF Records!WriteFiles
  <2>4. job'[r] = j /\ \A q \in Requests \ {r} : job'[q] = job[q]
    BY <2>3 DEF RecordInv, Records!TypeOK
  <2>5. Records!TypeOK'
    <3>1. job' \in [Requests -> Records!Job \cup {Null}]
      BY <2>2, <2>3 DEF RecordInv, Records!TypeOK
    <3> QED
      BY <2>0, <2>1, <2>3, <3>1 DEF RecordInv, Records!TypeOK
  <2> QED
    BY <2>3, <2>4, <2>5, NothingFollows, OneFollows, NumberedStay DEF StoriesStay
<1>2. ASSUME NEW ok \in BOOLEAN, Records!CommitFiles(r, ok) PROVE RecordInv'
  <2>1. job[r] \in [kind : {"publish"}, files : SUBSET Reports, commit : BOOLEAN, tried : BOOLEAN]
    BY <1>2, JobTyped DEF Records!CommitFiles, Records!Doing
  <2>2. job' = [job EXCEPT ![r] = [job[r] EXCEPT !.tried = TRUE, !.commit = ok]] /\ UNCHANGED <<story, case, folder, repoRow, runs, emitted>>
    BY <1>2 DEF RecordInv, Records!TypeOK, Records!CommitFiles
  <2>3. [job[r] EXCEPT !.tried = TRUE, !.commit = ok] \in Records!Job /\ [job[r] EXCEPT !.tried = TRUE, !.commit = ok].kind = "publish"
    BY <2>1 DEF Records!Job
  <2>4. job'[r].kind = "publish" /\ \A q \in Requests \ {r} : job'[q] = job[q]
    BY <2>2, <2>3 DEF RecordInv, Records!TypeOK
  <2>5. repo' \in [Requests -> SUBSET Reports]
    BY <1>2, <2>1 DEF Records!CommitFiles, RecordInv, Records!TypeOK
  <2>6. Records!TypeOK'
    <3>1. job' \in [Requests -> Records!Job \cup {Null}]
      BY <2>2, <2>3 DEF RecordInv, Records!TypeOK
    <3> QED
      BY <2>2, <2>5, <3>1 DEF RecordInv, Records!TypeOK
  <2> QED
    BY <2>2, <2>4, <2>6, NothingFollows, OneFollows, NumberedStay DEF StoriesStay
<1>3. CASE Records!Persist(r) \/ Records!Crash(r)
  <2>1. job' = [job EXCEPT ![r] = Null] /\ UNCHANGED <<story, case, folder, repo, runs, emitted>>
    BY <1>3 DEF Records!Persist, Records!Crash
  <2>2. job'[r] = Null /\ \A q \in Requests \ {r} : job'[q] = job[q]
    BY <2>1 DEF RecordInv, Records!TypeOK
  <2>3. repoRow' \in [Requests -> [files : SUBSET Reports, commit : BOOLEAN] \cup {Null}]
    <3>1. CASE Records!Persist(r)
      <4>1. job[r] \in [kind : {"publish"}, files : SUBSET Reports, commit : BOOLEAN, tried : BOOLEAN]
        BY <3>1, JobTyped DEF Records!Persist, Records!Doing
      <4> QED
        BY <3>1, <4>1 DEF Records!Persist, RecordInv, Records!TypeOK
    <3>2. CASE Records!Crash(r)
      BY <3>2 DEF Records!Crash, RecordInv, Records!TypeOK
    <3> QED
      BY <1>3, <3>1, <3>2
  <2>4. Records!TypeOK'
    <3>1. job' \in [Requests -> Records!Job \cup {Null}]
      BY <2>1 DEF RecordInv, Records!TypeOK
    <3> QED
      BY <2>1, <2>3, <3>1 DEF RecordInv, Records!TypeOK
  <2> QED
    BY <2>1, <2>2, <2>4, NothingFollows, OneFollows, NumberedStay DEF StoriesStay
<1> QED
  BY <1>1, <1>2, <1>3

LEMMA RecordInit == ASSUME Records!Init PROVE RecordInv
<1>1. 0 \in 0..MaxRuns
  BY BoundsAssumption
<1> QED
  BY <1>1 DEF Records!Init, RecordInv, Records!TypeOK, Follows, StoriesFollow, StatusFollows, CasesFollow, NumberedStored

LEMMA RecordNext == ASSUME StoryIsNoNull, RecordInv, [Records!Next]_Records!recordVars PROVE RecordInv'
<1>1. CASE UNCHANGED Records!recordVars
  <2>1. Records!TypeOK'
    BY <1>1 DEF Records!recordVars, RecordInv, Records!TypeOK
  <2>2. StoriesStay /\ (\A r \in Requests : job'[r] = job[r]) /\ UNCHANGED emitted
    BY <1>1 DEF Records!recordVars, StoriesStay
  <2> QED
    BY <2>1, <2>2, OthersFollow, NumberedStay DEF RecordInv
<1>2. ASSUME NEW r \in Requests,
             \/ \E raws \in SUBSET Records!Raw : raws # {} /\ Records!Analyst(r, raws)
             \/ Records!CreateStory(r) \/ Records!CreateCriteria(r) \/ Records!StoriesStored(r)
      PROVE  RecordInv'
  BY <1>2, AnalystKeeps, CreateStoryKeeps, CreateCriteriaKeeps, StoriesStoredKeeps
<1>3. ASSUME NEW r \in Requests,
             \/ \E s \in 2..5, table \in SUBSET [id : Cases, story : Records!Own(r), passed : BOOLEAN] : Records!Progress(r, s, table)
             \/ Records!UpdateStatus(r) \/ Records!ReadTable(r) \/ Records!CreateCase(r) \/ Records!Coverage(r)
      PROVE  RecordInv'
  BY <1>3, ProgressKeeps, UpdateStatusKeeps, ReadTableKeeps, CreateCaseKeeps, CoverageKeeps
<1> QED
  BY <1>1, <1>2, <1>3, PublishKeeps DEF Records!Next

LEMMA RecordFacts == ASSUME RecordInv PROVE Records!TypeOK /\ Records!EmittedIsStored
BY DEF RecordInv, NumberedStored, Records!EmittedIsStored

(***************************************************************************)
(* The cost of the calls                                                   *)
(***************************************************************************)
CallIsNoNull == Null \notin Ledger!Call \cup Requests

\* A call is on its project's account: at the latest when the project has been
\* looked up, unless its request is gone.
Account(k) ==
  modelCall[k] # Null =>
    /\ modelCall[k].request = Null => modelCall[k].project = modelCall[k].of
    /\ modelCall[k].request # Null =>
         /\ modelCall[k].of = AccountOf[modelCall[k].request] /\ modelCall[k].request \in charged \cup gone
         /\ modelCall[k].project \in {Null, modelCall[k].of}
    /\ modelCall[k].step = "derived" /\ modelCall[k].request \notin gone => modelCall[k].project = modelCall[k].of
\* And so is its row.
RowKept(k) ==
  /\ modelCall[k] # Null /\ modelCall[k].step = "done"
  /\ modelCall[k].of # Null /\ modelCall[k].request \notin gone =>
       \E u \in usage : u.call = k /\ u.request = modelCall[k].request /\ u.project = modelCall[k].of
LedgerInv ==
  Ledger!TypeOK /\ (\A k \in Ledger!Calls : Account(k)) /\ (\A k \in recorded : RowKept(k))

LEMMA LedgerFacts == ASSUME LedgerInv PROVE Ledger!TypeOK /\ Ledger!SpendIsKept
BY DEF LedgerInv, RowKept, Ledger!TypeOK, Ledger!SpendIsKept, Ledger!RowsOf

LEMMA LedgerInit == ASSUME Ledger!Init PROVE LedgerInv
BY DEF Ledger!Init, LedgerInv, Ledger!TypeOK, Account

\* Where the deletions leave a call: its fields stay, its request may be gone.
LEMMA SubmitKeeps == ASSUME LedgerInv, NEW r \in Requests, Ledger!Submit(r) PROVE LedgerInv'
<1>1. UNCHANGED <<modelCall, usage, gone, recorded>> /\ charged' = charged \cup {r}
  BY DEF Ledger!Submit
<1> QED
  BY <1>1 DEF LedgerInv, Ledger!TypeOK, Account, RowKept

LEMMA DeleteRequestKeeps == ASSUME LedgerInv, NEW r \in Requests, Ledger!DeleteRequest(r) PROVE LedgerInv'
<1>1. UNCHANGED <<modelCall, recorded>> /\ charged' = charged \ {r} /\ gone' = gone \cup {r} /\ usage' = {u \in usage : u.request # r}
  BY DEF Ledger!DeleteRequest
<1>2. Ledger!TypeOK'
  BY <1>1 DEF LedgerInv, Ledger!TypeOK
<1>3. \A k \in Ledger!Calls : Account(k)'
  BY <1>1 DEF LedgerInv, Account
<1>4. \A k \in recorded : RowKept(k)'
  BY <1>1 DEF LedgerInv, RowKept
<1> QED
  BY <1>1, <1>2, <1>3, <1>4 DEF LedgerInv

LEMMA OrphansKeep == ASSUME LedgerInv, Ledger!DeleteOrphans PROVE LedgerInv'
<1>1. UNCHANGED <<charged, modelCall, gone, recorded>> /\ usage' = {u \in usage : ~Ledger!Orphan(u)}
  BY DEF Ledger!DeleteOrphans
<1>2. Ledger!TypeOK' /\ \A k \in Ledger!Calls : Account(k)'
  BY <1>1 DEF LedgerInv, Ledger!TypeOK, Account
<1>3. \A k \in recorded : RowKept(k)'
  BY <1>1 DEF LedgerInv, RowKept, Ledger!Orphan
<1> QED
  BY <1>1, <1>2, <1>3 DEF LedgerInv

\* A step of one call, the rows of the others untouched.
LEMMA OneCall ==
  ASSUME LedgerInv, NEW k \in Ledger!Calls, NEW c \in Ledger!Call, modelCall' = [modelCall EXCEPT ![k] = c],
         UNCHANGED <<charged, gone>>, usage \subseteq usage', usage' \subseteq Ledger!Row, Account(k)',
         \/ UNCHANGED recorded /\ k \notin recorded
         \/ recorded' = recorded \cup {k} /\ RowKept(k)'
  PROVE  LedgerInv'
<1>1. modelCall'[k] = c /\ \A j \in Ledger!Calls \ {k} : modelCall'[j] = modelCall[j]
  BY DEF LedgerInv, Ledger!TypeOK
<1>2. Ledger!TypeOK'
  BY DEF LedgerInv, Ledger!TypeOK
<1>3. \A j \in Ledger!Calls : Account(j)'
  BY <1>1 DEF LedgerInv, Account
<1>4. \A j \in recorded' : RowKept(j)'
  BY <1>1 DEF LedgerInv, Ledger!TypeOK, RowKept
<1> QED
  BY <1>2, <1>3, <1>4 DEF LedgerInv

LEMMA AsksKeeps ==
  ASSUME CallIsNoNull, LedgerInv, NEW c \in Ledger!Call, Ledger!Asks(c), c.step = "asked",
         \/ c.request = Null /\ c.project = c.of
         \/ c.request \in charged /\ c.project = Null /\ c.of = AccountOf[c.request]
  PROVE  LedgerInv'
<1> DEFINE least == CHOOSE k \in Ledger!Free : \A j \in Ledger!Free : k <= j
<1>1. Ledger!Free # {} /\ Ledger!Free \subseteq Ledger!Calls /\ modelCall' = [modelCall EXCEPT ![least] = c]
      /\ UNCHANGED <<charged, usage, gone, recorded>>
  BY DEF Ledger!Asks, Ledger!Free
<1>2. \E k \in Ledger!Free : \A j \in Ledger!Free : k <= j
  <2>1. Ledger!Free \subseteq Nat
    BY DEF Ledger!Free, Ledger!Calls
  <2> QED
    BY <1>1, <2>1, LeastNatural
<1>3. PICK new \in Ledger!Free : new = least
  BY <1>2
<1>10. modelCall' = [modelCall EXCEPT ![new] = c]
  BY <1>1, <1>3
<1> HIDE DEF least
<1>4. new \in Ledger!Calls /\ new \notin recorded
  BY <1>3 DEF Ledger!Free, LedgerInv, RowKept
<1>5. modelCall'[new] = c
  BY <1>4, <1>10 DEF LedgerInv, Ledger!TypeOK
<1>8. charged \subseteq Requests
  BY DEF LedgerInv, Ledger!TypeOK
<1>6. Account(new)'
  BY <1>1, <1>5, <1>8 DEF Account, CallIsNoNull
<1>7. usage \subseteq Ledger!Row /\ usage \subseteq usage' /\ usage' = usage
  BY <1>1 DEF LedgerInv, Ledger!TypeOK
<1>9. UNCHANGED <<charged, gone>> /\ UNCHANGED recorded /\ modelCall' = [modelCall EXCEPT ![new] = c]
  BY <1>1, <1>10
<1> QED
  BY <1>4, <1>6, <1>7, <1>9, OneCall

LEMMA CallsKeep ==
  ASSUME CallIsNoNull, LedgerInv,
         \/ \E r \in Requests, m \in Billed : Ledger!AgentCall(r, m)
         \/ \E m \in Billed : Ledger!Review(m) \/ \E p \in Applications : Ledger!SingleCall(p, m)
  PROVE  LedgerInv'
<1>1. ASSUME NEW r \in Requests, NEW m \in Billed, Ledger!AgentCall(r, m) PROVE LedgerInv'
  <2> DEFINE c == [request |-> r, project |-> Null, of |-> AccountOf[r], model |-> m, step |-> "asked"]
  <2>1. c \in Ledger!Call
    BY AccountAssumption DEF Ledger!Call
  <2> QED
    BY <1>1, <2>1, AsksKeeps DEF Ledger!AgentCall
<1>2. ASSUME NEW m \in Billed, NEW p \in Applications \cup {Null}, Ledger!SingleCall(p, m) PROVE LedgerInv'
  <2> DEFINE c == [request |-> Null, project |-> p, of |-> p, model |-> m, step |-> "asked"]
  <2>1. c \in Ledger!Call
    BY DEF Ledger!Call
  <2> QED
    BY <1>2, <2>1, AsksKeeps DEF Ledger!SingleCall
<1> QED
  BY <1>1, <1>2 DEF Ledger!Review

LEMMA EndsOfCallsKeep ==
  ASSUME CallIsNoNull, LedgerInv, NEW k \in Ledger!Calls, Ledger!Fails(k) \/ Ledger!Answer(k) \/ Ledger!Insert(k)
  PROVE  LedgerInv'
<1>1. modelCall[k] # Null /\ modelCall[k] \in Ledger!Call /\ usage \subseteq Ledger!Row /\ gone \subseteq Requests
  BY DEF LedgerInv, Ledger!TypeOK, Ledger!Fails, Ledger!Answer, Ledger!Insert
<1>2. k \notin recorded
  BY DEF Ledger!Fails, Ledger!Answer, Ledger!Insert, LedgerInv, RowKept
<1>3. Account(k)
  BY DEF LedgerInv
<1>4. CASE Ledger!Fails(k)
  <2> DEFINE c == [modelCall[k] EXCEPT !.step = "done"]
  <2>1. c \in Ledger!Call /\ c.step = "done" /\ c.request = modelCall[k].request /\ c.project = modelCall[k].project /\ c.of = modelCall[k].of
    BY <1>1 DEF Ledger!Call
  <2>2. modelCall' = [modelCall EXCEPT ![k] = c] /\ UNCHANGED <<charged, usage, gone, recorded>>
    BY <1>4 DEF Ledger!Fails
  <2> HIDE DEF c
  <2>3. modelCall'[k] = c
    BY <2>2 DEF LedgerInv, Ledger!TypeOK
  <2>4. Account(k)'
    BY <1>1, <1>3, <2>1, <2>2, <2>3 DEF Account
  <2> QED
    BY <1>1, <1>2, <2>1, <2>2, <2>4, OneCall
<1>5. CASE Ledger!Answer(k)
  <2> DEFINE p == Ledger!Derived(k)
             c == [modelCall[k] EXCEPT !.step = "derived", !.project = p]
  <2>1. p \in Applications \cup {Null}
    BY <1>1, AccountAssumption DEF Ledger!Derived, Ledger!Call, LedgerInv, Ledger!TypeOK
  <2>2. modelCall[k].request = Null => p = modelCall[k].of
    <3> SUFFICES ASSUME modelCall[k].request = Null PROVE p = modelCall[k].of
      OBVIOUS
    <3>1. modelCall[k].project = modelCall[k].of
      BY <1>1, <1>3 DEF Account
    <3> QED
      BY <3>1, <1>1 DEF CallIsNoNull, Ledger!Derived, LedgerInv, Ledger!TypeOK
  <2>3. modelCall[k].request \notin gone => p = modelCall[k].of
    <3> SUFFICES ASSUME modelCall[k].request # Null, modelCall[k].request \notin gone PROVE p = modelCall[k].of
      BY <2>2
    <3> QED
      BY <1>1, <1>3 DEF Ledger!Derived, Account
  <2>4. modelCall[k].request # Null => p \in {Null, modelCall[k].of}
    BY <1>1, <1>3 DEF Ledger!Derived, Account
  <2>5. modelCall' = [modelCall EXCEPT ![k] = c] /\ UNCHANGED <<charged, usage, gone, recorded>>
    BY <1>5 DEF Ledger!Answer
  <2> HIDE DEF p
  <2>6. c \in Ledger!Call /\ c.step = "derived" /\ c.request = modelCall[k].request /\ c.project = p /\ c.of = modelCall[k].of
    BY <1>1, <2>1 DEF Ledger!Call
  <2> HIDE DEF c
  <2>7. modelCall'[k] = c
    BY <2>5 DEF LedgerInv, Ledger!TypeOK
  <2>8. Account(k)'
    BY <1>1, <1>3, <2>2, <2>3, <2>4, <2>5, <2>6, <2>7 DEF Account
  <2> QED
    BY <1>1, <1>2, <2>5, <2>6, <2>8, OneCall
<1>6. CASE Ledger!Insert(k)
  <2> DEFINE c == [modelCall[k] EXCEPT !.step = "done"]
             u == [call |-> k, request |-> modelCall[k].request, project |-> modelCall[k].project, cost |-> Ledger!Cost(modelCall[k].model)]
  <2>1. c \in Ledger!Call /\ c.step = "done" /\ c.request = modelCall[k].request /\ c.project = modelCall[k].project /\ c.of = modelCall[k].of
    BY <1>1 DEF Ledger!Call
  <2>2. modelCall' = [modelCall EXCEPT ![k] = c] /\ UNCHANGED <<charged, gone>> /\ usage' = usage \cup {u}
        /\ recorded' = recorded \cup {k} /\ modelCall[k].step = "derived"
    BY <1>6 DEF Ledger!Insert
  <2>3. u \in Ledger!Row
    BY <1>1 DEF Ledger!Row, Ledger!Cost, Ledger!Call
  <2>4. u.call = k /\ u.request = modelCall[k].request /\ u.project = modelCall[k].project
    OBVIOUS
  <2> HIDE DEF c, u
  <2>5. modelCall'[k] = c /\ c # Null
    BY <2>1, <2>2 DEF LedgerInv, Ledger!TypeOK, CallIsNoNull
  <2>6. Account(k)'
    BY <1>1, <1>3, <2>1, <2>2, <2>5 DEF Account
  <2>7. RowKept(k)'
    BY <1>1, <1>3, <2>1, <2>2, <2>4, <2>5 DEF RowKept, Account
  <2> QED
    BY <1>1, <2>1, <2>2, <2>3, <2>6, <2>7, OneCall
<1> QED
  BY <1>4, <1>5, <1>6

LEMMA RestartKeeps == ASSUME CallIsNoNull, LedgerInv, Ledger!Restart PROVE LedgerInv'
<1> DEFINE filled(u) == IF u.project = Null /\ u.request \in charged THEN [u EXCEPT !.project = AccountOf[u.request]] ELSE u
<1>1. UNCHANGED <<charged, gone, recorded>> /\ usage' = {filled(u) : u \in usage}
      /\ modelCall' = [k \in Ledger!Calls |-> IF modelCall[k] = Null THEN Null ELSE [modelCall[k] EXCEPT !.step = "done"]]
  BY DEF Ledger!Restart
<1>2. \A u \in usage : filled(u) \in Ledger!Row
  <2> TAKE u \in usage
  <2>1. u \in Ledger!Row
    BY DEF LedgerInv, Ledger!TypeOK
  <2>2. CASE u.project = Null /\ u.request \in charged
    <3>1. AccountOf[u.request] \in Applications
      BY <2>2, AccountAssumption DEF LedgerInv, Ledger!TypeOK
    <3>2. [u EXCEPT !.project = AccountOf[u.request]] \in Ledger!Row
      BY <2>1, <3>1 DEF Ledger!Row
    <3> QED
      BY <2>2, <3>2
  <2>3. CASE ~(u.project = Null /\ u.request \in charged)
    BY <2>1, <2>3
  <2> QED
    BY <2>2, <2>3
<1>3. ASSUME NEW k \in Ledger!Calls, modelCall[k] # Null
      PROVE  /\ modelCall'[k] \in Ledger!Call /\ modelCall'[k] # Null /\ modelCall'[k].step = "done"
             /\ modelCall'[k].request = modelCall[k].request /\ modelCall'[k].project = modelCall[k].project
             /\ modelCall'[k].of = modelCall[k].of
  <2>1. modelCall[k] \in Ledger!Call
    BY <1>3 DEF LedgerInv, Ledger!TypeOK
  <2>2. modelCall'[k] = [modelCall[k] EXCEPT !.step = "done"]
    BY <1>1, <1>3
  <2>3. modelCall'[k] \in Ledger!Call
    BY <2>1, <2>2 DEF Ledger!Call
  <2> QED
    BY <2>1, <2>2, <2>3 DEF Ledger!Call, CallIsNoNull
<1>4. \A k \in Ledger!Calls : modelCall[k] = Null => modelCall'[k] = Null
  BY <1>1
<1>5. Ledger!TypeOK'
  <2>1. modelCall' \in [Ledger!Calls -> Ledger!Call \cup {Null}]
    BY <1>1, <1>3, <1>4
  <2>2. usage' \subseteq Ledger!Row
    BY <1>1, <1>2
  <2> QED
    BY <1>1, <2>1, <2>2 DEF LedgerInv, Ledger!TypeOK
<1>6. \A k \in Ledger!Calls : Account(k)'
  BY <1>1, <1>3, <1>4 DEF LedgerInv, Account
<1>7. ASSUME NEW k \in recorded PROVE RowKept(k)'
  <2>1. k \in Ledger!Calls /\ modelCall[k] # Null /\ RowKept(k)
    BY DEF LedgerInv, Ledger!TypeOK, RowKept
  <2>2. ASSUME modelCall[k].of # Null, modelCall[k].request \notin gone
        PROVE  \E u \in usage' : u.call = k /\ u.request = modelCall[k].request /\ u.project = modelCall[k].of
    <3>1. PICK u \in usage : u.call = k /\ u.request = modelCall[k].request /\ u.project = modelCall[k].of
      BY <2>1, <2>2 DEF RowKept
    <3>2. filled(u) = u
      BY <2>2, <3>1
    <3> QED
      BY <1>1, <3>1, <3>2
  <2> QED
    BY <1>1, <1>3, <2>1, <2>2 DEF RowKept
<1> QED
  BY <1>1, <1>5, <1>6, <1>7 DEF LedgerInv

LEMMA LedgerNext == ASSUME CallIsNoNull, LedgerInv, [Ledger!Next]_Ledger!ledgerVars PROVE LedgerInv'
<1>1. CASE UNCHANGED Ledger!ledgerVars
  BY <1>1 DEF Ledger!ledgerVars, LedgerInv, Ledger!TypeOK, Account, RowKept
<1>2. ASSUME NEW r \in Requests, Ledger!Submit(r) \/ Ledger!DeleteRequest(r) PROVE LedgerInv'
  BY <1>2, SubmitKeeps, DeleteRequestKeeps
<1>3. ASSUME NEW k \in Ledger!Calls, Ledger!Fails(k) \/ Ledger!Answer(k) \/ Ledger!Insert(k) PROVE LedgerInv'
  BY <1>3, EndsOfCallsKeep
<1> QED
  BY <1>1, <1>2, <1>3, CallsKeep, OrphansKeep, RestartKeeps DEF Ledger!Next

(***************************************************************************)
(* The code that is written                                                *)
(***************************************************************************)
Tree == [Files -> Code!Version \cup {Code!Missing}]

\* An output without text has no file; the agents that have not answered have
\* no output.
OutputsFit ==
  /\ \A i \in DOMAIN outputs : ~outputs[i].text => DOMAIN outputs[i].full = {} /\ outputs[i].listed = {}
  /\ \A i \in todo : outputs[i] = Code!NoText

\* Every cycle adds an output per agent, and each of those answers once.
CyclesCount ==
  /\ Len(outputs) = Agents * (rework + 1)
  /\ codeChanges + Cardinality(todo) <= 1 + Len(outputs)
  /\ stage # "develop" => todo = {}

\* A set of files to commit: what was sent or listed, as it is on the disk unless
\* somebody else wrote it, and all that was sent.
Mirrors(map, tree, others) ==
  /\ Code!Held(map) \subseteq (Code!Sent \cup Code!Listed) \ Guarded
  /\ \A f \in (Code!Sent \cup Code!Listed) \ (Guarded \cup others) : map[f] = tree[f]
  /\ Code!Sent \ Guarded \subseteq Code!Held(map)

\* From the gates on, what would be committed is that.
BundleFits ==
  /\ (\A i \in DOMAIN outputs : ~outputs[i].text) => bundle = Code!Absent
  /\ stage \in {"gates", "commit", "skipped", "pushed"} => Mirrors(bundle, disk, foreign)
  /\ stage = "pushed" => pushed = bundle

CodeInv == Code!TypeOK /\ OutputsFit /\ CyclesCount /\ BundleFits

\* What has been written after the first n outputs: all of them unless one was
\* refused, and each file of the map as it is on the disk.
Folded == [disk: Tree, map: Tree, refused: [Files -> 0..Code!MaxChanges], verdict: {"ok", "marker", "drop", "loop"}]
WrittenUpTo(s, n) ==
  /\ s \in Folded
  /\ \A f \in Files : s.map[f] # Code!Missing => s.map[f] = s.disk[f]
  /\ s.verdict = "ok" =>
       \A f \in Files : s.map[f] # Code!Missing <=> \E i \in 1..n : f \in DOMAIN outputs[i].full

LEMMA LaidFacts ==
  ASSUME NEW map \in Tree, NEW S \in SUBSET Files, NEW full \in [S -> Code!Version]
  PROVE  /\ Code!Laid(full, map) \in Tree
         /\ \A f \in Files : Code!Laid(full, map)[f] = IF f \in S THEN full[f] ELSE map[f]
         /\ \A f \in S : full[f] # Code!Missing
<1>1. \A f \in S : full[f] \in Code!Version
  OBVIOUS
<1>2. \A v \in Code!Version : v # Code!Missing
  <2> SUFFICES ASSUME NEW v \in Code!Version, v = Code!Missing PROVE FALSE
    OBVIOUS
  <2>1. v.id \in 1..Code!MaxChanges /\ Code!Missing.id = 0
    BY DEF Code!Version, Code!Missing
  <2> QED
    BY <2>1
<1>3. Code!Laid(full, map) = [f \in Files |-> IF f \in S THEN full[f] ELSE map[f]]
  BY DEF Code!Laid
<1> HIDE DEF Tree
<1> QED
  BY <1>1, <1>2, <1>3 DEF Tree

LEMMA WriteFacts ==
  ASSUME NEW n \in Nat, n + 1 \in 1..Len(outputs), outputs \in Seq(Code!Output), Code!MaxChanges \in Nat,
         NEW s, WrittenUpTo(s, n)
  PROVE  WrittenUpTo(Code!Write(s, outputs[n + 1]), n + 1)
<1> DEFINE out == outputs[n + 1]
           judged == [f \in DOMAIN out.full |-> Code!Judge(f, s.disk[f], out.full[f], s.refused[f])]
           bad == {f \in DOMAIN judged : judged[f] # "ok"}
<1>1. out \in Code!Output
  OBVIOUS
<1>2. PICK S \in SUBSET Files : out.full \in [S -> Code!Version]
  <2>1. out.full \in UNION {[T -> Code!Version] : T \in SUBSET Files}
    BY <1>1 DEF Code!Output
  <2> HIDE DEF out
  <2> QED
    BY <2>1
<1>3. DOMAIN out.full = S
  BY <1>2
<1>4. ASSUME s.verdict # "ok" PROVE WrittenUpTo(Code!Write(s, out), n + 1)
  BY <1>4 DEF Code!Write, WrittenUpTo
<1>5. ASSUME s.verdict = "ok", bad = {} PROVE WrittenUpTo(Code!Write(s, out), n + 1)
  <2> DEFINE d == Code!Laid(out.full, s.disk)
             m == Code!Laid(out.full, s.map)
  <2>1. Code!Write(s, out) = [s EXCEPT !.disk = d, !.map = m]
    BY <1>5 DEF Code!Write
  <2>2. s.disk \in Tree /\ s.map \in Tree
    <3>1. s \in Folded
      BY DEF WrittenUpTo
    <3> QED
      BY ONLY <3>1 DEF Folded
  <2>3. /\ d \in Tree /\ m \in Tree
        /\ \A f \in Files : d[f] = IF f \in S THEN out.full[f] ELSE s.disk[f]
        /\ \A f \in Files : m[f] = IF f \in S THEN out.full[f] ELSE s.map[f]
        /\ \A f \in S : out.full[f] # Code!Missing
    <3>1. PICK full \in [S -> Code!Version] : full = out.full
      BY <1>2
    <3> DEFINE holds(map) == /\ Code!Laid(full, map) \in Tree
                             /\ \A f \in Files : Code!Laid(full, map)[f] = IF f \in S THEN full[f] ELSE map[f]
                             /\ \A f \in S : full[f] # Code!Missing
    <3>2. holds(s.disk)
      BY ONLY <2>2, LaidFacts, S \in SUBSET Files, full \in [S -> Code!Version]
    <3>3. holds(s.map)
      BY ONLY <2>2, LaidFacts, S \in SUBSET Files, full \in [S -> Code!Version]
    <3> QED
      BY <3>1, <3>2, <3>3
  <2> HIDE DEF d, m, out
  <2>4. PICK t : t = [s EXCEPT !.disk = d, !.map = m]
    OBVIOUS
  <2>5. t \in Folded /\ t.disk = d /\ t.map = m /\ t.verdict = s.verdict
    BY <2>3, <2>4 DEF WrittenUpTo, Folded
  <2>6. \A f \in Files : t.map[f] # Code!Missing => t.map[f] = t.disk[f]
    BY <2>3, <2>5 DEF WrittenUpTo
  <2>8. \A f \in Files : (\E i \in 1..(n + 1) : f \in DOMAIN outputs[i].full)
                           <=> f \in S \/ \E i \in 1..n : f \in DOMAIN outputs[i].full
    <3>1. DOMAIN outputs[n + 1].full = S
      BY <1>3 DEF out
    <3>2. \A i : i \in 1..(n + 1) <=> i = n + 1 \/ i \in 1..n
      OBVIOUS
    <3> QED
      BY <3>1, <3>2
  <2>9. \A f \in Files : t.map[f] # Code!Missing <=> \E i \in 1..(n + 1) : f \in DOMAIN outputs[i].full
    BY <1>5, <2>3, <2>5, <2>8 DEF WrittenUpTo
  <2> QED
    BY <2>1, <2>4, <2>5, <2>6, <2>9 DEF WrittenUpTo
<1>6. ASSUME s.verdict = "ok", bad # {} PROVE WrittenUpTo(Code!Write(s, out), n + 1)
  <2>1. PICK f \in bad : Code!Write(s, out) = [s EXCEPT !.verdict = judged[f],
                           !.refused[f] = IF judged[f] = "marker" THEN @ ELSE out.full[f].id]
    <3>1. (CHOOSE g \in bad : TRUE) \in bad
      BY <1>6
    <3> QED
      BY <1>6, <3>1 DEF Code!Write
  <2>2. f \in S /\ f \in Files /\ judged[f] # "ok"
    BY <1>3, <2>1
  <2>3. judged[f] \in {"marker", "drop", "loop"}
    <3>1. judged[f] = Code!Judge(f, s.disk[f], out.full[f], s.refused[f])
      BY <1>3, <2>2
    <3>2. \A a, b, c, e : Code!Judge(a, b, c, e) \in {"ok", "marker", "drop", "loop"}
      BY DEF Code!Judge
    <3> QED
      BY <2>2, <3>1, <3>2
  <2>4. out.full[f].id \in 0..Code!MaxChanges
    BY <1>2, <2>2 DEF Code!Version
  <2> DEFINE id == IF judged[f] = "marker" THEN s.refused[f] ELSE out.full[f].id
  <2>5. s \in Folded
    BY DEF WrittenUpTo
  <2>6. s.refused \in [Files -> 0..Code!MaxChanges]
    BY <2>5 DEF Folded
  <2>7. id \in 0..Code!MaxChanges
    BY <2>2, <2>4, <2>6
  <2>8. PICK j, b : j = id /\ b = judged[f]
    OBVIOUS
  <2> DEFINE refusing == [s.refused EXCEPT ![f] = j]
  <2>9. refusing \in [Files -> 0..Code!MaxChanges]
    BY <2>6, <2>7, <2>8
  <2>10. Code!Write(s, out) = [s EXCEPT !.verdict = b, !.refused = refusing]
    BY <2>1, <2>8
  <2>11. b \in {"marker", "drop", "loop"}
    BY <2>3, <2>8
  <2> HIDE DEF refusing, judged, bad, id, out
  <2>12. PICK t : t = [s EXCEPT !.verdict = b, !.refused = refusing]
    OBVIOUS
  <2>13. t \in Folded /\ t.disk = s.disk /\ t.map = s.map /\ t.verdict # "ok"
    BY <2>5, <2>9, <2>11, <2>12 DEF Folded
  <2> QED
    BY <2>10, <2>12, <2>13 DEF WrittenUpTo
<1> QED
  BY <1>4, <1>5, <1>6

\* The recursion over the outputs has a solution.
LEMMA AfterUnfolds ==
  ASSUME outputs \in Seq(Code!Output)
  PROVE  /\ DOMAIN Code!After = 0..Len(outputs)
         /\ Code!After[0] = [disk |-> disk, map |-> Code!Absent, refused |-> refused, verdict |-> "ok"]
         /\ \A n \in 1..Len(outputs) : Code!After[n] = Code!Write(Code!After[n - 1], outputs[n])
<1>1. PICK start : start = [disk |-> disk, map |-> Code!Absent, refused |-> refused, verdict |-> "ok"]
  OBVIOUS
<1> DEFINE Upto(k, g) == g = [n \in 0..k |-> IF n = 0 THEN start ELSE Code!Write(g[n - 1], outputs[n])]
<1> DEFINE P == {k \in Nat : \E g : Upto(k, g)}
<1>2. 0 \in P
  <2> DEFINE g == [n \in 0..0 |-> start]
  <2>1. g = [n \in 0..0 |-> IF n = 0 THEN start ELSE Code!Write(g[n - 1], outputs[n])]
    OBVIOUS
  <2> QED
    BY <2>1
<1>3. ASSUME NEW k \in Nat, k \in P PROVE k + 1 \in P
  <2>1. PICK g : Upto(k, g)
    BY <1>3
  <2> DEFINE h == [n \in 0..(k + 1) |-> IF n = k + 1 THEN Code!Write(g[k], outputs[k + 1]) ELSE g[n]]
  <2>2. \A n \in 0..k : h[n] = g[n] /\ g[n] = IF n = 0 THEN start ELSE Code!Write(g[n - 1], outputs[n])
    BY <2>1
  <2>3. ASSUME NEW n \in 0..(k + 1) PROVE h[n] = IF n = 0 THEN start ELSE Code!Write(h[n - 1], outputs[n])
    <3>1. CASE n = k + 1
      <4>1. n # 0 /\ n - 1 = k /\ k \in 0..k
        BY <1>3, <3>1
      <4>2. h[n] = Code!Write(g[k], outputs[k + 1]) /\ h[k] = g[k]
        BY <2>2, <3>1, <4>1
      <4> QED
        BY <3>1, <4>1, <4>2
    <3>2. CASE n # k + 1
      <4>1. n \in 0..k /\ (n # 0 => n - 1 \in 0..k)
        BY <1>3, <3>2
      <4>2. h[n] = g[n] /\ (n # 0 => h[n - 1] = g[n - 1])
        BY <2>2, <4>1
      <4> HIDE DEF h
      <4> QED
        BY <2>2, <4>1, <4>2
    <3> QED
      BY <3>1, <3>2
  <2>4. h = [n \in 0..(k + 1) |-> h[n]]
    OBVIOUS
  <2> HIDE DEF h
  <2>5. Upto(k + 1, h)
    BY <2>3, <2>4
  <2> QED
    BY <1>3, <2>5
<1>4. Nat \subseteq P
  <2> HIDE DEF P
  <2> QED
    BY <1>2, <1>3, NatSetInduction
<1>5. \E g : Upto(Len(outputs), g)
  BY <1>4
<1>6. Code!After = CHOOSE g : Upto(Len(outputs), g)
  BY <1>1 DEF Code!After, Code!Outputs
<1>7. Upto(Len(outputs), Code!After)
  BY <1>5, <1>6
<1>8. Code!After = [n \in 0..Len(outputs) |-> IF n = 0 THEN start ELSE Code!Write(Code!After[n - 1], outputs[n])]
  BY <1>7
<1>9. Len(outputs) \in Nat
  OBVIOUS
<1> QED
  BY ONLY <1>1, <1>8, <1>9

LEMMA WrittenFacts ==
  ASSUME Code!TypeOK, Code!MaxChanges \in Nat PROVE WrittenUpTo(Code!Written, Len(outputs))
<1>1. outputs \in Seq(Code!Output) /\ Len(outputs) \in Nat /\ disk \in Tree /\ refused \in [Files -> 0..Code!MaxChanges]
  BY DEF Code!TypeOK, Tree
<1> DEFINE P == {k \in Nat : k <= Len(outputs) => WrittenUpTo(Code!After[k], k)}
<1>2. 0 \in P
  <2>1. PICK start : start = [disk |-> disk, map |-> Code!Absent, refused |-> refused, verdict |-> "ok"]
    OBVIOUS
  <2>2. Code!Absent \in Tree /\ \A f \in Files : Code!Absent[f] = Code!Missing
    BY DEF Code!Absent, Tree
  <2>3. start \in Folded /\ start.map = Code!Absent /\ start.disk = disk
    BY <1>1, <2>1, <2>2 DEF Folded
  <2>4. WrittenUpTo(start, 0)
    BY <2>2, <2>3 DEF WrittenUpTo
  <2> QED
    BY <1>1, <2>1, <2>4, AfterUnfolds
<1>3. ASSUME NEW k \in Nat, k \in P PROVE k + 1 \in P
  <2> SUFFICES ASSUME k + 1 <= Len(outputs) PROVE WrittenUpTo(Code!After[k + 1], k + 1)
    BY <1>3
  <2>1. k <= Len(outputs) /\ k + 1 \in 1..Len(outputs) /\ (k + 1) - 1 = k
    BY <1>1, <1>3
  <2>2. Code!After[k + 1] = Code!Write(Code!After[k], outputs[k + 1])
    BY <1>1, <2>1, AfterUnfolds
  <2>3. WrittenUpTo(Code!After[k], k)
    BY <1>3, <2>1
  <2> QED
    BY <1>1, <2>1, <2>2, <2>3, WriteFacts
<1>4. Nat \subseteq P
  <2> HIDE DEF P
  <2> QED
    BY <1>2, <1>3, NatSetInduction
<1>5. Len(outputs) \in P
  BY <1>1, <1>4
<1> QED
  BY <1>5 DEF Code!Written, Code!Outputs

(***************************************************************************)
(* The cycles                                                              *)
(***************************************************************************)
CodeBounds == Agents \in Nat /\ MaxRework \in Nat

LEMMA CodeNumbers ==
  ASSUME CodeBounds
  PROVE  /\ Code!MaxChanges \in Nat /\ Code!MaxChanges >= 2
         /\ \A r \in 0..MaxRework : Agents * (r + 1) \in Nat /\ Agents * (r + 1) + 2 <= Code!MaxChanges
<1>1. Agents \in Nat /\ MaxRework \in Nat
  BY DEF CodeBounds
<1>2. \A a, b, c \in Nat : b <= c => a * b \in Nat /\ a * b <= a * c
  OBVIOUS
<1>3. Code!MaxChanges = 2 + Agents * (MaxRework + 1)
  BY DEF Code!MaxChanges
<1>4. \A a, b \in Nat : a * b \in Nat
  OBVIOUS
<1>5. Agents * (MaxRework + 1) \in Nat
  BY <1>1, <1>4
<1>6. ASSUME NEW r \in 0..MaxRework PROVE Agents * (r + 1) \in Nat /\ Agents * (r + 1) <= Agents * (MaxRework + 1)
  <2>1. r + 1 \in Nat /\ MaxRework + 1 \in Nat /\ r + 1 <= MaxRework + 1
    BY <1>1
  <2> QED
    BY <1>1, <1>2, <2>1
<1> DEFINE most == Agents * (MaxRework + 1)
<1>7. most \in Nat /\ Code!MaxChanges = 2 + most
  BY <1>3, <1>5
<1>8. ASSUME NEW r \in 0..MaxRework PROVE Agents * (r + 1) \in Nat /\ Agents * (r + 1) + 2 <= Code!MaxChanges
  <2> DEFINE many == Agents * (r + 1)
  <2>1. many \in Nat /\ many <= most
    BY <1>6
  <2> HIDE DEF many, most
  <2>2. many \in Nat /\ many + 2 <= Code!MaxChanges
    BY <1>7, <2>1
  <2> QED
    BY <2>2 DEF many
<1> HIDE DEF most
<1> QED
  BY <1>7, <1>8

\* What a rework adds, which is the outputs of one cycle, none given yet.
Continued ==
  /\ outputs' \in Seq(Code!Output) /\ Len(outputs') <= Agents * (MaxRework + 1) /\ todo' \subseteq DOMAIN outputs'
  /\ rework' \in 0..MaxRework /\ stage' \in {"develop", "failed"}
  /\ CyclesCount'
  /\ \A i \in DOMAIN outputs : i \in DOMAIN outputs' /\ outputs'[i] = outputs[i]
  /\ \A i \in DOMAIN outputs' : i \in DOMAIN outputs \/ outputs'[i] = Code!NoText
  /\ \A i \in todo' : outputs'[i] = Code!NoText

LEMMA NoTextType == Code!NoText \in Code!Output
<1>1. <<>> \in [{} -> Code!Version]
  OBVIOUS
<1>2. <<>> \in UNION {[S -> Code!Version] : S \in SUBSET Files}
  BY <1>1
<1> QED
  BY <1>2 DEF Code!NoText, Code!Output

LEMMA ReworksFacts ==
  ASSUME CodeBounds, CodeInv, todo = {}, Code!Reworks, UNCHANGED codeChanges
  PROVE  Continued
<1>0. /\ outputs \in Seq(Code!Output) /\ Len(outputs) \in Nat /\ DOMAIN outputs = 1..Len(outputs)
      /\ rework \in 0..MaxRework /\ codeChanges \in Nat /\ Agents \in Nat /\ MaxRework \in Nat
  BY CodeNumbers DEF CodeInv, Code!TypeOK, CodeBounds
<1>1. Cardinality({}) = 0 /\ Len(outputs) = Agents * (rework + 1) /\ codeChanges <= 1 + Len(outputs)
  <2>1. Cardinality({}) = 0
    BY FS_EmptySet
  <2>2. Len(outputs) = Agents * (rework + 1) /\ codeChanges + Cardinality(todo) <= 1 + Len(outputs)
    BY DEF CodeInv, CyclesCount
  <2> QED
    BY <1>0, <2>1, <2>2
<1>2. CASE rework < MaxRework
  <2>1. /\ stage' = "develop" /\ rework' = rework + 1 /\ outputs' = outputs \o Code!Blank
        /\ todo' = (Len(outputs) + 1) .. (Len(outputs) + Agents)
    BY <1>2 DEF Code!Reworks
  <2>2. Code!Blank \in Seq(Code!Output) /\ Len(Code!Blank) = Agents /\ \A i \in 1..Agents : Code!Blank[i] = Code!NoText
    BY <1>0, NoTextType DEF Code!Blank
  <2> DEFINE n == Len(outputs)
             b == Code!Blank
             o == outputs \o b
  <2>3. o \in Seq(Code!Output) /\ Len(o) = n + Agents
    BY <1>0, <2>2
  <2>4. /\ \A i \in 1..n : o[i] = outputs[i]
        /\ \A i \in (n + 1)..(n + Agents) : o[i] = Code!NoText
    <3>1. ASSUME NEW i \in (n + 1)..(n + Agents) PROVE o[i] = Code!NoText
      <4>1. i - n \in 1..Agents /\ i \in 1..(n + Agents) /\ i > n
        BY <1>0
      <4>2. o[i] = b[i - n]
        BY <1>0, <2>2, <4>1
      <4> QED
        BY <2>2, <4>1, <4>2
    <3>2. ASSUME NEW i \in 1..n PROVE o[i] = outputs[i]
      BY <1>0, <2>2
    <3> QED
      BY <3>1, <3>2
  <2> HIDE DEF o, b
  <2>5. outputs' = o
    BY <2>1 DEF o, b
  <2>6. DOMAIN outputs' = 1..(n + Agents)
    BY <2>3, <2>5
  <2>7. rework + 1 \in 0..MaxRework /\ Agents * ((rework + 1) + 1) = n + Agents
    <3>1. \A a, r \in Nat : a * ((r + 1) + 1) = a * (r + 1) + a
      OBVIOUS
    <3>2. rework \in Nat /\ rework + 1 \in 0..MaxRework
      BY <1>0, <1>2
    <3> QED
      BY <1>0, <1>1, <3>1, <3>2
  <2>8. n + Agents <= Agents * (MaxRework + 1)
    <3>1. Agents * ((rework + 1) + 1) + 2 <= Code!MaxChanges /\ Code!MaxChanges = 2 + Agents * (MaxRework + 1)
      BY <2>7, CodeNumbers DEF Code!MaxChanges
    <3>2. \A x, y \in Nat : x * y \in Nat
      OBVIOUS
    <3>3. Agents * (MaxRework + 1) \in Nat
      BY <1>0, <3>2
    <3> DEFINE most == Agents * (MaxRework + 1)
               many == Agents * ((rework + 1) + 1)
    <3>4. many = n + Agents /\ many + 2 <= 2 + most /\ most \in Nat
      BY <2>7, <3>1, <3>3
    <3> HIDE DEF most, many
    <3>5. n + Agents <= most
      BY <1>0, <3>4
    <3> QED
      BY <3>5 DEF most
  <2>9. Cardinality(todo') = Agents
    <3>1. PICK x, y \in Int : x = n + 1 /\ y = n + Agents
      BY <1>0
    <3>2. Cardinality(x..y) = IF x > y THEN 0 ELSE y - x + 1
      BY FS_Interval
    <3>3. todo' = x..y
      BY <2>1, <3>1
    <3> QED
      BY <1>0, <3>1, <3>2, <3>3
  <2>10. CyclesCount'
    <3>1. Len(outputs') = n + Agents
      BY <2>3, <2>5
    <3>2. Len(outputs') = Agents * (rework' + 1)
      BY <2>1, <2>7, <3>1
    <3>3. codeChanges' + Cardinality(todo') <= 1 + Len(outputs')
      BY <1>0, <1>1, <2>9, <3>1
    <3> QED
      BY <2>1, <3>2, <3>3 DEF CyclesCount
  <2>11. \A i \in DOMAIN outputs' : i \in DOMAIN outputs \/ i \in (n + 1)..(n + Agents)
    BY <1>0, <2>6
  <2>12. todo' \subseteq DOMAIN outputs' /\ \A i \in DOMAIN outputs : i \in DOMAIN outputs'
    BY <1>0, <2>1, <2>6
  <2>13. outputs' \in Seq(Code!Output) /\ Len(outputs') <= Agents * (MaxRework + 1)
    BY <2>3, <2>5, <2>8
  <2>14. rework' \in 0..MaxRework /\ stage' = "develop"
    BY <2>1, <2>7
  <2>15. \A i \in todo' : outputs'[i] = Code!NoText
    BY <2>1, <2>4, <2>5
  <2>16. /\ \A i \in DOMAIN outputs : outputs'[i] = outputs[i]
         /\ \A i \in DOMAIN outputs' : i \in DOMAIN outputs \/ outputs'[i] = Code!NoText
    BY <1>0, <2>4, <2>5, <2>11
  <2> QED
    BY <2>10, <2>12, <2>13, <2>14, <2>15, <2>16 DEF Continued
<1>3. CASE ~ (rework < MaxRework)
  <2>1. stage' = "failed" /\ UNCHANGED <<rework, outputs, todo>>
    BY <1>3 DEF Code!Reworks
  <2>2. CyclesCount'
    BY <2>1 DEF CodeInv, CyclesCount
  <2>3. outputs' \in Seq(Code!Output) /\ Len(outputs') <= Agents * (MaxRework + 1) /\ rework' \in 0..MaxRework
    BY <2>1 DEF CodeInv, Code!TypeOK
  <2> QED
    BY <2>1, <2>2, <2>3 DEF Continued
<1> QED
  BY <1>2, <1>3

LEMMA CodeTyped ==
  ASSUME CodeBounds, CodeInv
  PROVE  /\ Code!MaxChanges \in Nat /\ Code!MaxChanges >= 2 /\ Len(outputs) \in Nat /\ Len(outputs) + 2 <= Code!MaxChanges
         /\ outputs \in Seq(Code!Output) /\ DOMAIN outputs = 1..Len(outputs) /\ IsFiniteSet(todo) /\ todo \subseteq DOMAIN outputs
         /\ Len(outputs) <= Agents * (MaxRework + 1) /\ Len(outputs) = Agents * (rework + 1)
         /\ disk \in Tree /\ bundle \in Tree /\ pushed \in Tree
         /\ codeChanges \in Nat /\ codeChanges + Cardinality(todo) <= 1 + Len(outputs)
<1>1. /\ Code!MaxChanges \in Nat /\ Code!MaxChanges >= 2
      /\ \A r \in 0..MaxRework : Agents * (r + 1) \in Nat /\ Agents * (r + 1) + 2 <= Code!MaxChanges
  BY CodeNumbers
<1>2. Code!TypeOK /\ CyclesCount
  BY DEF CodeInv
<1>3. /\ outputs \in Seq(Code!Output) /\ todo \subseteq DOMAIN outputs /\ rework \in 0..MaxRework
      /\ Len(outputs) <= Agents * (MaxRework + 1)
      /\ disk \in Tree /\ bundle \in Tree /\ pushed \in Tree /\ codeChanges \in Nat
  BY <1>1, <1>2 DEF Code!TypeOK, Tree
<1>4. Len(outputs) = Agents * (rework + 1) /\ codeChanges + Cardinality(todo) <= 1 + Len(outputs)
  BY <1>2 DEF CyclesCount
<1>5. Len(outputs) \in Nat /\ DOMAIN outputs = 1..Len(outputs)
  BY <1>3
<1>6. IsFiniteSet(todo)
  <2>1. IsFiniteSet(1..Len(outputs))
    BY <1>5, FS_Interval
  <2> QED
    BY <1>3, <1>5, <2>1, FS_Subset
<1>7. Len(outputs) + 2 <= Code!MaxChanges
  BY <1>1, <1>3, <1>4
<1> QED
  BY <1>1, <1>3, <1>4, <1>5, <1>6, <1>7

LEMMA VersionPresent == \A v \in Code!Version : v # Code!Missing
<1> SUFFICES ASSUME NEW v \in Code!Version, v = Code!Missing PROVE FALSE
  OBVIOUS
<1>1. v.id \in 1..Code!MaxChanges /\ Code!Missing.id = 0
  BY DEF Code!Version, Code!Missing
<1> QED
  BY <1>1

LEMMA CodeInit == ASSUME CodeBounds, Code!Init PROVE CodeInv
<1>1. /\ Code!MaxChanges \in Nat /\ Code!MaxChanges >= 2 /\ Agents \in Nat /\ MaxRework \in Nat
      /\ \A r \in 0..MaxRework : Agents * (r + 1) \in Nat /\ Agents * (r + 1) + 2 <= Code!MaxChanges
  BY CodeNumbers DEF CodeBounds
<1>2. Agents = Agents * (0 + 1) /\ 0 \in 0..MaxRework /\ Agents + 2 <= Code!MaxChanges
  <2>1. 0 \in 0..MaxRework /\ Agents * (0 + 1) = Agents
    BY <1>1
  <2> QED
    BY <1>1, <2>1
<1>3. /\ disk \in [Files -> {Code!Missing, [id |-> 1, size |-> "long"]}]
      /\ outputs = Code!Blank /\ todo = 1..Agents /\ stage = "develop"
      /\ bundle = Code!Absent /\ refused = [f \in Files |-> 0] /\ verdict = "ok" /\ rework = 0
      /\ pushed = Code!Absent /\ codeChanges = 1 /\ foreign = {}
      /\ newest = [f \in Files |-> disk[f].id]
  BY DEF Code!Init
<1>4. /\ outputs \in Seq(Code!Output) /\ Len(outputs) = Agents /\ DOMAIN outputs = 1..Agents
      /\ \A i \in 1..Agents : outputs[i] = Code!NoText
  BY <1>1, <1>3, NoTextType DEF Code!Blank
<1>5. Cardinality(todo) = Agents
  <2>1. PICK x, y \in Int : x = 1 /\ y = Agents
    BY <1>1
  <2>2. Cardinality(x..y) = IF x > y THEN 0 ELSE y - x + 1
    BY FS_Interval
  <2> QED
    BY <1>1, <1>3, <2>1, <2>2
<1>6. Agents <= Agents * (MaxRework + 1)
  <2>1. \A a, b \in Nat : a * b \in Nat /\ a * (b + 1) = a * b + a
    OBVIOUS
  <2>2. Agents * MaxRework \in Nat /\ Agents * (MaxRework + 1) = Agents * MaxRework + Agents
    BY <1>1, <2>1
  <2> DEFINE m == Agents * MaxRework
  <2>3. m \in Nat /\ Agents * (MaxRework + 1) = m + Agents
    BY <2>2
  <2> HIDE DEF m
  <2> QED
    BY <1>1, <2>3
<1>7. Code!TypeOK
  <2>1. 1 \in 1..Code!MaxChanges /\ 1 \in 0..Code!MaxChanges /\ 0 \in 0..Code!MaxChanges
    BY <1>1
  <2>2. [id |-> 1, size |-> "long"] \in Code!Version
    BY <2>1 DEF Code!Version
  <2>3. disk \in [Files -> Code!Version \cup {Code!Missing}]
    BY <1>3, <2>2
  <2>4. Code!Absent \in [Files -> Code!Version \cup {Code!Missing}]
    BY DEF Code!Absent
  <2>5. newest \in [Files -> 0..Code!MaxChanges]
    <3>1. \A f \in Files : disk[f].id \in {0, 1}
      BY <1>3 DEF Code!Missing
    <3> QED
      BY <1>3, <2>1, <3>1
  <2>6. refused \in [Files -> 0..Code!MaxChanges]
    BY <1>3, <2>1
  <2>7. Len(outputs) <= Agents * (MaxRework + 1) /\ todo \subseteq DOMAIN outputs
    BY <1>3, <1>4, <1>6
  <2>8. codeChanges \in 0..Code!MaxChanges /\ rework \in 0..MaxRework /\ foreign \subseteq Files
    BY <1>2, <1>3, <2>1
  <2> QED
    BY <1>3, <1>4, <2>3, <2>4, <2>5, <2>6, <2>7, <2>8 DEF Code!TypeOK
<1>8. OutputsFit
  BY <1>3, <1>4 DEF OutputsFit, Code!NoText
<1>9. CyclesCount
  BY <1>1, <1>2, <1>3, <1>4, <1>5 DEF CyclesCount
<1>10. BundleFits
  BY <1>3 DEF BundleFits
<1> QED
  BY <1>7, <1>8, <1>9, <1>10 DEF CodeInv

\* What an agent leaves, at a place that was open.
LEMMA WorkLeaves ==
  ASSUME CodeBounds, CodeInv, NEW i \in todo, Code!Work(i)
  PROVE  /\ \E o \in Code!Output :
              /\ outputs' = [outputs EXCEPT ![i] = o]
              /\ ~o.text => DOMAIN o.full = {} /\ o.listed = {}
         /\ disk' \in Tree
         /\ newest' \in [Files -> 0..Code!MaxChanges]
         /\ codeChanges' \in 0..Code!MaxChanges /\ codeChanges' <= codeChanges + 1
<1>1. /\ Code!MaxChanges \in Nat /\ Len(outputs) \in Nat /\ Len(outputs) + 2 <= Code!MaxChanges
      /\ IsFiniteSet(todo) /\ disk \in Tree /\ codeChanges \in Nat
      /\ codeChanges + Cardinality(todo) <= 1 + Len(outputs)
  BY CodeTyped
<1>2. newest \in [Files -> 0..Code!MaxChanges] /\ codeChanges \in 0..Code!MaxChanges
  BY DEF CodeInv, Code!TypeOK
<1>3. Cardinality(todo) \in Nat /\ Cardinality(todo) # 0
  BY <1>1, FS_CardinalityType, FS_EmptySet
<1>4. codeChanges + 1 \in 1..Code!MaxChanges /\ codeChanges + 1 \in 0..Code!MaxChanges
  BY <1>1, <1>3
<1>5. PICK c : c = codeChanges + 1
  OBVIOUS
<1>6. c \in 1..Code!MaxChanges /\ c \in 0..Code!MaxChanges
  BY <1>4, <1>5
<1>7. ASSUME NEW f \in Files, Code!Emits(i, f) \/ Code!Edits(i, f),
             newest' = [newest EXCEPT ![f] = codeChanges + 1], codeChanges' = codeChanges + 1
      PROVE  /\ \E o \in Code!Output :
                  /\ outputs' = [outputs EXCEPT ![i] = o]
                  /\ ~o.text => DOMAIN o.full = {} /\ o.listed = {}
             /\ disk' \in Tree
             /\ newest' \in [Files -> 0..Code!MaxChanges]
             /\ codeChanges' \in 0..Code!MaxChanges /\ codeChanges' <= codeChanges + 1
  <2>1. newest' \in [Files -> 0..Code!MaxChanges]
    BY <1>2, <1>5, <1>6, <1>7
  <2>2. codeChanges' \in 0..Code!MaxChanges /\ codeChanges' <= codeChanges + 1
    BY <1>1, <1>4, <1>7
  <2>3. CASE Code!Emits(i, f)
    <3>1. PICK size \in {"short", "long", "fragment"} :
            /\ outputs' = [outputs EXCEPT ![i] =
                 [text |-> TRUE, listed |-> {}, full |-> [g \in {f} |-> [id |-> codeChanges + 1, size |-> size]]]]
            /\ UNCHANGED disk
      BY <2>3 DEF Code!Emits
    <3>2. [id |-> c, size |-> size] \in Code!Version
      BY <1>6 DEF Code!Version
    <3>3. PICK v \in Code!Version : v = [id |-> c, size |-> size]
      BY <3>2
    <3>4. PICK full : full = [g \in {f} |-> v]
      OBVIOUS
    <3>5. full \in [{f} -> Code!Version] /\ {f} \in SUBSET Files
      BY <3>4
    <3>6. PICK o : o = [text |-> TRUE, listed |-> {}, full |-> full]
      OBVIOUS
    <3>7. full \in UNION {[S -> Code!Version] : S \in SUBSET Files}
      BY <3>5
    <3>8. o \in Code!Output /\ o.text /\ o.listed = {}
      BY ONLY <3>6, <3>7 DEF Code!Output
    <3>9. outputs' = [outputs EXCEPT ![i] = o]
      BY <1>5, <3>1, <3>3, <3>4, <3>6
    <3>10. disk' \in Tree
      BY <1>1, <3>1
    <3> QED
      BY <2>1, <2>2, <3>8, <3>9, <3>10
  <2>4. CASE Code!Edits(i, f)
    <3>1. PICK listed \in {{}, {f}} :
            outputs' = [outputs EXCEPT ![i] = [text |-> TRUE, full |-> <<>>, listed |-> listed]]
      BY <2>4 DEF Code!Edits
    <3>2. PICK v : v = [disk[f] EXCEPT !.id = c]
      OBVIOUS
    <3>3. v \in Code!Version
      <4>1. disk[f] \in Code!Version \cup {Code!Missing}
        BY <1>1 DEF Tree
      <4>2. disk[f] \in [id : Nat, size : {"short", "long", "fragment"}]
        BY <4>1 DEF Code!Version, Code!Missing
      <4> QED
        BY ONLY <1>6, <3>2, <4>2 DEF Code!Version
    <3>5. disk' = [disk EXCEPT ![f] = v]
      BY <1>5, <2>4, <3>2 DEF Code!Edits
    <3>6. disk' \in Tree
      BY <1>1, <3>3, <3>5 DEF Tree
    <3>7. PICK o : o = [text |-> TRUE, full |-> <<>>, listed |-> listed]
      OBVIOUS
    <3>8. <<>> \in UNION {[S -> Code!Version] : S \in SUBSET Files}
      <4>1. <<>> \in [{} -> Code!Version]
        OBVIOUS
      <4> QED
        BY <4>1
    <3>9. o \in Code!Output /\ o.text
      BY ONLY <3>1, <3>7, <3>8, f \in Files, listed \in {{}, {f}} DEF Code!Output
    <3>10. outputs' = [outputs EXCEPT ![i] = o]
      BY <3>1, <3>7
    <3> QED
      BY <2>1, <2>2, <3>6, <3>9, <3>10
  <2> QED
    BY <1>7, <2>3, <2>4
<1>8. ASSUME UNCHANGED outputs \/ \E listed \in {{}} \cup {{f} : f \in Files} :
               outputs' = [outputs EXCEPT ![i] = [text |-> TRUE, full |-> <<>>, listed |-> listed]],
             UNCHANGED <<disk, newest, codeChanges>>
      PROVE  /\ \E o \in Code!Output :
                  /\ outputs' = [outputs EXCEPT ![i] = o]
                  /\ ~o.text => DOMAIN o.full = {} /\ o.listed = {}
             /\ disk' \in Tree
             /\ newest' \in [Files -> 0..Code!MaxChanges]
             /\ codeChanges' \in 0..Code!MaxChanges /\ codeChanges' <= codeChanges + 1
  <2>1. disk' \in Tree /\ newest' \in [Files -> 0..Code!MaxChanges] /\ codeChanges' \in 0..Code!MaxChanges
        /\ codeChanges' <= codeChanges + 1
    BY <1>1, <1>2, <1>8
  <2>2. DOMAIN <<>> = {} /\ <<>> \in UNION {[S -> Code!Version] : S \in SUBSET Files}
    <3>1. <<>> \in [{} -> Code!Version] /\ DOMAIN <<>> = {}
      OBVIOUS
    <3> QED
      BY <3>1
  <2>3. CASE UNCHANGED outputs
    <3>1. outputs[i] = Code!NoText /\ outputs \in Seq(Code!Output)
      BY CodeTyped DEF CodeInv, OutputsFit
    <3>2. outputs' = [outputs EXCEPT ![i] = Code!NoText]
      BY <2>3, <3>1
    <3>3. DOMAIN Code!NoText.full = {} /\ Code!NoText.listed = {}
      BY DEF Code!NoText
    <3> QED
      BY <2>1, <3>2, <3>3, NoTextType
  <2>4. ASSUME NEW listed \in {{}} \cup {{f} : f \in Files},
               outputs' = [outputs EXCEPT ![i] = [text |-> TRUE, full |-> <<>>, listed |-> listed]]
        PROVE  \E o \in Code!Output : outputs' = [outputs EXCEPT ![i] = o] /\ o.text
    <3>1. PICK o : o = [text |-> TRUE, full |-> <<>>, listed |-> listed]
      OBVIOUS
    <3>2. listed \in SUBSET Files
      BY <2>4
    <3>3. o \in Code!Output /\ o.text
      BY ONLY <2>2, <3>1, <3>2 DEF Code!Output
    <3> QED
      BY <2>4, <3>1, <3>3
  <2> QED
    BY <1>8, <2>1, <2>3, <2>4
<1> QED
  BY <1>7, <1>8 DEF Code!Work

\* The outputs stay as they fit when the ones there are kept or replaced by fitting ones.
LEMMA WorkSound ==
  ASSUME CodeBounds, CodeInv, NEW i \in todo, Code!Work(i) PROVE CodeInv'
<1>1. /\ Code!MaxChanges \in Nat /\ Len(outputs) \in Nat /\ DOMAIN outputs = 1..Len(outputs)
      /\ outputs \in Seq(Code!Output) /\ IsFiniteSet(todo) /\ todo \subseteq DOMAIN outputs
      /\ Len(outputs) <= Agents * (MaxRework + 1) /\ Len(outputs) = Agents * (rework + 1)
      /\ codeChanges \in Nat /\ codeChanges + Cardinality(todo) <= 1 + Len(outputs)
  BY CodeTyped
<1>2. PICK o \in Code!Output : /\ outputs' = [outputs EXCEPT ![i] = o]
                               /\ ~o.text => DOMAIN o.full = {} /\ o.listed = {}
  BY WorkLeaves
<1>3. /\ disk' \in Tree
      /\ newest' \in [Files -> 0..Code!MaxChanges]
      /\ codeChanges' \in 0..Code!MaxChanges /\ codeChanges' <= codeChanges + 1
  BY WorkLeaves
<1>4. /\ stage = "develop" /\ todo' = todo \ {i} /\ stage' = IF todo' = {} THEN "materialize" ELSE stage
      /\ UNCHANGED <<bundle, refused, verdict, rework, pushed, foreign>>
  BY DEF Code!Work
<1>5. /\ outputs' \in Seq(Code!Output) /\ Len(outputs') = Len(outputs) /\ DOMAIN outputs' = DOMAIN outputs
      /\ outputs'[i] = o /\ \A j \in DOMAIN outputs : j # i => outputs'[j] = outputs[j]
  BY <1>1, <1>2
<1>6. Code!TypeOK'
  <2>1. disk' \in [Files -> Code!Version \cup {Code!Missing}] /\ todo' \subseteq DOMAIN outputs'
    BY <1>1, <1>3, <1>4, <1>5 DEF Tree
  <2> QED
    BY <1>1, <1>3, <1>4, <1>5, <2>1 DEF CodeInv, Code!TypeOK
<1>7. OutputsFit'
  <2>1. \A j \in DOMAIN outputs' : ~outputs'[j].text => DOMAIN outputs'[j].full = {} /\ outputs'[j].listed = {}
    BY <1>2, <1>5 DEF CodeInv, OutputsFit
  <2>3. \A j \in todo' : outputs'[j] = Code!NoText
    BY <1>1, <1>4, <1>5 DEF CodeInv, OutputsFit
  <2> QED
    BY <2>1, <2>3 DEF OutputsFit
<1>8. CyclesCount'
  <2>1. Cardinality(todo') = Cardinality(todo) - 1 /\ Cardinality(todo) \in Nat
    BY <1>1, <1>4, FS_RemoveElement, FS_CardinalityType
  <2>2. codeChanges' + Cardinality(todo') <= 1 + Len(outputs')
    BY <1>1, <1>3, <1>5, <2>1
  <2> QED
    BY <1>1, <1>4, <1>5, <2>2 DEF CyclesCount
<1>9. BundleFits'
  <2>1. stage' \in {"develop", "materialize"}
    BY <1>4
  <2>2. ASSUME \A j \in DOMAIN outputs' : ~outputs'[j].text PROVE bundle = Code!Absent
    <3>1. ~outputs[i].text
      BY DEF CodeInv, OutputsFit, Code!NoText
    <3>2. \A j \in DOMAIN outputs : ~outputs[j].text
      BY <1>5, <2>2, <3>1
    <3> QED
      BY <3>2 DEF CodeInv, BundleFits
  <2> QED
    BY <1>4, <2>1, <2>2 DEF BundleFits
<1> QED
  BY <1>6, <1>7, <1>8, <1>9 DEF CodeInv

\* Back to the stage, from where nobody writes.
LEMMA ReworksSound ==
  ASSUME CodeBounds, CodeInv, todo = {}, Code!Reworks, UNCHANGED <<bundle, pushed, codeChanges, newest, foreign>>,
         disk' \in Tree, refused' \in [Files -> 0..Code!MaxChanges],
         verdict' \in {"ok", "marker", "drop", "loop", "nothing", "checks"}
  PROVE  CodeInv'
<1>1. Continued
  BY ReworksFacts
<1>2. outputs \in Seq(Code!Output)
  BY CodeTyped
<1>3. Code!TypeOK'
  BY <1>1 DEF Continued, CodeInv, Code!TypeOK, Tree
<1>4. OutputsFit'
  <2>1. \A j \in DOMAIN outputs' : outputs'[j] = Code!NoText \/ (j \in DOMAIN outputs /\ outputs'[j] = outputs[j])
    BY <1>1 DEF Continued
  <2>2. \A j \in DOMAIN outputs' : ~outputs'[j].text => DOMAIN outputs'[j].full = {} /\ outputs'[j].listed = {}
    <3>1. DOMAIN Code!NoText.full = {} /\ Code!NoText.listed = {}
      BY DEF Code!NoText
    <3> QED
      BY <2>1, <3>1 DEF CodeInv, OutputsFit
  <2> QED
    BY <1>1, <2>2 DEF Continued, OutputsFit
<1>5. BundleFits'
  <2>1. ASSUME \A j \in DOMAIN outputs' : ~outputs'[j].text PROVE bundle = Code!Absent
    <3>1. \A j \in DOMAIN outputs : ~outputs[j].text
      BY <1>1, <2>1 DEF Continued
    <3> QED
      BY <3>1 DEF CodeInv, BundleFits
  <2> QED
    BY <1>1, <2>1 DEF Continued, BundleFits
<1> QED
  BY <1>1, <1>3, <1>4, <1>5 DEF CodeInv, Continued

LEMMA NobodyWrites == ASSUME CodeInv, stage # "develop" PROVE todo = {}
BY DEF CodeInv, CyclesCount

LEMMA FilesOfOutputs == ASSUME CodeBounds, CodeInv PROVE Code!Sent \subseteq Files /\ Code!Listed \subseteq Files
<1>1. outputs \in Seq(Code!Output) /\ DOMAIN outputs = 1..Len(outputs)
  BY CodeTyped
<1>2. ASSUME NEW i \in DOMAIN outputs PROVE outputs[i].listed \subseteq Files /\ DOMAIN outputs[i].full \subseteq Files
  <2>1. outputs[i] \in Code!Output
    BY <1>1, <1>2
  <2> QED
    BY <2>1 DEF Code!Output
<1> QED
  BY <1>2 DEF Code!Sent, Code!Listed

\* What is collected is what was sent or listed, as it now is on the disk.
LEMMA CollectedFacts ==
  ASSUME CodeBounds, CodeInv, Code!Written.verdict = "ok"
  PROVE  Code!Bundle \in Tree /\ Mirrors(Code!Bundle, Code!Written.disk, {})
<1>1. Code!TypeOK /\ OutputsFit /\ outputs \in Seq(Code!Output) /\ DOMAIN outputs = 1..Len(outputs)
  BY CodeTyped DEF CodeInv
<1>2. PICK s : s = Code!Written
  OBVIOUS
<1>3. WrittenUpTo(s, Len(outputs))
  BY <1>1, <1>2, CodeTyped, WrittenFacts
<1>4. s.disk \in Tree /\ s.map \in Tree /\ s.verdict = "ok"
  BY <1>2, <1>3 DEF WrittenUpTo, Folded
<1>5. /\ UNION {out.listed : out \in Code!Answers} = Code!Listed
      /\ Code!Listed \subseteq Files /\ Code!Sent \subseteq Files
  <2>1. UNION {out.listed : out \in Code!Answers} = Code!Listed
    BY DEF Code!Answers, Code!Outputs, Code!Listed
  <2> QED
    BY <2>1, FilesOfOutputs
<1>6. Code!Collected = [f \in Files |-> IF s.map[f] = Code!Missing /\ f \in Code!Listed THEN s.disk[f] ELSE s.map[f]]
  BY <1>2, <1>5 DEF Code!Collected
<1>7. \A f \in Files : s.map[f] # Code!Missing <=> f \in Code!Sent
  <2>1. \A f \in Files : s.map[f] # Code!Missing <=> \E i \in DOMAIN outputs : f \in DOMAIN outputs[i].full
    BY <1>1, <1>3, <1>4 DEF WrittenUpTo
  <2> QED
    BY <2>1 DEF Code!Sent
<1>8. PICK c : c = Code!Collected
  OBVIOUS
<1>9. ASSUME NEW f \in Files
      PROVE  /\ c[f] \in Code!Version \cup {Code!Missing}
             /\ c[f] # Code!Missing => f \in Code!Sent \cup Code!Listed
             /\ f \in Code!Sent => c[f] # Code!Missing
             /\ f \in Code!Sent \cup Code!Listed => c[f] = s.disk[f]
  <2>1. c[f] = IF s.map[f] = Code!Missing /\ f \in Code!Listed THEN s.disk[f] ELSE s.map[f]
    BY <1>6, <1>8
  <2>2. s.disk[f] \in Code!Version \cup {Code!Missing} /\ s.map[f] \in Code!Version \cup {Code!Missing}
    BY <1>4 DEF Tree
  <2>3. s.map[f] # Code!Missing => s.map[f] = s.disk[f]
    BY <1>3 DEF WrittenUpTo
  <2> QED
    BY <1>7, <2>1, <2>2, <2>3
<1>10. PICK b : b = Code!Bundle
  OBVIOUS
<1>11. b = [f \in Files |-> IF f \in Guarded THEN Code!Missing ELSE c[f]]
  BY <1>8, <1>10 DEF Code!Bundle
<1>12. b \in Tree /\ \A f \in Files : b[f] = IF f \in Guarded THEN Code!Missing ELSE c[f]
  BY <1>9, <1>11 DEF Tree
<1>13. \A f : f \in Code!Held(b) <=> f \in Files /\ f \notin Guarded /\ c[f] # Code!Missing
  BY <1>12 DEF Code!Held
<1>14. Mirrors(b, s.disk, {})
  BY <1>5, <1>9, <1>12, <1>13 DEF Mirrors
<1> QED
  BY <1>2, <1>10, <1>12, <1>14

LEMMA MaterializeSound ==
  ASSUME CodeBounds, CodeInv, Code!Materialize PROVE CodeInv'
<1>1. PICK s : s = Code!Written
  OBVIOUS
<1>2. WrittenUpTo(s, Len(outputs))
  BY <1>1, CodeTyped, WrittenFacts DEF CodeInv
<1>3. s.disk \in Tree /\ s.refused \in [Files -> 0..Code!MaxChanges] /\ s.verdict \in {"ok", "marker", "drop", "loop"}
  BY <1>2 DEF WrittenUpTo, Folded
<1>4. todo = {} /\ stage = "materialize"
  BY NobodyWrites DEF Code!Materialize
<1>5. /\ disk' = s.disk /\ UNCHANGED <<pushed, codeChanges, newest>>
      /\ verdict' \in {"ok", "marker", "drop", "loop", "nothing", "checks"}
      /\ verdict' = "ok" => s.verdict = "ok"
  BY <1>1, <1>3 DEF Code!Materialize
<1>6. CASE verdict' # "ok"
  <2>1. refused' = s.refused /\ Code!Reworks /\ UNCHANGED <<bundle, foreign>>
    BY <1>1, <1>6 DEF Code!Materialize
  <2> QED
    BY <1>3, <1>4, <1>5, <2>1, ReworksSound
<1>7. CASE verdict' = "ok"
  <2>1. /\ bundle' = Code!Bundle /\ refused' = [f \in Files |-> 0] /\ foreign' = {} /\ stage' = "gates"
        /\ UNCHANGED <<rework, outputs, todo>>
    BY <1>7 DEF Code!Materialize
  <2>2. bundle' \in Tree /\ Mirrors(bundle', disk', {})
    BY <1>1, <1>5, <1>7, <2>1, CollectedFacts
  <2>3. refused' \in [Files -> 0..Code!MaxChanges]
    <3>1. 0 \in 0..Code!MaxChanges
      BY CodeTyped
    <3> QED
      BY <2>1, <3>1
  <2>4. Code!TypeOK'
    BY <1>3, <1>5, <1>7, <2>1, <2>2, <2>3 DEF CodeInv, Code!TypeOK, Tree
  <2>5. OutputsFit'
    BY <2>1 DEF CodeInv, OutputsFit
  <2>6. CyclesCount'
    BY <1>4, <1>5, <2>1 DEF CodeInv, CyclesCount
  <2>7. BundleFits'
    <3>1. \E i \in DOMAIN outputs : outputs[i].text
      BY DEF Code!Materialize, Code!Answers, Code!Outputs
    <3>2. \E i \in DOMAIN outputs' : outputs'[i].text
      BY <2>1, <3>1
    <3>3. Mirrors(bundle, disk, foreign)'
      BY <2>1, <2>2 DEF Mirrors, Code!Sent, Code!Listed, Code!Held
    <3> QED
      BY <2>1, <3>2, <3>3 DEF BundleFits
  <2> QED
    BY <2>4, <2>5, <2>6, <2>7 DEF CodeInv
<1> QED
  BY <1>6, <1>7

LEMMA AbsentHoldsNone == Code!Held(Code!Absent) = {}
BY DEF Code!Held, Code!Absent

LEMMA SkipMaterializeSound ==
  ASSUME CodeBounds, CodeInv, Code!SkipMaterialize PROVE CodeInv'
<1>1. /\ stage = "materialize" /\ stage' = "gates"
      /\ UNCHANGED <<disk, outputs, todo, bundle, refused, verdict, rework, pushed, codeChanges, newest, foreign>>
  BY DEF Code!SkipMaterialize
<1>2. \A i \in DOMAIN outputs : ~outputs[i].text
  BY DEF Code!SkipMaterialize, Code!Answers, Code!Outputs
<1>3. bundle = Code!Absent
  BY <1>2 DEF CodeInv, BundleFits
<1>4. Code!Sent = {} /\ Code!Listed = {}
  BY <1>2 DEF Code!Sent, Code!Listed, CodeInv, OutputsFit
<1>5. Code!TypeOK' /\ OutputsFit' /\ CyclesCount'
  <2>1. Code!TypeOK'
    BY <1>1 DEF CodeInv, Code!TypeOK
  <2>2. OutputsFit'
    BY <1>1 DEF CodeInv, OutputsFit
  <2>3. CyclesCount'
    BY <1>1 DEF CodeInv, CyclesCount
  <2> QED
    BY <2>1, <2>2, <2>3
<1>6. BundleFits'
  <2>1. bundle' = Code!Absent /\ Mirrors(bundle, disk, foreign)
    BY <1>1, <1>3, <1>4, AbsentHoldsNone DEF Mirrors
  <2>2. Mirrors(bundle, disk, foreign)'
    BY <1>1, <2>1 DEF Mirrors, Code!Sent, Code!Listed, Code!Held
  <2> QED
    BY <1>1, <2>1, <2>2 DEF BundleFits
<1> QED
  BY <1>5, <1>6 DEF CodeInv

LEMMA ReviewSound ==
  ASSUME CodeBounds, CodeInv, Code!Gates \/ Code!Commit PROVE CodeInv'
<1>1. stage \in {"gates", "commit"} /\ UNCHANGED <<disk, bundle, refused, verdict, codeChanges, newest, foreign>>
  BY DEF Code!Gates, Code!Commit
<1>2. todo = {} /\ Code!TypeOK
  BY <1>1, NobodyWrites DEF CodeInv
<1>3. CASE Code!Reworks /\ UNCHANGED pushed
  <2>1. /\ disk' \in Tree
        /\ refused' \in [Files -> 0..Code!MaxChanges] /\ verdict' \in {"ok", "marker", "drop", "loop", "nothing", "checks"}
    BY <1>1, <1>2, CodeTyped DEF Code!TypeOK
  <2> QED
    BY <1>1, <1>2, <1>3, <2>1, ReworksSound
<1>4. CASE /\ UNCHANGED <<rework, outputs, todo>> /\ stage' \in {"commit", "skipped", "pushed"}
           /\ pushed' = IF stage' = "commit" THEN pushed ELSE bundle
  <2>1. Code!TypeOK'
    BY <1>1, <1>2, <1>4 DEF Code!TypeOK
  <2>2. OutputsFit' /\ CyclesCount'
    BY <1>1, <1>2, <1>4 DEF CodeInv, OutputsFit, CyclesCount
  <2>3. BundleFits'
    <3>1. Mirrors(bundle, disk, foreign)
      BY <1>1 DEF CodeInv, BundleFits
    <3>2. Mirrors(bundle, disk, foreign)'
      BY <1>1, <1>4, <3>1 DEF Mirrors, Code!Sent, Code!Listed, Code!Held
    <3>3. (\A i \in DOMAIN outputs : ~outputs[i].text) => bundle = Code!Absent
      BY DEF CodeInv, BundleFits
    <3> QED
      BY <1>1, <1>4, <3>2, <3>3 DEF BundleFits
  <2> QED
    BY <2>1, <2>2, <2>3 DEF CodeInv
<1> QED
  BY <1>1, <1>3, <1>4 DEF Code!Gates, Code!Commit

LEMMA ForeignSound ==
  ASSUME CodeBounds, CodeInv, NEW f \in Files, Code!Foreign(f) PROVE CodeInv'
<1>1. /\ stage \in {"gates", "commit"} /\ foreign' = foreign \cup {f}
      /\ UNCHANGED <<outputs, todo, stage, bundle, refused, verdict, rework, pushed, codeChanges, newest>>
  BY DEF Code!Foreign
<1>2. PICK v : v = [id |-> Code!MaxChanges, size |-> "long"]
  OBVIOUS
<1>3. v \in Code!Version
  <2>1. Code!MaxChanges \in 1..Code!MaxChanges
    BY CodeTyped
  <2> QED
    BY <1>2, <2>1 DEF Code!Version
<1>4. disk \in Tree /\ disk' = [disk EXCEPT ![f] = v] /\ v # Code!Missing
  BY <1>2, <1>3, CodeTyped, VersionPresent DEF Code!Foreign
<1>5. disk' \in Tree /\ disk'[f] = v /\ \A g \in Files : g # f => disk'[g] = disk[g]
  BY <1>3, <1>4 DEF Tree
<1>6. Code!TypeOK'
  BY <1>1, <1>5 DEF CodeInv, Code!TypeOK, Tree
<1>7. OutputsFit'
  BY <1>1 DEF CodeInv, OutputsFit
<1>8. CyclesCount'
  BY <1>1 DEF CodeInv, CyclesCount
<1>9. BundleFits'
  <2>1. Mirrors(bundle, disk, foreign)
    BY <1>1 DEF CodeInv, BundleFits
  <2>2. Code!Sent \subseteq Files /\ Code!Listed \subseteq Files
    BY FilesOfOutputs
  <2>3. Mirrors(bundle, disk, foreign)'
    BY <1>1, <1>5, <2>1, <2>2 DEF Mirrors, Code!Sent, Code!Listed, Code!Held
  <2>4. (\A i \in DOMAIN outputs : ~outputs[i].text) => bundle = Code!Absent
    BY DEF CodeInv, BundleFits
  <2> QED
    BY <1>1, <2>3, <2>4 DEF BundleFits
<1> QED
  BY <1>6, <1>7, <1>8, <1>9 DEF CodeInv

LEMMA CodeNext ==
  ASSUME CodeBounds, CodeInv, [Code!Next]_Code!writerVars PROVE CodeInv'
<1>1. CASE UNCHANGED Code!writerVars
  <2> USE <1>1 DEF Code!writerVars
  <2>1. Code!TypeOK'
    BY DEF CodeInv, Code!TypeOK
  <2>2. OutputsFit' /\ CyclesCount'
    BY DEF CodeInv, OutputsFit, CyclesCount
  <2>3. BundleFits'
    BY DEF CodeInv, BundleFits, Mirrors, Code!Sent, Code!Listed, Code!Held
  <2> QED
    BY <2>1, <2>2, <2>3 DEF CodeInv
<1>2. CASE Code!Next
  BY <1>2, WorkSound, MaterializeSound, SkipMaterializeSound, ReviewSound, ForeignSound DEF Code!Next
<1> QED
  BY <1>1, <1>2

LEMMA CodeFacts == ASSUME CodeInv PROVE Code!TypeOK /\ Code!PushedIsReviewed
<1>1. Code!TypeOK
  BY DEF CodeInv
<1>2. stage = "pushed" => pushed = bundle /\ Mirrors(bundle, disk, foreign)
  BY DEF CodeInv, BundleFits
<1> QED
  BY <1>1, <1>2 DEF Code!PushedIsReviewed, Mirrors
================================================================================
