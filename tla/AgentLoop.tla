------------------------------ MODULE AgentLoop -------------------------------
(***************************************************************************)
(* One agent object and the invocations that share it. The registry holds  *)
(* a single object per agent id, the workflows run as concurrent tasks,    *)
(* and every await of an invocation lets another run. An invocation        *)
(* carries its client and model on its own stack; its project root, the    *)
(* scope of its knowledge tools and its grounding it stores on the object. *)
(*                                                                         *)
(* The model comes from five layers (request, database override, YAML,     *)
(* environment, catalog) and the client from a pool that remembers clients *)
(* and failures by provider, while administrators change the override and  *)
(* reload the catalog.                                                     *)
(***************************************************************************)
EXTENDS Naturals, FiniteSets

CONSTANTS
  Calls,
  Projects,
  Models,      \* catalog ids, one provider key each
  Yaml,        \* the model the agent's YAML names, a member of Models
  MaxTurns,    \* max_iterations, 15 in the code
  MaxRetries,  \* 5 in the code
  MaxChanges,  \* bound on overrides, resets and reloads
  Null

VARIABLES
  call,      \* the invocations' locals
  root,      \* _current_project_root and _current_kb_scope: the project of both
  grounding, \* _kb_grounding: the project whose knowledge it holds
  override,  \* the row of agent_model_overrides
  catalog,   \* how each model is described by the file last loaded
  pool,      \* LLMClientPool: clients and remembered failures
  booted,    \* the AnthropicAWS client was built at boot
  changes,
  touched,   \* history: the projects the tools of a running invocation worked in
  told,      \* history: the projects whose knowledge its prompts and tools carried
  asked      \* history: the models a running invocation asked
agentObject == <<root, grounding>>
models == <<override, catalog, pool, booted, changes>>
history == <<touched, told, asked>>
agentVars == <<call, root, grounding, override, catalog, pool, booted, changes, touched, told, asked>>

Roots == Projects \cup {"platform"}
Idle == [kind |-> "execute", stage |-> "idle", root |-> "platform", want |-> Null,
         model |-> Null, client |-> Null, turns |-> 0, attempt |-> 0]

Invocation ==
  [kind: {"execute", "single"}, stage: {"idle", "resolve", "start", "ground", "ask", "tool", "over"},
   root: Roots, want: Models \cup {Null}, model: Models \cup {Null},
   client: Models \cup {Null, "aws"}, turns: 0..MaxTurns, attempt: 0..MaxRetries]

TypeOK ==
  /\ call \in [Calls -> Invocation]
  /\ root \in Roots \cup {Null} /\ grounding \in Roots \cup {Null}
  /\ override \in Models \cup {Null}
  /\ catalog \in [Models -> {"absent", "no key", "good"}]
  /\ pool \in [Models -> {"none", "client", "failed"}]
  /\ touched \in [Calls -> SUBSET Roots] /\ told \in [Calls -> SUBSET Roots]
  /\ asked \in [Calls -> SUBSET Models]
  /\ changes \in 0..MaxChanges

Init ==
  /\ call = [c \in Calls |-> Idle] /\ root = Null /\ grounding = Null
  /\ override = Null /\ catalog \in [Models -> {"no key", "good"}] /\ catalog[Yaml] = "good"
  /\ booted \in BOOLEAN
  /\ pool = [m \in Models |-> IF m = Yaml /\ booted THEN "client" ELSE "none"]
  /\ changes = 0 /\ touched = [c \in Calls |-> {}] /\ told = touched /\ asked = touched

Sets(c, f) == call' = [call EXCEPT ![c] = f]
Moves(c, stage) == Sets(c, [call[c] EXCEPT !.stage = stage])
\* The locals go with the invocation.
Ends(c) ==
  /\ Sets(c, [Idle EXCEPT !.stage = "over"])
  /\ touched' = [touched EXCEPT ![c] = {}] /\ told' = [told EXCEPT ![c] = {}]
  /\ asked' = [asked EXCEPT ![c] = {}]

(***************************************************************************)
(* The administrators                                                      *)
(***************************************************************************)
Counts == changes < MaxChanges /\ changes' = changes + 1

\* PATCH /agents/{id}/model: only a model of the catalog is stored.
AssignModel ==
  /\ Counts
  /\ \E m \in Models : catalog[m] # "absent" /\ override' = m
  /\ UNCHANGED <<call, agentObject, catalog, pool, booted, history>>

\* DELETE, of the one override or of all.
ClearModel ==
  /\ Counts /\ override # Null /\ override' = Null
  /\ UNCHANGED <<call, agentObject, catalog, pool, booted, history>>

\* A file that loads replaces the catalog. The pool keeps what it remembers.
Reload ==
  /\ Counts
  /\ \E file \in [Models -> {"absent", "no key", "good"}] :
       file[Yaml] = "good" /\ file # catalog /\ catalog' = file
  /\ UNCHANGED <<call, agentObject, override, pool, booted, history>>

(***************************************************************************)
(* Before the agent runs                                                   *)
(***************************************************************************)
\* The project of the request, or the platform when there is none or the
\* lookup fails. A single call stores neither a root nor a scope.
Begin(c) ==
  /\ call[c].stage = "idle"
  /\ \E kind \in {"execute", "single"}, r \in Roots, want \in Models \cup {Null} :
       /\ kind = "single" => want = Null
       /\ Sets(c, [Idle EXCEPT !.kind = kind, !.stage = "resolve", !.root = r, !.want = want])
  /\ UNCHANGED <<agentObject, models, history>>

\* The first layer the catalog knows; the database's may be unreadable. The
\* YAML's model also stands for the layers below it.
Listed(m) == m \in Models /\ catalog[m] # "absent"
Resolved(c, stored) ==
  IF Listed(call[c].want) THEN call[c].want ELSE IF Listed(stored) THEN stored ELSE Yaml

\* get_for: what the pool remembers under the provider's key, or a new build.
Known(m) ==
  IF pool[m] # "none" THEN pool[m]
  ELSE IF catalog[m] = "good" THEN "client" ELSE "failed"

\* When the pool has no client the agent's own model goes to the boot client.
Resolve(c) ==
  /\ call[c].stage = "resolve"
  /\ \E stored \in {override, Null} :
       LET m == Resolved(c, stored) IN
       /\ pool' = [pool EXCEPT ![m] = Known(m)]
       /\ Sets(c, [call[c] EXCEPT !.stage = "start",
            !.model = IF Known(m) = "client" THEN m ELSE Yaml,
            !.client = IF Known(m) = "client" THEN m ELSE IF booted THEN "aws" ELSE Null])
  /\ UNCHANGED <<agentObject, override, catalog, booted, changes, history>>

(***************************************************************************)
(* The loop                                                                *)
(***************************************************************************)
\* process_task stores the root, the scope and an empty grounding on the
\* agent before its first await; without a client it returns a mock.
Start(c) ==
  /\ call[c].stage = "start"
  /\ IF call[c].kind = "single" THEN UNCHANGED agentObject
     ELSE root' = call[c].root /\ grounding' = Null
  /\ IF call[c].client = Null THEN Ends(c)
     ELSE /\ \E next \in {"ground", "ask"} : (call[c].kind = "single" => next = "ask") /\ Moves(c, next)
          /\ UNCHANGED history
  /\ UNCHANGED models

\* The chunks retrieved in the invocation's own scope, or nothing when the
\* retrieval fails, stored when the retriever answers.
Ground(c) ==
  /\ call[c].stage = "ground" /\ grounding' \in {call[c].root, Null} /\ Moves(c, "ask")
  /\ UNCHANGED <<root, models, history>>

\* Resolving again at every attempt, instead of once for the invocation.
AskedNow(c) == IF pool[Resolved(c, override)] = "client" THEN Resolved(c, override) ELSE Yaml
\* What one attempt is sent with: the locals of the invocation.
AskedModel(c) == call[c].model
Attempt(c) ==
  /\ call[c].stage = "ask"
  /\ UNCHANGED <<agentObject, models>>
\* _build_system_prompt reads the grounding from the agent object each time.
InPrompt == {grounding} \ {Null}
Heard(c) ==
  /\ asked' = [asked EXCEPT ![c] = @ \cup {AskedModel(c)}]
  /\ told' = [told EXCEPT ![c] = @ \cup InPrompt] /\ UNCHANGED touched

\* 429, a timeout or a network error is retried, MaxRetries attempts in all.
Retries(c) ==
  /\ Attempt(c) /\ Heard(c) /\ call[c].attempt + 1 < MaxRetries
  /\ Sets(c, [call[c] EXCEPT !.attempt = @ + 1])
\* Any other failure is raised, as is the last attempt's; an answer without
\* tool calls ends the loop.
Ended(c) == Attempt(c) /\ Ends(c)
AsksTools(c) ==
  /\ Attempt(c) /\ Heard(c) /\ call[c].kind = "execute"
  /\ Sets(c, [call[c] EXCEPT !.stage = "tool", !.attempt = 0])

\* _execute_tool reads the root, and the scope of the knowledge tools, from the
\* agent object; an error becomes text.
RootOfTool(c) == IF root = Null THEN "platform" ELSE root
Works(c) ==
  /\ touched' = [touched EXCEPT ![c] = @ \cup {RootOfTool(c)}]
  /\ told' = [told EXCEPT ![c] = @ \cup {RootOfTool(c)}] /\ UNCHANGED asked
UseTool(c) ==
  /\ call[c].stage = "tool"
  /\ \/ \* one of the answer's tools, not the last
        /\ Works(c) /\ UNCHANGED call
     \/ /\ call[c].turns + 1 < MaxTurns /\ Works(c)
        /\ Sets(c, [call[c] EXCEPT !.turns = @ + 1, !.stage = "ask"])
     \/ call[c].turns + 1 = MaxTurns /\ Ends(c)
  /\ UNCHANGED <<agentObject, models>>

Runs(c) ==
  \/ Resolve(c) \/ Start(c) \/ Ground(c) \/ Retries(c) \/ Ended(c)
  \/ AsksTools(c) \/ UseTool(c)
Next == AssignModel \/ ClearModel \/ Reload \/ \E c \in Calls : Begin(c) \/ Runs(c)
AgentSpec == Init /\ [][Next]_agentVars

(***************************************************************************)
(* Properties                                                              *)
(***************************************************************************)
\* Every attempt and every turn of an invocation goes to the model that
\* invocation resolved, whatever other invocations of the same agent run
\* with and whatever is assigned or reloaded meanwhile (process_task and
\* _call_anthropic: "no cross-pollination via self").
ModelStaysWithCall == \A c \in Calls : asked[c] \subseteq {call[c].model}

\* A tool works under the root looked up for the request it was called for
\* (process_task and ToolRegistry.execute: an agent task of one project cannot
\* write into another tree).
ToolsStayInProject == \A c \in Calls : touched[c] \subseteq {call[c].root}

\* The knowledge an agent works from for a project's request, the grounding in
\* its prompts and what its knowledge tools may search, is that project's or the
\* platform's craft, never another application's (_resolve_kb_for_request: "so it
\* can't reach another app's knowledge"; tools.py: the agent "cannot widen what
\* the Request granted").  The code does not keep it: scope and grounding are the
\* object's, as the root is in tools_in_project.  No run checks it.
KnowledgeStaysInProject ==
  \A c \in Calls : call[c].kind = "execute" /\ call[c].root \in Projects => told[c] \subseteq {call[c].root, "platform"}
==============================================================================
