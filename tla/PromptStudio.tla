------------------------------ MODULE PromptStudio -----------------------------
(***************************************************************************)
(* One session of the Prompt Studio: a generation, then refinements of the *)
(* variant the user has selected. A refinement reads the selection and the *)
(* last iteration, waits for the model for minutes, then inserts its       *)
(* variants one commit at a time under ids made of session, index and      *)
(* iteration; nothing stops two refinements, or a selection, meanwhile.    *)
(***************************************************************************)
EXTENDS Naturals, FiniteSets

CONSTANTS Calls, MaxIteration, MaxVariants, Null

VARIABLES
  session,  \* prompt_sessions exists
  selected, \* prompt_sessions.selected_variant_id: <<iteration, index>>
  variants, \* prompt_variants: <<iteration, index>> to the call and the variant it refined
  pending   \* the generate and refine calls: what they read and what is still to insert
studioVars == <<session, selected, variants, pending>>

Ids == (0..MaxIteration) \X (1..MaxVariants)
Stored == {id \in Ids : variants[id] # Null}
Idle == [stage |-> "idle"]

\* A variant has its call and the variant it refines; a call what it has read
\* and, once the model has answered, what is still to insert.
Variant == [by: Calls, from: {Null} \cup Ids]
Pending ==
  [stage: {"idle", "done"}]
    \cup [stage: {"model"}, iteration: 0..MaxIteration, from: {Null} \cup Ids]
    \cup [stage: {"insert"}, iteration: 0..MaxIteration, from: {Null} \cup Ids,
          next: 1..MaxVariants, last: 1..MaxVariants]

TypeOK ==
  /\ session \in BOOLEAN /\ selected \in {Null} \cup Ids
  /\ variants \in [Ids -> {Null} \cup Variant] /\ pending \in [Calls -> Pending]

Init ==
  /\ session = FALSE /\ selected = Null /\ variants = [id \in Ids |-> Null]
  /\ pending = [c \in Calls |-> Idle]

\* Generate: the session row is written before the model is asked.
Generate(c) ==
  /\ ~session /\ session' = TRUE
  /\ pending' = [pending EXCEPT ![c] = [stage |-> "model", iteration |-> 0, from |-> Null]]
  /\ UNCHANGED <<selected, variants>>

LastIteration == CHOOSE n \in 0..MaxIteration :
  /\ \E id \in Stored : id[1] = n
  /\ \A id \in Stored : id[1] <= n

\* Refine: the selected variant is among the session's, the iteration is new.
BeginRefine(c) ==
  /\ pending[c] = Idle /\ selected # Null /\ selected \in Stored /\ LastIteration < MaxIteration
  /\ pending' = [pending EXCEPT ![c] = [stage |-> "model", iteration |-> LastIteration + 1, from |-> selected]]
  /\ UNCHANGED <<session, selected, variants>>

\* The model's answer holds one valid variant or more; or there is none: 502.
Answers(c) ==
  /\ pending[c].stage = "model"
  /\ \/ \E n \in 1..MaxVariants : pending' = [pending EXCEPT ![c] =
          [stage |-> "insert", iteration |-> @.iteration, from |-> @.from, next |-> 1, last |-> n]]
     \/ pending' = [pending EXCEPT ![c] = [stage |-> "done"]]
  /\ UNCHANGED <<session, selected, variants>>

\* create_prompt_variant: the primary key refuses an id that is taken, the
\* call ends with an error and what it had inserted stays. A bug replaces it.
Row(c) == [by |-> c, from |-> pending[c].from]
Replace(c, id) == variants' = [variants EXCEPT ![id] = Row(c)]
Store(c, id) == variants' = [variants EXCEPT ![id] = IF @ = Null THEN Row(c) ELSE @]
InsertVariant(c) ==
  /\ pending[c].stage = "insert"
  /\ LET id == <<pending[c].iteration, pending[c].next>> IN
     /\ Store(c, id)
     /\ pending' = [pending EXCEPT ![c] =
          IF variants[id] # Null \/ @.next = @.last THEN [stage |-> "done"]
          ELSE [@ EXCEPT !.next = pending[c].next + 1]]
  /\ UNCHANGED <<session, selected>>

Select ==
  /\ \E id \in Stored : id # selected /\ selected' = id
  /\ UNCHANGED <<session, variants, pending>>

\* The worker dies before or between its inserts.
Crash(c) ==
  /\ pending[c].stage \in {"model", "insert"} /\ pending' = [pending EXCEPT ![c] = [stage |-> "done"]]
  /\ UNCHANGED <<session, selected, variants>>

Next == \/ \E c \in Calls : Generate(c) \/ BeginRefine(c) \/ Answers(c) \/ InsertVariant(c) \/ Crash(c)
        \/ Select
StudioSpec == Init /\ [][Next]_studioVars

(***************************************************************************)
(* Property                                                                *)
(***************************************************************************)
\* The variants of one iteration are the answer to one call, about one earlier
\* variant: two refinements that read the same last iteration do not mix their
\* variants, whatever is selected meanwhile and wherever they stop.
OneAnswerPerIteration == \A a, b \in Stored : a[1] = b[1] =>
  /\ variants[a] = variants[b]
  /\ a[1] > 0 => variants[a].from \in Stored /\ variants[a].from[1] < a[1]
==============================================================================
