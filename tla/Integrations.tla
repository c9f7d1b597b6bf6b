------------------------------ MODULE Integrations -----------------------------
(***************************************************************************)
(* What finalizing publishes outside: an epic and a feature become JIRA    *)
(* issues, a PRD or an API specification becomes a Confluence page. Each   *)
(* push makes sure the JIRA project (or the space) exists, looks up what   *)
(* it made before, creates or updates, and records the reference. Every    *)
(* one of these is an await; a push that fails is reported and forgotten,  *)
(* and finalizing again is the retry. JIRA and Confluence are the          *)
(* environment: their users delete issues, pages and projects, and a       *)
(* deleted project keeps its key unless it is purged.                      *)
(* Abstraction: texts, links and addresses are left out; push_task and the *)
(* status handler behind it are not modelled, since nothing calls          *)
(* push_task and the handler therefore never finds a task's mapping.       *)
(***************************************************************************)
EXTENDS Naturals, Sequences, FiniteSets

CONSTANTS Callers, Epics, Features, Docs, MaxObjects, MaxFaults, Null,
  ProjectOf, \* the project of each epic and document
  EpicOf,    \* the epic of each feature
  TitleOf,   \* the title of each document: its kind and version only
  KeyOf,     \* the JIRA key derived from each project's name: ten characters of it
  SpaceOf,   \* and the Confluence space
  Spares     \* the keys tried when the derived one is taken, per key

VARIABLES
  place,   \* JIRA projects and Confluence spaces, by key
  remote,  \* the issues and pages ever created
  mapping, \* integration_mappings
  call,    \* the push each caller is in the middle of
  faults,  \* bound on answers lost and processes killed
  excused  \* history: items whose second issue has a cause
integrationVars == <<place, remote, mapping, call, faults, excused>>

Items == Epics \cup Features \cup Docs
Projects == DOMAIN KeyOf
Keys == UNION {{KeyOf[p]} \cup {Spares[KeyOf[p]][n] : n \in DOMAIN Spares[KeyOf[p]]} : p \in Projects}
Places == Keys \cup {SpaceOf[p] : p \in Projects}

Object == [of : Items, in : Places, gone : BOOLEAN]
Reference == [ref : Nat, key : Places]
Push == [item : Items, step : {"place", "object", "record"}, key : Places \cup {Null},
         known : Nat \cup {Null}, ref : Nat \cup {Null}]

TypeOK ==
  /\ place \in [Places -> {"none", "live", "trash"}]
  /\ remote \in Seq(Object)
  /\ mapping \in [Items -> Reference \cup {Null}]
  /\ \A x \in Items : mapping[x] # Null => mapping[x].ref \in DOMAIN remote
  /\ call \in [Callers -> Push \cup {Null}]
  /\ faults \in 0..MaxFaults /\ excused \subseteq Items

Init ==
  /\ place = [k \in Places |-> "none"] /\ remote = <<>> /\ mapping = [x \in Items |-> Null]
  /\ call = [c \in Callers |-> Null] /\ faults = 0 /\ excused = {}

Set(c, v) == call' = [call EXCEPT ![c] = v]
\* get_integration_mapping: a mutant looks it up under the fresh mapping_id.
KnownById(x) == Null
Known(x) == IF mapping[x] = Null THEN Null ELSE mapping[x].ref

(***************************************************************************)
(* The finalize endpoints                                                  *)
(***************************************************************************)
Begin(c, x, at) ==
  /\ call[c] = Null
  /\ Set(c, [item |-> x, step |-> IF at = Null THEN "place" ELSE "object", key |-> at,
             known |-> IF at = Null THEN Null ELSE Known(x), ref |-> Null])
  /\ excused' = IF \E d \in Callers : call[d] # Null /\ call[d].item = x THEN excused \cup {x} ELSE excused
  /\ UNCHANGED <<place, remote, mapping, faults>>
FinalizeEpic(c, e) == Begin(c, e, Null)
\* A feature is pushed under its epic's issue, to the JIRA project recorded with it.
FinalizeFeature(c, f) == mapping[EpicOf[f]] # Null /\ Begin(c, f, mapping[EpicOf[f]].key)
FinalizeDocument(c, d) == Begin(c, d, Null)

(***************************************************************************)
(* The project or space                                                    *)
(***************************************************************************)
\* Two projects whose names begin alike have one key, hence one place. JIRA
\* answers "already exists" for a deleted project as well.
PlaceOf(x) == IF x \in Docs THEN SpaceOf[ProjectOf[x]] ELSE KeyOf[ProjectOf[x]]
Opens(c) ==
  LET k == PlaceOf(call[c].item) IN
  /\ call[c] # Null /\ call[c].step = "place"
  /\ place' = IF place[k] = "none" THEN [place EXCEPT ![k] = "live"] ELSE place
  /\ Set(c, [call[c] EXCEPT !.step = "object", !.key = k, !.known = Known(call[c].item)])
  /\ UNCHANGED <<remote, mapping, faults, excused>>
EnsureProject(c) == call[c] # Null /\ call[c].item \in Epics /\ Opens(c)
EnsureSpace(c) == call[c] # Null /\ call[c].item \in Docs /\ Opens(c)

(***************************************************************************)
(* The issue or page                                                       *)
(***************************************************************************)
Pushing(c, items) == call[c] # Null /\ call[c].step = "object" /\ call[c].item \in items
Reachable(i) == ~remote[i].gone /\ place[remote[i].in] = "live"
Creates(c, k) ==
  /\ Len(remote) < MaxObjects
  /\ remote' = Append(remote, [of |-> call[c].item, in |-> k, gone |-> FALSE])
  /\ Set(c, [call[c] EXCEPT !.step = "record", !.ref = Len(remote) + 1])
Ends(c) == Set(c, Null) /\ UNCHANGED <<place, remote>>

\* An update that fails is not followed by a creation, for an issue.
UpdateIssue(c) ==
  /\ Pushing(c, Epics \cup Features) /\ call[c].known # Null
  /\ IF Reachable(call[c].known)
     THEN Set(c, [call[c] EXCEPT !.step = "record", !.ref = call[c].known]) /\ UNCHANGED <<place, remote>>
     ELSE Ends(c)
  /\ UNCHANGED <<mapping, faults, excused>>

\* upsert_epic: when the project is gone, the key and then the spare ones are
\* created in turn, and the first that JIRA accepts gets the issue.
Tried(k) == <<k>> \o Spares[k]
Recreatable(k) == {n \in DOMAIN Tried(k) : place[Tried(k)[n]] = "none"}
Recreated(k) == Tried(k)[CHOOSE n \in Recreatable(k) : \A m \in Recreatable(k) : n <= m]
CreateIssue(c) ==
  LET k == call[c].key IN
  /\ Pushing(c, Epics \cup Features) /\ call[c].known = Null
  /\ \/ place[k] = "live" /\ Creates(c, k) /\ UNCHANGED place
     \/ /\ place[k] # "live" /\ call[c].item \in Epics /\ Recreatable(k) # {}
        /\ Creates(c, Recreated(k)) /\ place' = [place EXCEPT ![Recreated(k)] = "live"]
     \/ place[k] # "live" /\ (call[c].item \in Features \/ Recreatable(k) = {}) /\ Ends(c)
  /\ UNCHANGED <<mapping, faults, excused>>

\* upsert_page: a page that was deleted is created again; Confluence refuses a
\* second page of one title in a space.
TitleTaken(k, d) == \E i \in DOMAIN remote : remote[i].in = k /\ ~remote[i].gone /\ TitleOf[remote[i].of] = TitleOf[d]
UpsertPage(c) ==
  /\ Pushing(c, Docs) /\ UNCHANGED <<place, mapping, faults, excused>>
  /\ LET known == call[c].known
         d == call[c].item IN
     IF known # Null /\ ~remote[known].gone
     THEN Set(c, [call[c] EXCEPT !.step = "record", !.ref = known]) /\ UNCHANGED remote
     ELSE IF TitleTaken(call[c].key, d) THEN Set(c, Null) /\ UNCHANGED remote
     ELSE Creates(c, call[c].key)

\* upsert_integration_mapping: one row per item, whatever was there; the JIRA
\* key recorded is the derived one, wherever the issue was created.
Record(c) ==
  /\ call[c] # Null /\ call[c].step = "record"
  /\ mapping' = [mapping EXCEPT ![call[c].item] = [ref |-> call[c].ref, key |-> call[c].key]]
  /\ Set(c, Null) /\ UNCHANGED <<place, remote, faults, excused>>

(***************************************************************************)
(* The environment                                                         *)
(***************************************************************************)
\* A call fails or times out, its answer is lost, or the process dies.
Fault == faults < MaxFaults /\ faults' = faults + 1
Lost(c) ==
  /\ Fault /\ call[c] # Null /\ Set(c, Null) /\ UNCHANGED <<place, remote, mapping>>
  /\ excused' = IF call[c].step = "record" THEN excused \cup {call[c].item} ELSE excused
Deleted(i) == Fault /\ remote' = [remote EXCEPT ![i].gone = TRUE] /\ UNCHANGED <<place, mapping, call, excused>>
PlaceDeleted(k) ==
  /\ Fault /\ place[k] = "live" /\ \E s \in {"trash", "none"} : place' = [place EXCEPT ![k] = s]
  /\ UNCHANGED <<remote, mapping, call, excused>>

Next ==
  \/ \E c \in Callers, e \in Epics : FinalizeEpic(c, e)
  \/ \E c \in Callers, f \in Features : FinalizeFeature(c, f)
  \/ \E c \in Callers, d \in Docs : FinalizeDocument(c, d)
  \/ \E c \in Callers : EnsureProject(c) \/ EnsureSpace(c) \/ UpdateIssue(c) \/ CreateIssue(c) \/ UpsertPage(c)
                        \/ Record(c) \/ Lost(c)
  \/ \E i \in DOMAIN remote : ~remote[i].gone /\ Deleted(i)
  \/ \E k \in Keys : PlaceDeleted(k)
IntegrationSpec == Init /\ [][Next]_integrationVars

(***************************************************************************)
(* Property                                                                *)
(***************************************************************************)
\* A document never has two live pages, whatever pushes of it overlap and
\* whichever answers are lost: Confluence
\* refuses the second one its title (upsert_page). For an epic or a feature less holds: pushing it again
\* makes no second issue, even when users deleted the first or its project,
\* unless two pushes overlapped or the answer that named the first was lost
\* (upsert_epic, upsert_story).
MadeFor(x) == {i \in DOMAIN remote : remote[i].of = x}
OneLivePage(d) == Cardinality({i \in MadeFor(d) : ~remote[i].gone}) <= 1
OneObjectEach ==
  /\ \A d \in Docs : OneLivePage(d)
  /\ \A x \in Epics \cup Features : Cardinality(MadeFor(x)) > 1 => x \in excused
==============================================================================
