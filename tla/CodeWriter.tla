------------------------------ MODULE CodeWriter ------------------------------
(***************************************************************************)
(* From what the code agents emit to what is pushed, for one request: the  *)
(* development cycles, the write of their file blocks to the project's     *)
(* working tree under the snapshot guard, the pick-up of files they edited *)
(* with a tool, the commit, and the rework each failure asks for.          *)
(*                                                                         *)
(* An agent answers with whole files ("Full Source" blocks, not yet on     *)
(* disk) or edits the disk through search_replace or file_write and names  *)
(* the file under "Files Modified", or forgets to.                         *)
(***************************************************************************)
EXTENDS Naturals, Sequences

CONSTANTS
  Files,
  Guarded,   \* files under a guarded prefix the description does not name
  Exempt,    \* files the line-count guard leaves alone
  Agents,    \* the number of code agents, in the order the stage starts them
  MaxRework  \* 3 in the code

VARIABLES
  disk,     \* the working tree
  outputs,  \* the subtasks' output texts, in the order of their starts
  todo,     \* agents of this cycle that have not answered
  stage,
  bundle,   \* artifacts["materialized_files"]
  refused,  \* _recent_drop_rejections
  verdict,  \* what the last materialisation told the rework
  rework,   \* rework cycles spent
  pushed,
  changes,  \* changes so far, which also name them
  newest,   \* history: the latest change to each file
  foreign   \* history: files others wrote since they were last materialised

writerVars == <<disk, outputs, todo, stage, bundle, refused, verdict, rework, pushed, changes, newest, foreign>>

MaxChanges == 2 + Agents * (MaxRework + 1)
\* A fragment carries a marker such as "rest of file unchanged".
Version == [id : 1..MaxChanges, size : {"short", "long", "fragment"}]
Missing == [id |-> 0, size |-> "short"]
NoText == [text |-> FALSE, full |-> <<>>, listed |-> {}]
Output == [text : BOOLEAN, full : UNION {[S -> Version] : S \in SUBSET Files}, listed : SUBSET Files]
Absent == [f \in Files |-> Missing]
Held(map) == {f \in Files : map[f] # Missing}

TypeOK ==
  /\ disk \in [Files -> Version \cup {Missing}] /\ bundle \in [Files -> Version \cup {Missing}]
  /\ pushed \in [Files -> Version \cup {Missing}]
  /\ outputs \in Seq(Output) /\ Len(outputs) <= Agents * (MaxRework + 1) /\ todo \subseteq DOMAIN outputs
  /\ stage \in {"develop", "materialize", "gates", "commit", "pushed", "skipped", "failed"}
  /\ refused \in [Files -> 0..MaxChanges] /\ newest \in [Files -> 0..MaxChanges]
  /\ verdict \in {"ok", "marker", "drop", "loop", "nothing", "checks"}
  /\ rework \in 0..MaxRework /\ changes \in 0..MaxChanges /\ foreign \subseteq Files

Blank == [i \in 1..Agents |-> NoText]

Init ==
  /\ disk \in [Files -> {Missing, [id |-> 1, size |-> "long"]}]
  /\ outputs = Blank /\ todo = 1..Agents /\ stage = "develop"
  /\ bundle = Absent /\ refused = [f \in Files |-> 0] /\ verdict = "ok" /\ rework = 0
  /\ pushed = Absent /\ changes = 1 /\ foreign = {}
  /\ newest = [f \in Files |-> disk[f].id]

(***************************************************************************)
(* A cycle of the development stage                                        *)
(***************************************************************************)
Emits(i, f) ==
  \E size \in {"short", "long", "fragment"} :
    /\ outputs' = [outputs EXCEPT ![i] =
         [text |-> TRUE, listed |-> {},
          full |-> [g \in {f} |-> [id |-> changes + 1, size |-> size]]]]
    /\ UNCHANGED disk

\* The tools keep the size of a file they edit and write whole new ones.
Edits(i, f) ==
  /\ disk' = [disk EXCEPT ![f] = [@ EXCEPT !.id = changes + 1]]
  /\ \E listed \in {{}, {f}} :
       outputs' = [outputs EXCEPT ![i] = [text |-> TRUE, full |-> <<>>, listed |-> listed]]

\* An agent that fails leaves no text; one that only talks may still list a
\* file, be it on disk or not.
Work(i) ==
  /\ stage = "develop" /\ i \in todo
  /\ \/ \E f \in Files :
          /\ Emits(i, f) \/ Edits(i, f)
          /\ newest' = [newest EXCEPT ![f] = changes + 1] /\ changes' = changes + 1
     \/ /\ \/ UNCHANGED outputs
           \/ \E listed \in {{}} \cup {{f} : f \in Files} :
                outputs' = [outputs EXCEPT ![i] = [text |-> TRUE, full |-> <<>>, listed |-> listed]]
        /\ UNCHANGED <<disk, newest, changes>>
  /\ todo' = todo \ {i}
  /\ stage' = IF todo' = {} THEN "materialize" ELSE stage
  /\ UNCHANGED <<bundle, refused, verdict, rework, pushed, foreign>>

\* Back to the development stage while the budget lasts.
Reworks ==
  IF rework < MaxRework
  THEN /\ stage' = "develop" /\ rework' = rework + 1
       /\ outputs' = outputs \o Blank /\ todo' = Len(outputs) + 1 .. Len(outputs) + Agents
  ELSE stage' = "failed" /\ UNCHANGED <<rework, outputs, todo>>

(***************************************************************************)
(* materialize_files                                                       *)
(***************************************************************************)
\* Mutant: what the last cycle put out.
OutputsOfCycle == SubSeq(outputs, Len(outputs) - Agents + 1, Len(outputs))

\* _collect_agent_outputs: of every cycle, so that a file only an early one touched survives.
Outputs == outputs

Answers == {Outputs[i] : i \in DOMAIN Outputs}

\* _validate_safe_overwrite: the verdict on a block that meets the file.
Judge(f, old, new, seen) ==
  CASE old = Missing -> "ok"
    [] new.size = "fragment" -> "marker"
    [] old.size = "long" /\ new.size = "short" /\ f \notin Exempt ->
         IF seen = new.id THEN "loop" ELSE "drop"
    [] OTHER -> "ok"

\* Blocks laid over what was there.
Laid(full, map) == [f \in Files |-> IF f \in DOMAIN full THEN full[f] ELSE map[f]]

\* _parse_and_write_files: one output's blocks, all or none; a refusal ends the fold.
Write(s, out) ==
  LET judged == [f \in DOMAIN out.full |-> Judge(f, s.disk[f], out.full[f], s.refused[f])]
      bad == {f \in DOMAIN judged : judged[f] # "ok"}
  IN IF s.verdict # "ok" THEN s
     ELSE IF bad = {} THEN [s EXCEPT !.disk = Laid(out.full, s.disk), !.map = Laid(out.full, s.map)]
     ELSE LET f == CHOOSE g \in bad : TRUE
          IN [s EXCEPT !.verdict = judged[f],
                       !.refused[f] = IF judged[f] = "marker" THEN @ ELSE out.full[f].id]

\* The first n outputs, in the order of their starts.
After[n \in 0..Len(Outputs)] ==
  IF n = 0 THEN [disk |-> disk, map |-> Absent, refused |-> refused, verdict |-> "ok"]
  ELSE Write(After[n - 1], Outputs[n])

Written == After[Len(Outputs)]

\* Files Modified: read back from disk unless a block brought the file; one
\* that is not there is skipped.
Collected ==
  LET listed == UNION {out.listed : out \in Answers}
  IN [f \in Files |-> IF Written.map[f] = Missing /\ f \in listed THEN Written.disk[f] ELSE Written.map[f]]

\* Guarded files stay behind on disk, out of the commit.
Bundle == [f \in Files |-> IF f \in Guarded THEN Missing ELSE Collected[f]]

\* A materialisation that fails leaves on disk what it wrote before.
Materialize ==
  /\ stage = "materialize" /\ \E out \in Answers : out.text
  /\ \E checks \in BOOLEAN :
       verdict' = IF Written.verdict # "ok" THEN Written.verdict
                  ELSE IF Held(Bundle) = {} THEN "nothing" ELSE IF checks THEN "ok" ELSE "checks"
  /\ disk' = Written.disk
  /\ IF verdict' = "ok"
     THEN /\ bundle' = Bundle /\ refused' = [f \in Files |-> 0] /\ foreign' = {}
          /\ stage' = "gates" /\ UNCHANGED <<rework, outputs, todo>>
     ELSE refused' = Written.refused /\ Reworks /\ UNCHANGED <<bundle, foreign>>
  /\ UNCHANGED <<pushed, changes, newest>>

SkipMaterialize ==
  /\ stage = "materialize" /\ \A out \in Answers : ~out.text
  /\ stage' = "gates"
  /\ UNCHANGED <<disk, outputs, todo, bundle, refused, verdict, rework, pushed, changes, newest, foreign>>

(***************************************************************************)
(* Review, test and commit                                                 *)
(***************************************************************************)
Gates ==
  /\ stage = "gates"
  /\ \/ stage' = "commit" /\ UNCHANGED <<rework, outputs, todo>>
     \/ Reworks
  /\ UNCHANGED <<disk, bundle, refused, verdict, pushed, changes, newest, foreign>>

\* _commit_to_github_only on the files of the last materialisation.
Commit ==
  /\ stage = "commit"
  /\ \/ /\ stage' = IF Held(bundle) = {} THEN "skipped" ELSE "pushed"
        /\ pushed' = bundle /\ UNCHANGED <<rework, outputs, todo>>
     \/ Held(bundle) # {} /\ Reworks /\ UNCHANGED pushed
  /\ UNCHANGED <<disk, bundle, refused, verdict, changes, newest, foreign>>

\* Requests of one project share its working tree.
Foreign(f) ==
  /\ stage \in {"gates", "commit"}
  /\ disk' = [disk EXCEPT ![f] = [id |-> MaxChanges, size |-> "long"]]
  /\ foreign' = foreign \cup {f}
  /\ UNCHANGED <<outputs, todo, stage, bundle, refused, verdict, rework, pushed, changes, newest>>

Next ==
  \/ \E i \in todo : Work(i)
  \/ Materialize \/ SkipMaterialize \/ Gates \/ Commit
  \/ \E f \in Files : Foreign(f)

Spec == Init /\ [][Next]_writerVars

(***************************************************************************)
(* Properties                                                              *)
(***************************************************************************)
Sent == UNION {DOMAIN outputs[i].full : i \in DOMAIN outputs}
Listed == UNION {outputs[i].listed : i \in DOMAIN outputs}

\* After any number of reworks the push holds what some cycle sent or listed,
\* the guarded files apart, each as it was on disk for the reviewer and the
\* tests, and every file an agent sent is in it; one that was only listed and is
\* not on disk is left out.
PushedIsReviewed ==
  stage = "pushed" =>
    /\ Held(pushed) \subseteq (Sent \cup Listed) \ Guarded
    /\ \A f \in (Sent \cup Listed) \ (Guarded \cup foreign) : pushed[f] = disk[f]
    /\ Sent \ Guarded \subseteq Held(pushed)

\* "correct: latest emitted version wins" (orchestrator.py, the collection of
\* the outputs): a materialisation that succeeds leaves each file it carries at
\* the latest change an agent made to it.  The code does not keep it: the whole files
\* of earlier cycles go over what later ones edited on disk.  No run checks it.
LatestVersionWins ==
  stage = "gates" => \A f \in Held(bundle) \ foreign : bundle[f].id = newest[f]

=============================================================================
