------------------------------ MODULE MCAuthoring ------------------------------
(***************************************************************************)
(* The small instance of Authoring that TLC explores, part by part; every  *)
(* step of MCSpec is one of Authoring's Spec.                              *)
(***************************************************************************)
EXTENDS Authoring, FiniteSets, TLC

CONSTANTS one, two, this, that, sole

TwoCallers == {one, two}
SoleCaller == {sole}
ThreeRefinements == {one, two, sole}
TwoNames == {this, that}
ThreeEpisodes == {this, that, sole}
AllSpaces == {"personal", "platform", "p"}
\* Two projects whose names shorten to one key, and a document of each.
Owner == "e" :> "p" @@ "m" :> "p" @@ "n" :> "q"
Parent == "f" :> "e"
Title == "m" :> "v1" @@ "n" :> "v1"
SameKey == "p" :> "K" @@ "q" :> "K"
SameSpace == "p" :> "S" @@ "q" :> "S"
TwoSpares == "K" :> <<"K1", "K2">>
SameAccount == one :> "p" @@ two :> "p"

(***************************************************************************)
(* The plan's part is cut in two: everything by one generator at a time on *)
(* one feature and two tasks, and, from the state in which pass 2 has made *)
(* a second feature, the steps of pass 3 side by side on three tasks.      *)
(***************************************************************************)
Busy == {c \in Planners : gen[c].at # "idle"}

OneAtATime ==
  /\ Cardinality(Busy') <= 1 /\ unchecked' = {}
  /\ feature'[2].version = 0 /\ task'[3].version = 0

SecondFeature ==
  /\ feature[2].version = 0 /\ feature'[2].status = "draft" /\ Busy' = {}
  /\ epic[1].status = "finalized" /\ feature[1].status = "finalized" /\ task[1].version = 0

SideBySide ==
  /\ feature[2].version # 0 /\ UNCHANGED <<epic, feature>>
  /\ \A c \in Busy' : gen'[c].op = "tasks" /\ gen'[c].at # "delete" /\ Cardinality(gen'[c].todo) <= 1
  /\ \A t \in DOMAIN task : task'[t].status \in {"draft", "absent"}

MCNext == Next /\ (part = "plan" => OneAtATime \/ SecondFeature \/ SideBySide)
MCSpec == Init /\ [][MCNext]_vars

Sym == Permutations({one, two}) \cup Permutations({this, that})
================================================================================
