---------------------------- MODULE PlanningProofs ----------------------------
(***************************************************************************)
(* What holds of each part of Planning whatever the numbers of calls, rows *)
(* and objects: the inductive invariants of documents and briefs, of the plan, *)
(* of the projects, of the prompt studio and of what is published, the lemma *)
(* for each action that keeps them, and the properties they imply.         *)
(* AuthoringProofs puts the parts together.                                *)
(***************************************************************************)
EXTENDS Planning, FiniteSetTheorems, WellFoundedInduction, SequenceTheorems, TLAPS

\* A counter below its bound may count once more.
LEMMA OneMoreCounts == ASSUME NEW bound \in Nat, NEW n \in 0..bound, n < bound PROVE n + 1 \in 0..bound
OBVIOUS

\* A set of naturals has a least member, and one that is bounded a largest.
LEMMA LeastMember == ASSUME NEW T, T \subseteq Nat, T # {} PROVE \E x \in T : \A y \in T : x <= y
<1> DEFINE R == OpToRel(<, Nat)
<1>1. IsWellFoundedOn(R, Nat)
  BY NatLessThanWellFounded
<1>2. \A x, y \in Nat : y < x => <<y, x>> \in R
  BY DEF OpToRel
<1> HIDE DEF R
<1>3. PICK x \in T : \A y \in T : ~ (<<y, x>> \in R)
  BY <1>1, WFMin
<1>4. ASSUME NEW y \in T PROVE x <= y
  <2>1. x \in Nat /\ y \in Nat
    BY <1>4
  <2>2. ~ (y < x)
    BY <1>2, <1>3, <2>1
  <2> QED
    BY <2>1, <2>2
<1> QED
  BY <1>4

LEMMA LargestMember ==
  ASSUME NEW bound \in Nat, NEW T, T \subseteq 0..bound, T # {} PROVE \E x \in T : \A y \in T : y <= x
<1> DEFINE S == {z \in Nat : \E y \in T : z = bound - y}
<1>1. S \subseteq Nat
  OBVIOUS
<1>2. \A y \in T : bound - y \in S
  OBVIOUS
<1>3. S # {}
  BY <1>2
<1>4. PICK z \in S : \A u \in S : z <= u
  <2> HIDE DEF S
  <2> QED
    BY <1>1, <1>3, LeastMember
<1>5. PICK x \in T : z = bound - x
  OBVIOUS
<1>6. ASSUME NEW y \in T PROVE y <= x
  <2>1. bound - x <= bound - y
    BY <1>2, <1>4, <1>5
  <2>2. x \in 0..bound /\ y \in 0..bound
    BY <1>5
  <2> QED
    BY <2>1, <2>2
<1> QED
  BY <1>6

(***************************************************************************)
(* The documents                                                           *)
(***************************************************************************)
DocRow == [kind: Written!Kinds, version: 0..Generations, status: Written!DocStatus, text: {"blank", "agent", "user"}]
DocCall == [at: {"idle", "list", "insert", "ask", "save", "seal"}, kind: Written!Kinds,
            id: Written!Artifacts \cup {Nobody}, version: 0..Generations, seals: BOOLEAN]

\* Rows are used in the order of their ids, and no version is above its row's.
RowsInOrder ==
  /\ \A d \in Written!Artifacts : row[d].version <= d /\ (row[d].status # "absent" => row[d].version > 0)
  /\ \A d \in Written!Used : \A e \in Written!Artifacts \ Written!Used : d < e

\* The version a call inserts fits every free row; a row it holds is of its kind.
Fits(a) ==
  /\ a.at = "insert" => a.version > 0 /\ \A d \in Written!Artifacts \ Written!Used : a.version <= d
  /\ a.at \in {"ask", "save", "seal"} => a.id \in Written!Used /\ row[a.id].kind = a.kind

DocInv ==
  /\ Written!TypeOK /\ RowsInOrder /\ \A c \in Callers : Fits(docCall[c])
  /\ Written!DocumentsInOrder

LEMMA DocFacts ==
  ASSUME DocInv
  PROVE  /\ row \in [Written!Artifacts -> DocRow] /\ docCall \in [Callers -> DocCall]
         /\ \A d \in Written!Artifacts : row[d] \in DocRow
         /\ \A c \in Callers : docCall[c] \in DocCall
         /\ brief \in BOOLEAN /\ executor \in BOOLEAN /\ orphans \subseteq Written!Artifacts
         /\ \A d \in Written!Used : d \in Written!Artifacts
BY DEF DocInv, Written!TypeOK, DocRow, DocCall, Written!Used

LEMMA DocTypes ==
  ASSUME row \in [Written!Artifacts -> DocRow], docCall \in [Callers -> DocCall],
         brief \in BOOLEAN, executor \in BOOLEAN, orphans \subseteq Written!Artifacts
  PROVE  Written!TypeOK
BY DEF Written!TypeOK, DocRow, DocCall

\* A step that leaves the rows alone and changes one call that waits for no agent.
LEMMA DocMoves ==
  ASSUME DocInv, NEW c \in Callers, docCall[c].at # "ask", NEW a \in DocCall, Fits(a),
         docCall' = [docCall EXCEPT ![c] = a], brief' \in BOOLEAN, UNCHANGED <<row, executor, orphans>>
  PROVE  DocInv'
<1>1. docCall' \in [Callers -> DocCall] /\ \A e \in Callers : docCall'[e] = IF e = c THEN a ELSE docCall[e]
  BY DocFacts
<1>2. Written!Used' = Written!Used
  BY DEF Written!Used
<1>3. Written!TypeOK'
  BY <1>1, DocFacts DEF Written!TypeOK, DocRow, DocCall
<1>4. RowsInOrder'
  BY <1>2 DEF DocInv, RowsInOrder
<1>5. \A e \in Callers : Fits(docCall[e])'
  BY <1>1, <1>2 DEF DocInv, Fits
<1>6. Written!DocumentsInOrder'
  BY <1>1 DEF DocInv, Written!DocumentsInOrder
<1> QED
  BY <1>3, <1>4, <1>5, <1>6 DEF DocInv

\* Rows keep their kind and version and only disappear; calls go on with the
\* row they hold, or end.
DocRowsKept ==
  \A d \in Written!Artifacts :
    /\ row'[d].version = row[d].version /\ row'[d].kind = row[d].kind
    /\ row'[d].status # "absent" => row[d].status # "absent"
CallsKept ==
  \A c \in Callers :
    \/ docCall'[c] = docCall[c] \/ docCall'[c].at = "idle"
    \/ docCall[c].at = "save" /\ docCall'[c].at = "seal" /\ docCall'[c].id = docCall[c].id /\ docCall'[c].kind = docCall[c].kind

LEMMA RowsMove ==
  ASSUME DocInv, row' \in [Written!Artifacts -> DocRow], docCall' \in [Callers -> DocCall],
         DocRowsKept, CallsKept, UNCHANGED <<brief, executor>>, orphans' \subseteq Written!Artifacts,
         Written!DocumentsInOrder'
  PROVE  DocInv'
<1>1. Written!Used' = Written!Used
  BY DEF Written!Used, DocRowsKept
<1>2. Written!TypeOK'
  BY DocFacts DEF Written!TypeOK, DocRow, DocCall
<1>3. RowsInOrder'
  BY <1>1 DEF DocInv, RowsInOrder, DocRowsKept
<1>4. ASSUME NEW c \in Callers PROVE Fits(docCall[c])'
  <2>1. Fits(docCall[c])
    BY DEF DocInv
  <2>2. \A d \in Written!Used : row'[d].kind = row[d].kind
    BY DEF DocRowsKept, Written!Used
  <2> QED
    BY <1>1, <2>1, <2>2 DEF Fits, CallsKept
<1> QED
  BY <1>2, <1>3, <1>4 DEF DocInv

LEMMA NoCallTyped == Written!NoCall \in DocCall /\ Written!NoCall.at = "idle" /\ Fits(Written!NoCall)
<1>1. 0 \in 0..Generations
  BY LimitsAssumption
<1> QED
  BY <1>1 DEF Written!NoCall, DocCall, Written!Kinds, Fits

\* A row's text or status is set; whoever waits for it has its answer.
LEMMA Ends ==
  ASSUME DocInv, NEW c \in Callers, NEW d \in Written!Used, NEW r \in DocRow, row' = [row EXCEPT ![d] = r],
         docCall[c].id = d, docCall[c].at \in {"ask", "save"},
         r.kind = row[d].kind, r.version = row[d].version,
         r.status # "absent" => r.status = row[d].status /\ r.text # "blank",
         \/ docCall' = [docCall EXCEPT ![c] = Written!NoCall]
         \/ docCall[c].at = "save" /\ docCall' = [docCall EXCEPT ![c].at = "seal"],
         UNCHANGED <<brief, executor, orphans>>
  PROVE  DocInv'
<1>1. d \in Written!Artifacts /\ row' \in [Written!Artifacts -> DocRow]
      /\ \A e \in Written!Artifacts : row'[e] = IF e = d THEN r ELSE row[e]
  BY DocFacts
<1>2. DocRowsKept
  BY <1>1 DEF DocRowsKept
<1>3. docCall' \in [Callers -> DocCall] /\ CallsKept
      /\ \A e \in Callers : e # c => docCall'[e] = docCall[e]
  <2>1. CASE docCall' = [docCall EXCEPT ![c] = Written!NoCall]
    BY <2>1, NoCallTyped, DocFacts DEF CallsKept
  <2>2. CASE docCall[c].at = "save" /\ docCall' = [docCall EXCEPT ![c].at = "seal"]
    <3>1. docCall[c] \in DocCall
      BY DocFacts
    <3> DEFINE a == [docCall[c] EXCEPT !.at = "seal"]
    <3>2. a \in DocCall /\ a.at = "seal" /\ a.id = docCall[c].id /\ a.kind = docCall[c].kind
      BY <3>1 DEF DocCall
    <3>3. docCall' = [docCall EXCEPT ![c] = a]
      BY <2>2, DocFacts
    <3> HIDE DEF a
    <3> QED
      BY <2>2, <3>2, <3>3, DocFacts DEF CallsKept
  <2> QED
    BY <2>1, <2>2
<1>4. Written!DocumentsInOrder'
  <2>1. \A e \in Written!Artifacts : row'[e].status = "finalized"
          => row[e].status = "finalized" /\ row'[e].kind = row[e].kind
    BY <1>1
  <2>2. ASSUME NEW e \in Written!Artifacts, row'[e].status # "absent", row'[e].text = "blank"
        PROVE  e \in orphans' \/ \E x \in Callers : docCall'[x].at = "ask" /\ docCall'[x].id = e
    <3>1. e # d /\ row'[e] = row[e]
      BY <1>1, <2>2
    <3>2. e \in orphans \/ \E x \in Callers : docCall[x].at = "ask" /\ docCall[x].id = e
      BY <2>2, <3>1 DEF DocInv, Written!DocumentsInOrder
    <3> QED
      BY <1>3, <3>1, <3>2
  <2> QED
    BY <2>1, <2>2 DEF DocInv, Written!DocumentsInOrder
<1>5. orphans' \subseteq Written!Artifacts
  BY DocFacts
<1> QED
  BY <1>1, <1>2, <1>3, <1>4, <1>5, RowsMove

LEMMA DocInit == ASSUME Written!Init PROVE DocInv
<1>1. 0 \in 0..Generations
  BY LimitsAssumption
<1>2. \A d \in Written!Artifacts : row[d].version = 0 /\ row[d].status = "absent" /\ d \in Nat
  BY DEF Written!Init, Written!Artifacts
<1>3. Written!Used = {}
  BY <1>2 DEF Written!Used
<1>4. [kind |-> "prd", version |-> 0, status |-> "absent", text |-> "blank"] \in DocRow
  BY <1>1 DEF DocRow, Written!Kinds, Written!DocStatus
<1>5. Written!TypeOK
  BY <1>1, <1>4, NoCallTyped DEF Written!Init, Written!TypeOK, DocRow, DocCall
<1>6. RowsInOrder /\ Written!DocumentsInOrder
  BY <1>2, <1>3 DEF RowsInOrder, Written!DocumentsInOrder
<1>7. \A c \in Callers : Fits(docCall[c])
  BY NoCallTyped DEF Written!Init
<1> QED
  BY <1>5, <1>6, <1>7 DEF DocInv

\* The latest version is below every free row.
LEMMA LatestFits ==
  ASSUME DocInv, NEW k \in Written!Kinds, Written!Used # Written!Artifacts
  PROVE  /\ Written!LatestVersion(k) \in 0..Generations /\ Written!LatestVersion(k) + 1 \in 0..Generations
         /\ \A e \in Written!Artifacts \ Written!Used : Written!LatestVersion(k) + 1 <= e
<1>1. PICK e \in Written!Artifacts \ Written!Used : TRUE
  BY DEF Written!Used
<1>2. e \in 1..Generations /\ Generations \in Nat
  BY <1>1, LimitsAssumption DEF Written!Artifacts
<1>3. CASE Written!Rows(k) = {}
  BY <1>2, <1>3 DEF Written!LatestVersion, Written!Artifacts
<1>4. CASE Written!Rows(k) # {}
  <2> DEFINE T == {row[d].version : d \in Written!Rows(k)}
  <2>1. \A d \in Written!Rows(k) : d \in Written!Artifacts /\ row[d] \in DocRow /\ d \in Written!Used
    BY DocFacts DEF Written!Rows, Written!Used, DocInv, RowsInOrder
  <2>2. \A d \in Written!Rows(k) : row[d].version \in 0..Generations
    BY <2>1 DEF DocRow
  <2>3. T \subseteq 0..Generations /\ T # {} /\ \A d \in Written!Rows(k) : row[d].version \in T
    BY <1>4, <2>2
  <2>4. \E v \in T : \A w \in T : w <= v
    <3> HIDE DEF T
    <3> QED
      BY <1>2, <2>3, LargestMember
  <2>5. \E v \in T : \A d \in Written!Rows(k) : row[d].version <= v
    BY <2>3, <2>4
  <2>6. Written!LatestVersion(k) \in T
    BY <1>4, <2>5 DEF Written!LatestVersion
  <2>7. PICK d \in Written!Rows(k) : Written!LatestVersion(k) = row[d].version
    BY <2>6
  <2>8. row[d].version \in 0..Generations /\ row[d].version <= d /\ d \in 1..Generations
    BY <2>1, <2>2, <2>7 DEF DocInv, RowsInOrder, Written!Artifacts
  <2>9. \A x \in Written!Artifacts \ Written!Used : d < x
    BY <2>1, <2>7 DEF DocInv, RowsInOrder
  <2>10. \A x \in Written!Artifacts \ Written!Used : x \in 1..Generations
    BY DEF Written!Artifacts
  <2>11. \A x \in Written!Artifacts \ Written!Used : row[d].version + 1 <= x
    BY <2>8, <2>9, <2>10
  <2> QED
    BY <1>1, <1>2, <2>7, <2>8, <2>10, <2>11
<1> QED
  BY <1>3, <1>4

LEMMA DocInsert == ASSUME DocInv, NEW c \in Callers, Written!Insert(c) PROVE DocInv'
<1> DEFINE k == docCall[c].kind
           v == docCall[c].version
<1>0. /\ docCall[c].at = "insert" /\ docCall[c] \in DocCall /\ UNCHANGED <<brief, executor>>
      /\ k \in Written!Kinds /\ v \in 0..Generations
  BY DocFacts DEF Written!Insert, DocCall
<1>1. ASSUME Written!Returns(c), UNCHANGED <<row, orphans>> PROVE DocInv'
  BY <1>0, <1>1, NoCallTyped, DocMoves, DocFacts DEF Written!Returns
<1>2. ASSUME NEW d \in Written!Artifacts \ Written!Used, \A e \in Written!Artifacts \ Written!Used : d <= e,
             row' = [row EXCEPT ![d] = [kind |-> k, version |-> v, status |-> "draft", text |-> "blank"]],
             IF executor
             THEN docCall' = [docCall EXCEPT ![c].at = "ask", ![c].id = d] /\ UNCHANGED orphans
             ELSE Written!Returns(c) /\ orphans' = orphans \cup {d},
             v > 0
      PROVE  DocInv'
  <2> DEFINE r == [kind |-> k, version |-> v, status |-> "draft", text |-> "blank"]
             b == [[docCall[c] EXCEPT !.at = "ask"] EXCEPT !.id = d]
             a == IF executor THEN b ELSE Written!NoCall
  <2>1. r \in DocRow
    BY <1>0 DEF DocRow, Written!DocStatus
  <2>2. b \in DocCall /\ b.at = "ask" /\ b.id = d /\ b.kind = k
    BY <1>0 DEF DocCall
  <2> HIDE DEF b
  <2>3. a \in DocCall /\ (executor => a.at = "ask" /\ a.id = d /\ a.kind = k) /\ (~executor => a.at = "idle")
    BY <2>2, NoCallTyped
  <2>4. docCall' = [docCall EXCEPT ![c] = a]
    <3>1. CASE executor
      <4>1. docCall' = [docCall EXCEPT ![c] = b]
        BY <1>2, <3>1, <1>0, DocFacts DEF b
      <4> QED
        BY <3>1, <4>1
    <3>2. CASE ~executor
      BY <1>2, <3>2 DEF Written!Returns
    <3> QED
      BY <3>1, <3>2
  <2> HIDE DEF a
  <2>5. docCall' \in [Callers -> DocCall] /\ \A e \in Callers : docCall'[e] = IF e = c THEN a ELSE docCall[e]
    BY <2>3, <2>4, DocFacts
  <2>6. row' \in [Written!Artifacts -> DocRow] /\ \A e \in Written!Artifacts : row'[e] = IF e = d THEN r ELSE row[e]
    BY <1>2, <2>1, DocFacts
  <2>7. Written!Used' = Written!Used \cup {d}
    BY <1>2, <2>6 DEF Written!Used
  <2>8. orphans' \subseteq Written!Artifacts /\ orphans \subseteq orphans' /\ (~executor => d \in orphans')
    BY <1>2, DocFacts
  <2>9. Written!TypeOK'
    BY <1>0, <2>5, <2>6, <2>8, DocFacts DEF Written!TypeOK, DocRow, DocCall
  <2>10. RowsInOrder'
    <3>1. v <= d
      BY <1>0, <1>2 DEF DocInv, Fits
    <3>2. \A e \in Written!Artifacts : row'[e].version <= e /\ (row'[e].status # "absent" => row'[e].version > 0)
      BY <1>2, <2>6, <3>1 DEF DocInv, RowsInOrder
    <3>3. \A x \in Written!Used \cup {d} : \A e \in Written!Artifacts \ (Written!Used \cup {d}) : x < e
      <4>1. \A e \in Written!Artifacts \ (Written!Used \cup {d}) : d < e
        BY <1>2 DEF Written!Artifacts
      <4> QED
        BY <4>1 DEF DocInv, RowsInOrder
    <3> QED
      BY <2>7, <3>2, <3>3 DEF RowsInOrder
  <2>11. ASSUME NEW e \in Callers PROVE Fits(docCall[e])'
    <3>1. CASE e = c
      BY <2>3, <2>5, <2>6, <2>7, <3>1, <1>2 DEF Fits
    <3>2. CASE e # c
      <4>1. Fits(docCall[e]) /\ docCall'[e] = docCall[e]
        BY <2>5, <3>2 DEF DocInv
      <4>2. \A x \in Written!Used : row'[x] = row[x]
        BY <1>2, <2>6 DEF Written!Used
      <4> QED
        BY <2>7, <4>1, <4>2 DEF Fits
    <3> QED
      BY <3>1, <3>2
  <2>12. Written!DocumentsInOrder'
    <3>1. \A x, y \in Written!Artifacts :
            row'[x].status = "finalized" /\ row'[y].status = "finalized" /\ row'[x].kind = row'[y].kind => x = y
      BY <2>6 DEF DocInv, Written!DocumentsInOrder
    <3>2. ASSUME NEW x \in Written!Artifacts, row'[x].status # "absent", row'[x].text = "blank"
          PROVE  x \in orphans' \/ \E e \in Callers : docCall'[e].at = "ask" /\ docCall'[e].id = x
      <4>1. CASE x = d
        BY <2>3, <2>5, <2>8, <4>1
      <4>2. CASE x # d
        <5>1. x \in orphans \/ \E e \in Callers : docCall[e].at = "ask" /\ docCall[e].id = x
          BY <2>6, <3>2, <4>2 DEF DocInv, Written!DocumentsInOrder
        <5> QED
          BY <1>0, <2>5, <2>8, <5>1
      <4> QED
        BY <4>1, <4>2
    <3> QED
      BY <3>1, <3>2 DEF Written!DocumentsInOrder
  <2> QED
    BY <2>9, <2>10, <2>11, <2>12 DEF DocInv
<1>3. v > 0
  BY <1>0 DEF DocInv, Fits
<1> QED
  BY <1>1, <1>2, <1>3 DEF Written!Insert

LEMMA DocFinalize == ASSUME DocInv, NEW c \in Callers, Written!Finalize(c) PROVE DocInv'
<1> DEFINE d == docCall[c].id
<1>1. /\ docCall[c].at = "seal" /\ docCall' = [docCall EXCEPT ![c] = Written!NoCall]
      /\ UNCHANGED <<brief, executor, orphans>>
  BY DEF Written!Finalize, Written!Returns
<1>2. d \in Written!Artifacts /\ row[d].kind = docCall[c].kind
  BY <1>1, DocFacts DEF DocInv, Fits
<1>3. CASE row' = row
  BY <1>1, <1>3, NoCallTyped, DocMoves, DocFacts
<1>4. CASE row[d].status # "absent" /\ row' = [e \in Written!Artifacts |->
                   IF e = d THEN [row[d] EXCEPT !.status = "finalized"]
                   ELSE IF row[e].kind = docCall[c].kind /\ row[e].status = "finalized"
                   THEN [row[e] EXCEPT !.status = "archived"] ELSE row[e]]
  <2>1. \A r \in DocRow : \A s \in Written!DocStatus :
          /\ [r EXCEPT !.status = s] \in DocRow /\ [r EXCEPT !.status = s].status = s
          /\ [r EXCEPT !.status = s].kind = r.kind /\ [r EXCEPT !.status = s].version = r.version
          /\ [r EXCEPT !.status = s].text = r.text
    BY DEF DocRow
  <2>2. "finalized" \in Written!DocStatus /\ "archived" \in Written!DocStatus
    BY DEF Written!DocStatus
  <2>3. ASSUME NEW e \in Written!Artifacts
        PROVE  /\ row'[e] \in DocRow /\ row'[e].kind = row[e].kind /\ row'[e].version = row[e].version
               /\ row'[e].text = row[e].text /\ (row'[e].status = "absent" <=> row[e].status = "absent")
               /\ row'[e].status = "finalized" => e = d \/ (row[e].status = "finalized" /\ row[e].kind # row[d].kind)
    <3>1. row[e] \in DocRow
      BY DocFacts
    <3>2. CASE e = d
      BY <1>4, <2>1, <2>2, <3>1, <3>2
    <3>3. CASE e # d /\ row[e].kind = row[d].kind /\ row[e].status = "finalized"
      BY <1>2, <1>4, <2>1, <2>2, <3>1, <3>3
    <3>4. CASE e # d /\ ~(row[e].kind = row[d].kind /\ row[e].status = "finalized")
      BY <1>2, <1>4, <3>1, <3>4
    <3> QED
      BY <3>2, <3>3, <3>4
  <2>4. row' \in [Written!Artifacts -> DocRow]
    <3>1. row' = [e \in Written!Artifacts |-> row'[e]]
      BY <1>4
    <3> QED
      BY <2>3, <3>1
  <2>5. DocRowsKept
    BY <2>3 DEF DocRowsKept
  <2>6. docCall' \in [Callers -> DocCall] /\ CallsKept /\ \A e \in Callers : e # c => docCall'[e] = docCall[e]
    BY <1>1, NoCallTyped, DocFacts DEF CallsKept
  <2>7. Written!DocumentsInOrder'
    <3>1. \A x, y \in Written!Artifacts :
            row'[x].status = "finalized" /\ row'[y].status = "finalized" /\ row'[x].kind = row'[y].kind => x = y
      BY <2>3 DEF DocInv, Written!DocumentsInOrder
    <3>2. ASSUME NEW x \in Written!Artifacts, row'[x].status # "absent", row'[x].text = "blank"
          PROVE  x \in orphans' \/ \E e \in Callers : docCall'[e].at = "ask" /\ docCall'[e].id = x
      <4>1. x \in orphans \/ \E e \in Callers : docCall[e].at = "ask" /\ docCall[e].id = x
        BY <2>3, <3>2 DEF DocInv, Written!DocumentsInOrder
      <4> QED
        BY <1>1, <2>6, <4>1
    <3> QED
      BY <3>1, <3>2 DEF Written!DocumentsInOrder
  <2> QED
    BY <1>1, <2>4, <2>5, <2>6, <2>7, RowsMove, DocFacts
<1> QED
  BY <1>3, <1>4 DEF Written!Finalize

LEMMA DocDelete == ASSUME DocInv, NEW c \in Callers, NEW k, Written!DeleteAll(c, k) PROVE DocInv'
<1>1. row' = [d \in Written!Artifacts |-> IF d \in Written!Rows(k) THEN [row[d] EXCEPT !.status = "absent"] ELSE row[d]]
  BY DEF Written!DeleteAll
<1>2. ASSUME NEW e \in Written!Artifacts
      PROVE  /\ row'[e] \in DocRow /\ row'[e].kind = row[e].kind /\ row'[e].version = row[e].version
             /\ row'[e].text = row[e].text /\ (row'[e].status = "absent" \/ row'[e] = row[e])
  <2>1. row[e] \in DocRow
    BY DocFacts
  <2> QED
    BY <1>1, <2>1 DEF DocRow, Written!DocStatus
<1>3. row' \in [Written!Artifacts -> DocRow]
  <2>1. row' = [e \in Written!Artifacts |-> row'[e]]
    BY <1>1
  <2> QED
    BY <1>2, <2>1
<1>4. DocRowsKept
  BY <1>2 DEF DocRowsKept
<1>5. UNCHANGED <<brief, docCall, executor, orphans>>
  BY DEF Written!DeleteAll
<1>6. docCall' \in [Callers -> DocCall] /\ CallsKept /\ orphans' \subseteq Written!Artifacts
  BY <1>5, DocFacts DEF CallsKept
<1>7. Written!DocumentsInOrder'
  BY <1>2, <1>5 DEF DocInv, Written!DocumentsInOrder
<1> QED
  BY <1>3, <1>4, <1>5, <1>6, <1>7, RowsMove

LEMMA DocCrash == ASSUME DocInv, Written!Crash PROVE DocInv'
<1>1. /\ docCall' = [c \in Callers |-> Written!NoCall] /\ UNCHANGED <<brief, row, executor>>
      /\ orphans' = orphans \cup {docCall[c].id : c \in {x \in Callers : docCall[x].at = "ask"}}
  BY DEF Written!Crash
<1>2. \A c \in Callers : docCall[c].at = "ask" => docCall[c].id \in Written!Artifacts
  BY DocFacts DEF DocInv, Fits
<1>3. orphans' \subseteq Written!Artifacts /\ orphans \subseteq orphans'
      /\ \A c \in Callers : docCall[c].at = "ask" => docCall[c].id \in orphans'
  BY <1>1, <1>2, DocFacts
<1>4. docCall' \in [Callers -> DocCall] /\ CallsKept
  BY <1>1, NoCallTyped DEF CallsKept
<1>5. DocRowsKept /\ row' \in [Written!Artifacts -> DocRow]
  BY <1>1, DocFacts DEF DocRowsKept
<1>6. Written!DocumentsInOrder'
  BY <1>1, <1>3 DEF DocInv, Written!DocumentsInOrder
<1> QED
  BY <1>1, <1>3, <1>4, <1>5, <1>6, RowsMove

LEMMA DocNext == ASSUME DocInv, [Written!Next]_Written!docVars PROVE DocInv'
<1>0. TRUE \in BOOLEAN
  OBVIOUS
<1>1. CASE Written!PutBrief
  BY <1>1 DEF Written!PutBrief, DocInv, Written!TypeOK, RowsInOrder, Fits, Written!DocumentsInOrder, Written!Used
<1>2. ASSUME NEW c \in Callers, Written!GeneratePrd(c) \/ Written!GenerateSpec(c) PROVE DocInv'
  <2>1. PICK kind \in Written!Kinds : docCall' = [docCall EXCEPT ![c] = [Written!NoCall EXCEPT !.at = "list", !.kind = kind]]
    BY <1>2 DEF Written!GeneratePrd, Written!GenerateSpec, Written!Kinds
  <2>2. PICK a : a = [[Written!NoCall EXCEPT !.at = "list"] EXCEPT !.kind = kind]
    OBVIOUS
  <2>3. a \in DocCall /\ a.at = "list"
    BY <2>2, NoCallTyped DEF DocCall
  <2>4. Fits(a)
    BY <2>3 DEF Fits
  <2>5. docCall' = [docCall EXCEPT ![c] = a]
    BY <2>1, <2>2, NoCallTyped DEF Written!NoCall
  <2>6. docCall[c].at # "ask" /\ brief' \in BOOLEAN /\ UNCHANGED <<row, executor, orphans>>
    BY <1>2, DocFacts DEF Written!GeneratePrd, Written!GenerateSpec
  <2> QED
    BY <2>3, <2>4, <2>5, <2>6, DocMoves
<1>3. ASSUME NEW c \in Callers, Written!ListVersions(c) PROVE DocInv'
  <2>1. docCall[c] \in DocCall /\ docCall[c].at = "list" /\ Written!Used # Written!Artifacts
        /\ UNCHANGED <<brief, row, executor, orphans>>
    BY <1>3, DocFacts DEF Written!ListVersions
  <2>2. docCall[c].kind \in Written!Kinds
    BY <2>1 DEF DocCall
  <2>3. PICK v : v = Written!LatestVersion(docCall[c].kind) + 1
    OBVIOUS
  <2>4. v \in 0..Generations /\ v > 0 /\ \A d \in Written!Artifacts \ Written!Used : v <= d
    BY <2>1, <2>2, <2>3, LatestFits, LimitsAssumption
  <2>5. docCall' = [docCall EXCEPT ![c].at = "insert", ![c].version = v]
    BY <1>3, <2>3 DEF Written!ListVersions
  <2>6. PICK a : a = [[docCall[c] EXCEPT !.at = "insert"] EXCEPT !.version = v]
    OBVIOUS
  <2>7. a \in DocCall /\ a.at = "insert" /\ a.version = v
    BY <2>1, <2>4, <2>6 DEF DocCall
  <2>8. docCall' = [docCall EXCEPT ![c] = a]
    BY <2>1, <2>5, <2>6, DocFacts
  <2>9. Fits(a)
    BY <2>4, <2>7 DEF Fits
  <2> QED
    BY <2>1, <2>7, <2>8, <2>9, DocMoves, DocFacts
<1>4. ASSUME NEW c \in Callers, Written!AgentAnswers(c) \/ Written!Save(c) PROVE DocInv'
  <2> DEFINE d == docCall[c].id
  <2>1. PICK text \in {"agent", "user"} : row' = [row EXCEPT ![d].text = IF row[d].status = "absent" THEN @ ELSE text]
    BY <1>4 DEF Written!AgentAnswers, Written!Save
  <2>2. docCall[c].at \in {"ask", "save"}
    BY <1>4 DEF Written!AgentAnswers, Written!Save
  <2>3. d \in Written!Used
    BY <2>2 DEF DocInv, Fits
  <2>4. row[d] \in DocRow
    BY <2>3, DocFacts
  <2>5. PICK r : r = [row[d] EXCEPT !.text = IF row[d].status = "absent" THEN row[d].text ELSE text]
    OBVIOUS
  <2>6. /\ r \in DocRow /\ r.kind = row[d].kind /\ r.version = row[d].version
        /\ r.status # "absent" => r.status = row[d].status /\ r.text # "blank"
    BY <2>4, <2>5 DEF DocRow
  <2>7. row' = [row EXCEPT ![d] = r]
    BY <2>1, <2>3, <2>5, DocFacts
  <2>8. \/ docCall' = [docCall EXCEPT ![c] = Written!NoCall]
        \/ docCall[c].at = "save" /\ docCall' = [docCall EXCEPT ![c].at = "seal"]
    BY <1>4 DEF Written!AgentAnswers, Written!Save, Written!Returns, Written!Advances
  <2>9. UNCHANGED <<brief, executor, orphans>>
    BY <1>4 DEF Written!AgentAnswers, Written!Save
  <2> QED
    BY <2>2, <2>3, <2>6, <2>7, <2>8, <2>9, Ends
<1>5. ASSUME NEW c \in Callers, Written!AgentFails(c) PROVE DocInv'
  <2> DEFINE d == docCall[c].id
  <2>1. docCall[c].at = "ask" /\ row' = [row EXCEPT ![d].status = "absent"] /\ UNCHANGED <<brief, executor, orphans>>
        /\ docCall' = [docCall EXCEPT ![c] = Written!NoCall]
    BY <1>5 DEF Written!AgentFails, Written!Returns
  <2>2. d \in Written!Used
    BY <2>1 DEF DocInv, Fits
  <2>3. row[d] \in DocRow
    BY <2>2, DocFacts
  <2>4. PICK r : r = [row[d] EXCEPT !.status = "absent"]
    OBVIOUS
  <2>5. r \in DocRow /\ r.kind = row[d].kind /\ r.version = row[d].version /\ r.status = "absent"
    BY <2>3, <2>4 DEF DocRow, Written!DocStatus
  <2>6. row' = [row EXCEPT ![d] = r]
    BY <2>1, <2>2, <2>4, DocFacts
  <2>7. docCall[c].at \in {"ask", "save"} /\ (r.status # "absent" => r.status = row[d].status /\ r.text # "blank")
    BY <2>1, <2>5
  <2> QED
    BY <2>1, <2>2, <2>5, <2>6, <2>7, Ends
<1>6. ASSUME NEW c \in Callers, Written!Patch(c) PROVE DocInv'
  <2>1. PICK k \in Written!Kinds, d \in Written!Artifacts, edits \in BOOLEAN, seals \in BOOLEAN :
          /\ Written!IsLatest(d, k)
          /\ docCall' = [docCall EXCEPT ![c] = [at |-> IF edits THEN "save" ELSE "seal", kind |-> k, id |-> d,
                                                version |-> 0, seals |-> seals]]
    BY <1>6 DEF Written!Patch
  <2> DEFINE a == [at |-> IF edits THEN "save" ELSE "seal", kind |-> k, id |-> d, version |-> 0, seals |-> seals]
  <2>2. d \in Written!Used /\ row[d].kind = k
    BY <2>1 DEF Written!IsLatest, Written!Rows, Written!Used, DocInv, RowsInOrder
  <2>3. a \in DocCall /\ a.at \in {"save", "seal"} /\ a.id = d /\ a.kind = k
    BY LimitsAssumption DEF DocCall
  <2>4. docCall' = [docCall EXCEPT ![c] = a]
    BY <2>1
  <2> HIDE DEF a
  <2>5. Fits(a)
    BY <2>2, <2>3 DEF Fits
  <2>6. docCall[c].at # "ask" /\ brief' \in BOOLEAN /\ UNCHANGED <<row, executor, orphans>>
    BY <1>6, DocFacts DEF Written!Patch
  <2> QED
    BY <2>3, <2>4, <2>5, <2>6, DocMoves
<1>7. CASE UNCHANGED Written!docVars
  BY <1>7 DEF Written!docVars, DocInv, Written!TypeOK, RowsInOrder, Fits, Written!DocumentsInOrder, Written!Used
<1> QED
  BY <1>1, <1>2, <1>3, <1>4, <1>5, <1>6, <1>7, DocInsert, DocFinalize, DocDelete, DocCrash DEF Written!Next

\* A step on documents leaves finalized ones alone unless it is about them.
LEMMA FinalizedStep ==
  ASSUME DocInv, [Written!Next]_Written!docVars, NEW d \in Written!Artifacts, row[d].status = "finalized"
  PROVE  \/ row'[d].status # "absent" /\ row'[d].text = row[d].text
         \/ \E c \in Callers : docCall[c].id = d /\ docCall[c].at \in {"ask", "save"}
         \/ {e \in Written!Rows(row[d].kind) : row'[e].status # "absent"} = {}
<1> DEFINE Kept == row'[d].status # "absent" /\ row'[d].text = row[d].text
<1>0. row \in [Written!Artifacts -> DocRow] /\ d \in Written!Used /\ row[d] \in DocRow
  BY DocFacts DEF DocInv, RowsInOrder, Written!Used
<1>1. ASSUME NEW c \in Callers, Written!AgentAnswers(c) \/ Written!AgentFails(c) \/ Written!Save(c)
      PROVE  Kept \/ (docCall[c].id = d /\ docCall[c].at \in {"ask", "save"})
  BY <1>0, <1>1 DEF Written!AgentAnswers, Written!AgentFails, Written!Save
<1>2. ASSUME NEW c \in Callers, Written!Insert(c) PROVE Kept
  BY <1>0, <1>2 DEF Written!Insert
<1>3. ASSUME NEW c \in Callers, Written!Finalize(c) PROVE Kept
  <2>1. CASE row' = row
    BY <1>0, <2>1
  <2>2. CASE row' = [e \in Written!Artifacts |->
                   IF e = docCall[c].id THEN [row[docCall[c].id] EXCEPT !.status = "finalized"]
                   ELSE IF row[e].kind = docCall[c].kind /\ row[e].status = "finalized"
                   THEN [row[e] EXCEPT !.status = "archived"] ELSE row[e]]
    BY <1>0, <2>2 DEF DocRow
  <2> QED
    BY <1>3, <2>1, <2>2 DEF Written!Finalize
<1>4. ASSUME NEW c \in Callers, NEW k \in Written!Kinds, Written!DeleteAll(c, k)
      PROVE  Kept \/ {e \in Written!Rows(row[d].kind) : row'[e].status # "absent"} = {}
  <2>1. row' = [e \in Written!Artifacts |-> IF e \in Written!Rows(k) THEN [row[e] EXCEPT !.status = "absent"] ELSE row[e]]
    BY <1>4 DEF Written!DeleteAll
  <2>2. CASE row[d].kind # k
    BY <1>0, <2>1, <2>2 DEF Written!Rows
  <2>3. CASE row[d].kind = k
    <3>1. \A e \in Written!Rows(k) : e \in Written!Artifacts /\ row[e] \in DocRow
      BY DocFacts DEF Written!Rows
    <3>2. \A e \in Written!Rows(k) : row'[e].status = "absent"
      BY <2>1, <3>1 DEF DocRow
    <3> QED
      BY <2>3, <3>2
  <2> QED
    BY <2>2, <2>3
<1>5. CASE UNCHANGED row
  BY <1>0, <1>5
<1> QED
  BY <1>1, <1>2, <1>3, <1>4, <1>5
     DEF Written!Next, Written!docVars, Written!PutBrief, Written!Crash, Written!GeneratePrd, Written!GenerateSpec,
         Written!ListVersions, Written!Patch

(***************************************************************************)
(* The plan                                                                *)
(***************************************************************************)
Made == {t \in Plan!Tasks : task[t].version # 0}

EpicsOK(rows) ==
  rows \in [Plan!Epics -> Plan!EpicRow] /\ \A e \in Plan!Epics : rows[e].version = 0 => rows[e].status = "absent"
FeaturesOK(rows) ==
  rows \in [Plan!Features -> Plan!FeatureRow]
    /\ \A f \in Plan!Features : rows[f].version = 0 => rows[f].status = "absent"

\* A task that was never made is nothing, and no task depends on such a one.
TasksOK ==
  /\ task \in [Plan!Tasks -> Plan!TaskRow]
  /\ \A t \in Plan!Tasks : task[t].version = 0 => task[t].status = "absent" /\ task[t].deps = {}
  /\ \A t \in Plan!Tasks : task[t].deps \subseteq Made

\* What a generator holds goes with what it does.
GenFits(g) ==
  /\ g \in Plan!Generator
  /\ g.at \in {"purge", "ask", "seal", "check"} => g.version > 0
  /\ g.op \in {"epics", "features"} => g.todo \subseteq Plan!Epics
  /\ g.op = "tasks" => g.todo \subseteq Plan!Features
  /\ g.op \in {"epics", "features"} => g.of \in Plan!Epics \cup {0}
  /\ g.op = "tasks" /\ g.at \in {"purge", "ask", "check"} => g.of \in Plan!Features
  /\ g.at \in {"purge", "check"} => g.op = "tasks"
  /\ g.at = "seal" => g.op = "epics"

GensOK ==
  \A c \in Planners :
    /\ GenFits(gen[c]) /\ gen[c].kin \subseteq Made /\ gen[c].doomed \subseteq Made
    /\ gen[c].at = "check" =>
         \A t \in gen[c].doomed : task[t].status # "absent" => task[t].version = gen[c].version

\* Everything in S waits for something in S.
Stuck(rows, S) == S # {} /\ \A t \in S : rows[t].deps \cap S # {}

\* Tasks that wait for each other were put in together and are to be checked,
\* or one of them has missed its check.
StuckIsChecked ==
  \A S \in SUBSET Plan!Live(task) :
    Stuck(task, S) => \/ S \cap unchecked # {}
                     \/ \E c \in Planners : gen[c].at = "check" /\ Stuck(task, S \cap gen[c].doomed)

PlanInv ==
  /\ EpicsOK(epic) /\ FeaturesOK(feature) /\ legacy \subseteq Plan!Tasks /\ unchecked \subseteq Plan!Tasks
  /\ gen \in [Planners -> Plan!Generator]
  /\ TasksOK /\ GensOK /\ StuckIsChecked

(***************************************************************************)
(* Rows that go or change their status                                     *)
(***************************************************************************)
GoneTask == [status |-> "absent", version |-> 1, feature |-> 0, progress |-> "backlog", deps |-> {}]
GoneFeature == [status |-> "absent", version |-> 1, epic |-> 0]
GoneEpic == [status |-> "absent", version |-> 1]

LEMMA GoneRows ==
  /\ \A r \in Plan!TaskRow : [x \in DOMAIN r |-> Plan!Gone[x]] = GoneTask
  /\ \A r \in Plan!FeatureRow : [x \in DOMAIN r |-> Plan!Gone[x]] = GoneFeature
  /\ \A r \in Plan!EpicRow : [x \in DOMAIN r |-> Plan!Gone[x]] = GoneEpic
<1>1. ASSUME NEW r \in Plan!TaskRow PROVE [x \in DOMAIN r |-> Plan!Gone[x]] = GoneTask
  <2> DEFINE D == {"status", "version", "feature", "progress", "deps"}
  <2>1. DOMAIN r = D
    BY DEF Plan!TaskRow
  <2>2. \A x \in D : Plan!Gone[x] = GoneTask[x]
    BY DEF Plan!Gone, GoneTask
  <2>3. GoneTask = [x \in D |-> GoneTask[x]]
    BY DEF GoneTask
  <2> HIDE DEF D
  <2> QED
    BY <2>1, <2>2, <2>3
<1>2. ASSUME NEW r \in Plan!FeatureRow PROVE [x \in DOMAIN r |-> Plan!Gone[x]] = GoneFeature
  <2> DEFINE D == {"status", "version", "epic"}
  <2>1. DOMAIN r = D
    BY DEF Plan!FeatureRow
  <2>2. \A x \in D : Plan!Gone[x] = GoneFeature[x]
    BY DEF Plan!Gone, GoneFeature
  <2>3. GoneFeature = [x \in D |-> GoneFeature[x]]
    BY DEF GoneFeature
  <2> HIDE DEF D
  <2> QED
    BY <2>1, <2>2, <2>3
<1>3. ASSUME NEW r \in Plan!EpicRow PROVE [x \in DOMAIN r |-> Plan!Gone[x]] = GoneEpic
  <2> DEFINE D == {"status", "version"}
  <2>1. DOMAIN r = D
    BY DEF Plan!EpicRow
  <2>2. \A x \in D : Plan!Gone[x] = GoneEpic[x]
    BY DEF Plan!Gone, GoneEpic
  <2>3. GoneEpic = [x \in D |-> GoneEpic[x]]
    BY DEF GoneEpic
  <2> HIDE DEF D
  <2> QED
    BY <2>1, <2>2, <2>3
<1> QED
  BY <1>1, <1>2, <1>3

LEMMA WithoutTasks ==
  ASSUME NEW rows \in [Plan!Tasks -> Plan!TaskRow], NEW S
  PROVE  Plan!Without(rows, S) = [t \in Plan!Tasks |-> IF t \in S THEN GoneTask ELSE rows[t]]
<1>1. Plan!Without(rows, S) = [t \in Plan!Tasks |-> IF t \in S THEN [x \in DOMAIN rows[t] |-> Plan!Gone[x]] ELSE rows[t]]
  BY DEF Plan!Without
<1>2. \A t \in Plan!Tasks : [x \in DOMAIN rows[t] |-> Plan!Gone[x]] = GoneTask
  BY GoneRows
<1> QED
  BY <1>1, <1>2

LEMMA EpicsLeft ==
  ASSUME NEW rows, EpicsOK(rows), NEW S, NEW st \in Plan!ListStatus
  PROVE  EpicsOK(Plan!Without(rows, S)) /\ (S \subseteq Plan!Live(rows) => EpicsOK(Plan!Becomes(rows, S, st)))
<1>1. rows \in [Plan!Epics -> Plan!EpicRow] /\ GoneEpic \in Plan!EpicRow /\ GoneEpic.status = "absent"
  BY DEF EpicsOK, GoneEpic, Plan!EpicRow, Plan!ListStatus
<1>2. Plan!Without(rows, S) = [e \in Plan!Epics |-> IF e \in S THEN GoneEpic ELSE rows[e]]
  <2>1. Plan!Without(rows, S) = [e \in Plan!Epics |-> IF e \in S THEN [x \in DOMAIN rows[e] |-> Plan!Gone[x]] ELSE rows[e]]
    BY <1>1 DEF Plan!Without
  <2>2. \A e \in Plan!Epics : [x \in DOMAIN rows[e] |-> Plan!Gone[x]] = GoneEpic
    BY <1>1, GoneRows
  <2> QED
    BY <2>1, <2>2
<1>3. EpicsOK(Plan!Without(rows, S))
  BY <1>1, <1>2 DEF EpicsOK
<1>4. ASSUME S \subseteq Plan!Live(rows) PROVE EpicsOK(Plan!Becomes(rows, S, st))
  <2>1. \A e \in Plan!Epics : [rows[e] EXCEPT !.status = st] \in Plan!EpicRow
          /\ [rows[e] EXCEPT !.status = st].version = rows[e].version
    BY <1>1 DEF Plan!EpicRow
  <2>2. Plan!Becomes(rows, S, st) = [e \in Plan!Epics |-> IF e \in S THEN [rows[e] EXCEPT !.status = st] ELSE rows[e]]
    BY <1>1 DEF Plan!Becomes
  <2>3. \A e \in S : e \in Plan!Epics => rows[e].version # 0
    BY <1>4 DEF EpicsOK, Plan!Live
  <2> QED
    BY <1>1, <2>1, <2>2, <2>3 DEF EpicsOK
<1> QED
  BY <1>3, <1>4

LEMMA FeaturesLeft ==
  ASSUME NEW rows, FeaturesOK(rows), NEW S, NEW st \in Plan!ListStatus
  PROVE  FeaturesOK(Plan!Without(rows, S)) /\ (S \subseteq Plan!Live(rows) => FeaturesOK(Plan!Becomes(rows, S, st)))
<1>1. rows \in [Plan!Features -> Plan!FeatureRow] /\ GoneFeature \in Plan!FeatureRow /\ GoneFeature.status = "absent"
  BY DEF FeaturesOK, GoneFeature, Plan!FeatureRow, Plan!ListStatus
<1>2. Plan!Without(rows, S) = [e \in Plan!Features |-> IF e \in S THEN GoneFeature ELSE rows[e]]
  <2>1. Plan!Without(rows, S) = [e \in Plan!Features |-> IF e \in S THEN [x \in DOMAIN rows[e] |-> Plan!Gone[x]] ELSE rows[e]]
    BY <1>1 DEF Plan!Without
  <2>2. \A e \in Plan!Features : [x \in DOMAIN rows[e] |-> Plan!Gone[x]] = GoneFeature
    BY <1>1, GoneRows
  <2> QED
    BY <2>1, <2>2
<1>3. FeaturesOK(Plan!Without(rows, S))
  BY <1>1, <1>2 DEF FeaturesOK
<1>4. ASSUME S \subseteq Plan!Live(rows) PROVE FeaturesOK(Plan!Becomes(rows, S, st))
  <2>1. \A e \in Plan!Features : [rows[e] EXCEPT !.status = st] \in Plan!FeatureRow
          /\ [rows[e] EXCEPT !.status = st].version = rows[e].version
    BY <1>1 DEF Plan!FeatureRow
  <2>2. Plan!Becomes(rows, S, st) = [e \in Plan!Features |-> IF e \in S THEN [rows[e] EXCEPT !.status = st] ELSE rows[e]]
    BY <1>1 DEF Plan!Becomes
  <2>3. \A e \in S : e \in Plan!Features => rows[e].version # 0
    BY <1>4 DEF FeaturesOK, Plan!Live
  <2> QED
    BY <1>1, <2>1, <2>2, <2>3 DEF FeaturesOK
<1> QED
  BY <1>3, <1>4

\* Tasks are deleted or keep what they wait for; none is made.
Prunes(rows, left) ==
  /\ left \in [Plan!Tasks -> Plan!TaskRow]
  /\ \A t \in Plan!Tasks :
       /\ left[t].version = 0 => rows[t].version = 0
       /\ left[t].deps \subseteq rows[t].deps
       /\ left[t].status # "absent" =>
            rows[t].status # "absent" /\ left[t].deps = rows[t].deps /\ left[t].version = rows[t].version

LEMMA TasksLeft ==
  ASSUME NEW rows \in [Plan!Tasks -> Plan!TaskRow], NEW S
  PROVE  Prunes(rows, rows) /\ Prunes(rows, Plan!Without(rows, S))
<1>1. GoneTask \in Plan!TaskRow /\ GoneTask.status = "absent" /\ GoneTask.version = 1 /\ GoneTask.deps = {}
  BY DEF GoneTask, Plan!TaskRow, Plan!ListStatus
<1> QED
  BY <1>1, WithoutTasks DEF Prunes

LEMMA TasksTurned ==
  ASSUME NEW rows \in [Plan!Tasks -> Plan!TaskRow], NEW S \in SUBSET Plan!Live(rows), NEW st \in Plan!ListStatus
  PROVE  Prunes(rows, Plan!Becomes(rows, S, st))
<1>1. \A t \in Plan!Tasks : /\ [rows[t] EXCEPT !.status = st] \in Plan!TaskRow
                            /\ [rows[t] EXCEPT !.status = st].version = rows[t].version
                            /\ [rows[t] EXCEPT !.status = st].deps = rows[t].deps
  BY DEF Plan!TaskRow
<1>2. Plan!Becomes(rows, S, st) = [t \in Plan!Tasks |-> IF t \in S THEN [rows[t] EXCEPT !.status = st] ELSE rows[t]]
  BY DEF Plan!Becomes
<1>3. \A t \in S : rows[t].status # "absent"
  BY DEF Plan!Live
<1> QED
  BY <1>1, <1>2, <1>3 DEF Prunes

LEMMA PrunesTwice ==
  ASSUME NEW a, NEW b, NEW c, Prunes(a, b), Prunes(b, c) PROVE Prunes(a, c)
BY DEF Prunes

\* delete_feature's cascade.
LEMMA TasksWithoutPrunes ==
  ASSUME task \in [Plan!Tasks -> Plan!TaskRow], NEW fs PROVE Prunes(task, Plan!TasksWithout(fs))
<1> DEFINE loose == [t \in Plan!Tasks |-> IF t \in Plan!TasksOf(fs) THEN [task[t] EXCEPT !.feature = 0] ELSE task[t]]
<1>1. \A t \in Plan!Tasks : /\ [task[t] EXCEPT !.feature = 0] \in Plan!TaskRow
                            /\ [task[t] EXCEPT !.feature = 0].version = task[t].version
                            /\ [task[t] EXCEPT !.feature = 0].deps = task[t].deps
                            /\ [task[t] EXCEPT !.feature = 0].status = task[t].status
  BY DEF Plan!TaskRow
<1>2. loose \in [Plan!Tasks -> Plan!TaskRow] /\ Prunes(task, loose)
  BY <1>1 DEF Prunes
<1>3. Plan!TasksWithout(fs) = Plan!Without(loose, {t \in Plan!TasksOf(fs) : Plan!Unstarted(t)})
  BY DEF Plan!TasksWithout
<1> HIDE DEF loose
<1> QED
  BY <1>2, <1>3, TasksLeft, PrunesTwice

LEMMA TasksPruned ==
  ASSUME TasksOK, Prunes(task, task') PROVE TasksOK' /\ Made \subseteq Made'
<1>1. Made \subseteq Made'
  BY DEF Prunes, Made
<1> QED
  BY <1>1 DEF Prunes, TasksOK

(***************************************************************************)
(* Steps that put no task in                                               *)
(***************************************************************************)
LEMMA StuckBefore ==
  ASSUME TasksOK, Prunes(task, task'), NEW S \in SUBSET Plan!Live(task'), NEW T \in SUBSET S
  PROVE  S \in SUBSET Plan!Live(task) /\ (Stuck(task', T) <=> Stuck(task, T))
<1>1. DOMAIN task' = Plan!Tasks
  BY DEF Prunes
<1>2. \A t \in S : t \in Plan!Tasks /\ task'[t].status # "absent"
  BY <1>1 DEF Plan!Live
<1>3. \A t \in S : task[t].status # "absent" /\ task'[t].deps = task[t].deps
  BY <1>2 DEF Prunes
<1> QED
  BY <1>2, <1>3 DEF Stuck, Plan!Live, TasksOK

LEMMA PlanMoves ==
  ASSUME PlanInv, Prunes(task, task'), EpicsOK(epic'), FeaturesOK(feature'), legacy' \subseteq Plan!Tasks,
         unchecked \subseteq unchecked', unchecked' \subseteq Plan!Tasks,
         gen' \in [Planners -> Plan!Generator],
         \A c \in Planners : gen'[c] = gen[c] \/
           (/\ GenFits(gen'[c]) /\ gen'[c].kin \subseteq Made /\ gen'[c].doomed \subseteq Made
            /\ gen[c].at # "check" /\ gen'[c].at # "check")
  PROVE  PlanInv'
<1>1. TasksOK' /\ Made \subseteq Made' /\ TasksOK
  BY TasksPruned DEF PlanInv
<1>2. GensOK'
  <2> SUFFICES ASSUME NEW c \in Planners
               PROVE  /\ GenFits(gen'[c]) /\ gen'[c].kin \subseteq Made' /\ gen'[c].doomed \subseteq Made'
                      /\ gen'[c].at = "check" =>
                           \A t \in gen'[c].doomed : task'[t].status # "absent" => task'[t].version = gen'[c].version
    BY DEF GensOK, GenFits
  <2>1. CASE gen'[c] = gen[c]
    <3>1. /\ GenFits(gen[c]) /\ gen[c].kin \subseteq Made /\ gen[c].doomed \subseteq Made
          /\ gen[c].at = "check" =>
               \A t \in gen[c].doomed : task[t].status # "absent" => task[t].version = gen[c].version
      BY DEF PlanInv, GensOK
    <3>2. \A t \in gen[c].doomed : t \in Plan!Tasks
      BY <3>1 DEF Made
    <3>3. \A t \in gen[c].doomed : task'[t].status # "absent" => task[t].status # "absent" /\ task'[t].version = task[t].version
      BY <3>2 DEF Prunes
    <3> QED
      BY <1>1, <2>1, <3>1, <3>3
  <2>2. CASE GenFits(gen'[c]) /\ gen'[c].kin \subseteq Made /\ gen'[c].doomed \subseteq Made /\ gen'[c].at # "check"
    BY <1>1, <2>2
  <2> QED
    BY <2>1, <2>2
<1>3. StuckIsChecked'
  <2> SUFFICES ASSUME NEW S \in SUBSET Plan!Live(task'), Stuck(task', S), S \cap unchecked' = {}
               PROVE  \E c \in Planners : gen'[c].at = "check" /\ Stuck(task', S \cap gen'[c].doomed)
    BY DEF StuckIsChecked, Stuck, Plan!Live
  <2>1. S \in SUBSET Plan!Live(task) /\ Stuck(task, S)
    BY <1>1, StuckBefore
  <2>2. PICK c \in Planners : gen[c].at = "check" /\ Stuck(task, S \cap gen[c].doomed)
    <3>1. S \cap unchecked = {}
      OBVIOUS
    <3> QED
      BY <2>1, <3>1 DEF PlanInv, StuckIsChecked
  <2>3. gen'[c] = gen[c]
    BY <2>2
  <2>4. PICK T \in SUBSET S : T = S \cap gen[c].doomed
    OBVIOUS
  <2>5. Stuck(task', T)
    BY <1>1, <2>2, <2>4, StuckBefore
  <2> QED
    BY <2>2, <2>3, <2>4, <2>5 DEF Stuck
<1> QED
  BY <1>1, <1>2, <1>3 DEF PlanInv

\* One generator goes on; or none.
LEMMA OneMoves ==
  ASSUME PlanInv, Prunes(task, task'), EpicsOK(epic'), FeaturesOK(feature'), legacy' \subseteq Plan!Tasks,
         unchecked \subseteq unchecked', unchecked' \subseteq Plan!Tasks,
         NEW c \in Planners, NEW g, gen' = [gen EXCEPT ![c] = g],
         GenFits(g), g.kin \subseteq Made, g.doomed \subseteq Made, gen[c].at # "check", g.at # "check"
  PROVE  PlanInv'
<1>1. gen' \in [Planners -> Plan!Generator] /\ \A e \in Planners : gen'[e] = IF e = c THEN g ELSE gen[e]
  BY DEF PlanInv, GenFits
<1> QED
  BY <1>1, PlanMoves

LEMMA NoneMoves ==
  ASSUME PlanInv, Prunes(task, task'), EpicsOK(epic'), FeaturesOK(feature'), UNCHANGED <<gen, legacy, unchecked>>
  PROVE  PlanInv'
<1>1. /\ gen' \in [Planners -> Plan!Generator] /\ legacy' \subseteq Plan!Tasks
      /\ unchecked \subseteq unchecked' /\ unchecked' \subseteq Plan!Tasks
  BY DEF PlanInv
<1> QED
  BY <1>1, PlanMoves

LEMMA PlanFacts ==
  ASSUME PlanInv
  PROVE  /\ epic \in [Plan!Epics -> Plan!EpicRow] /\ feature \in [Plan!Features -> Plan!FeatureRow]
         /\ task \in [Plan!Tasks -> Plan!TaskRow] /\ gen \in [Planners -> Plan!Generator]
         /\ EpicsOK(epic) /\ FeaturesOK(feature) /\ legacy \subseteq Plan!Tasks /\ Prunes(task, task)
         /\ unchecked \subseteq Plan!Tasks
         /\ \A c \in Planners : /\ gen[c] \in Plan!Generator /\ GenFits(gen[c])
                               /\ gen[c].kin \subseteq Made /\ gen[c].doomed \subseteq Made
BY DEF PlanInv, EpicsOK, FeaturesOK, TasksOK, GensOK, Prunes

LEMMA GenFields ==
  ASSUME NEW r \in Plan!Generator, NEW a, NEW b
  PROVE  /\ [r EXCEPT !.at = a, !.doomed = b]
              = [at |-> a, op |-> r.op, of |-> r.of, version |-> r.version, doomed |-> b, kin |-> r.kin, todo |-> r.todo,
                 whole |-> r.whole]
         /\ [r EXCEPT !.at = a, !.op = b]
              = [at |-> a, op |-> b, of |-> r.of, version |-> r.version, doomed |-> r.doomed, kin |-> r.kin,
                 todo |-> r.todo, whole |-> r.whole]
<1>1. PICK h : h = [r EXCEPT !.at = a]
  OBVIOUS
<1>2. PICK op, of, version, doomed, kin, todo, whole :
        /\ op = r.op /\ of = r.of /\ version = r.version /\ doomed = r.doomed /\ kin = r.kin /\ todo = r.todo
        /\ whole = r.whole
  OBVIOUS
<1>3. h = [at |-> a, op |-> op, of |-> of, version |-> version, doomed |-> doomed, kin |-> kin, todo |-> todo,
           whole |-> whole]
  BY <1>1, <1>2 DEF Plan!Generator
<1>4. PICK k : k = [h EXCEPT !.doomed = b]
  OBVIOUS
<1>5. k = [at |-> a, op |-> op, of |-> of, version |-> version, doomed |-> b, kin |-> kin, todo |-> todo, whole |-> whole]
  BY <1>3, <1>4
<1>6. [h EXCEPT !.op = b] = [at |-> a, op |-> b, of |-> of, version |-> version, doomed |-> doomed, kin |-> kin,
                             todo |-> todo, whole |-> whole]
  BY <1>3
<1>7. /\ [r EXCEPT !.at = a, !.doomed = b] = k /\ [r EXCEPT !.at = a, !.op = b] = [h EXCEPT !.op = b]
  BY <1>1, <1>4
<1> QED
  BY <1>2, <1>5, <1>6, <1>7

LEMMA GenThree ==
  ASSUME NEW r \in Plan!Generator, NEW a, NEW b, NEW d
  PROVE  [r EXCEPT !.at = a, !.doomed = b, !.kin = d]
           = [at |-> a, op |-> r.op, of |-> r.of, version |-> r.version, doomed |-> b, kin |-> d, todo |-> r.todo,
              whole |-> r.whole]
<1>1. PICK op, of, version, doomed, kin, todo, whole :
        /\ op = r.op /\ of = r.of /\ version = r.version /\ doomed = r.doomed /\ kin = r.kin /\ todo = r.todo
        /\ whole = r.whole
  OBVIOUS
<1>2. PICK k : k = [r EXCEPT !.at = a, !.doomed = b]
  OBVIOUS
<1>3. k = [at |-> a, op |-> op, of |-> of, version |-> version, doomed |-> b, kin |-> kin, todo |-> todo, whole |-> whole]
  BY <1>1, <1>2, GenFields
<1>4. [k EXCEPT !.kin = d] = [at |-> a, op |-> op, of |-> of, version |-> version, doomed |-> b, kin |-> d,
                              todo |-> todo, whole |-> whole]
  BY <1>3
<1>5. [r EXCEPT !.at = a, !.doomed = b, !.kin = d] = [k EXCEPT !.kin = d]
  BY <1>2
<1> QED
  BY <1>1, <1>4, <1>5

LEMMA GenGoes ==
  ASSUME PlanInv, NEW c \in Planners, NEW a, NEW b, NEW d
  PROVE  /\ [gen EXCEPT ![c].at = a, ![c].doomed = b] = [gen EXCEPT ![c] = [gen[c] EXCEPT !.at = a, !.doomed = b]]
         /\ [gen EXCEPT ![c].at = a, ![c].op = b] = [gen EXCEPT ![c] = [gen[c] EXCEPT !.at = a, !.op = b]]
         /\ [gen EXCEPT ![c].at = a, ![c].doomed = b, ![c].kin = d]
              = [gen EXCEPT ![c] = [gen[c] EXCEPT !.at = a, !.doomed = b, !.kin = d]]
<1>1. gen \in [Planners -> Plan!Generator]
  BY DEF PlanInv
<1> QED
  BY <1>1

LEMMA NoGenFits ==
  /\ Plan!NoGen \in Plan!Generator /\ GenFits(Plan!NoGen) /\ Plan!NoGen.kin = {} /\ Plan!NoGen.doomed = {}
  /\ Plan!NoGen.at = "idle"
BY DEF Plan!NoGen, Plan!Generator, GenFits

LEMMA PlanInit == ASSUME Plan!Init PROVE PlanInv
<1>1. EpicsOK(epic) /\ FeaturesOK(feature)
  BY DEF Plan!Init, EpicsOK, FeaturesOK, Plan!EpicRow, Plan!FeatureRow, Plan!ListStatus
<1>2. TasksOK
  BY DEF Plan!Init, TasksOK, Plan!TaskRow, Plan!ListStatus
<1>3. GensOK /\ gen \in [Planners -> Plan!Generator]
  BY NoGenFits DEF Plan!Init, GensOK
<1>4. StuckIsChecked
  <2>1. Plan!Live(task) = {}
    BY DEF Plan!Live, Plan!Init
  <2> QED
    BY <2>1 DEF StuckIsChecked, Stuck
<1> QED
  BY <1>1, <1>2, <1>3, <1>4 DEF PlanInv, Plan!Init

(***************************************************************************)
(* Versions                                                                *)
(***************************************************************************)
LEMMA CountingUp ==
  ASSUME NEW P, 0 \in P, \A n \in Nat : n \in P => n + 1 \in P PROVE Nat \subseteq P
<1> SUFFICES ASSUME Nat \ P # {} PROVE FALSE
  OBVIOUS
<1>1. PICK x \in Nat \ P : \A y \in Nat \ P : x <= y
  <2> DEFINE T == Nat \ P
  <2>1. T \subseteq Nat /\ T # {}
    OBVIOUS
  <2> HIDE DEF T
  <2>2. \E x \in T : \A y \in T : x <= y
    BY <2>1, LeastMember
  <2> QED
    BY <2>2 DEF T
<1>2. x # 0 /\ x - 1 \in Nat
  BY <1>1
<1>3. x - 1 \in P
  BY <1>1, <1>2
<1> QED
  BY <1>1, <1>2, <1>3

\* Finitely many numbers have a bound.
LEMMA HasBound ==
  ASSUME NEW n \in Nat, NEW f, \A i \in 1..n : f[i] \in Nat PROVE \E b \in Nat : \A i \in 1..n : f[i] <= b
<1> DEFINE P == {k \in Nat : k <= n => \E b \in Nat : \A i \in 1..k : f[i] <= b}
<1>1. 0 \in P
  OBVIOUS
<1>2. ASSUME NEW k \in Nat, k \in P PROVE k + 1 \in P
  <2> SUFFICES ASSUME k + 1 <= n PROVE \E b \in Nat : \A i \in 1..(k + 1) : f[i] <= b
    OBVIOUS
  <2>1. PICK b \in Nat : \A i \in 1..k : f[i] <= b
    BY <1>2
  <2>2. f[k + 1] \in Nat /\ \A i \in 1..(k + 1) : i \in 1..k \/ i = k + 1
    OBVIOUS
  <2>3. \A i \in 1..k : f[i] \in Nat
    OBVIOUS
  <2>4. b + f[k + 1] \in Nat /\ b <= b + f[k + 1] /\ f[k + 1] <= b + f[k + 1]
    BY <2>2
  <2>5. \A i \in 1..k : f[i] <= b + f[k + 1]
    BY <2>1, <2>2, <2>3
  <2> QED
    BY <2>2, <2>4, <2>5
<1> HIDE DEF P
<1>3. n \in P
  BY <1>1, <1>2, CountingUp
<1> QED
  BY <1>3 DEF P

\* The largest of the versions there are, or 0.
LEMMA TopIsTop ==
  ASSUME NEW n \in Nat, NEW f, \A i \in 1..n : f[i] \in Nat, NEW S, \A v \in S : \E i \in 1..n : v = f[i]
  PROVE  Plan!Top(S) \in Nat /\ (S = {} => Plan!Top(S) = 0)
<1>1. CASE S = {}
  BY <1>1 DEF Plan!Top
<1>2. CASE S # {}
  <2>1. PICK b \in Nat : \A i \in 1..n : f[i] <= b
    BY HasBound
  <2>2. S \subseteq 0..b
    BY <2>1
  <2>3. \E v \in S : \A w \in S : w <= v
    BY <1>2, <2>2, LargestMember
  <2>4. Plan!Top(S) \in S
    BY <1>2, <2>3 DEF Plan!Top
  <2> QED
    BY <1>2, <2>2, <2>4
<1> QED
  BY <1>1, <1>2

LEMMA VersionsAreNat ==
  ASSUME PlanInv, NEW st
  PROVE  Plan!Top(Plan!VersionsOf(task, st)) \in Nat /\ Plan!Top(Plan!VersionsOf(epic, st)) \in Nat
         /\ Plan!Current \in Nat
<1>1. MaxTasks \in Nat /\ MaxEpics \in Nat
  BY LimitsAssumption
<1>2. PICK f : f = [i \in 1..MaxTasks |-> task[i].version]
  OBVIOUS
<1>3. \A i \in 1..MaxTasks : f[i] \in Nat /\ task[i].version = f[i]
  BY <1>2, PlanFacts DEF Plan!TaskRow, Plan!Tasks
<1>n. \A i \in 1..MaxTasks : f[i] \in Nat
  BY <1>3
<1>4. ASSUME NEW s PROVE \A v \in Plan!VersionsOf(task, s) : \E i \in 1..MaxTasks : v = f[i]
  BY <1>3, PlanFacts DEF Plan!VersionsOf, Plan!Having, Plan!Tasks
<1>5. Plan!Top(Plan!VersionsOf(task, st)) \in Nat
  <2>1. PICK S : S = Plan!VersionsOf(task, st)
    OBVIOUS
  <2>2. \A v \in S : \E i \in 1..MaxTasks : v = f[i]
    BY <1>4, <2>1
  <2>3. Plan!Top(S) \in Nat
    BY <1>1, <1>n, <2>2, TopIsTop
  <2> QED
    BY <2>1, <2>3
<1>6. Plan!Current \in Nat
  <2>1. PICK S : S = Plan!VersionsOf(task, "draft") \cup Plan!VersionsOf(task, "finalized")
    OBVIOUS
  <2>2. \A v \in S : \E i \in 1..MaxTasks : v = f[i]
    BY <1>4, <2>1
  <2>3. Plan!Top(S) \in Nat
    BY <1>1, <1>n, <2>2, TopIsTop
  <2> QED
    BY <2>1, <2>3 DEF Plan!Current
<1>7. PICK g : g = [i \in 1..MaxEpics |-> epic[i].version]
  OBVIOUS
<1>8. \A i \in 1..MaxEpics : g[i] \in Nat /\ epic[i].version = g[i]
  BY <1>7, PlanFacts DEF Plan!EpicRow, Plan!Epics
<1>9. \A v \in Plan!VersionsOf(epic, st) : \E i \in 1..MaxEpics : v = g[i]
  BY <1>8, PlanFacts DEF Plan!VersionsOf, Plan!Having, Plan!Epics
<1>10. Plan!Top(Plan!VersionsOf(epic, st)) \in Nat
  <2>1. PICK S : S = Plan!VersionsOf(epic, st)
    OBVIOUS
  <2>2. \A v \in S : \E i \in 1..MaxEpics : v = g[i]
    BY <1>9, <2>1
  <2>3. \A i \in 1..MaxEpics : g[i] \in Nat
    BY <1>8
  <2>4. Plan!Top(S) \in Nat
    BY <1>1, <2>2, <2>3, TopIsTop
  <2> QED
    BY <2>1, <2>4
<1> QED
  BY <1>5, <1>6, <1>10

(***************************************************************************)
(* Each action of the plan                                                 *)
(***************************************************************************)
LEMMA DropKeeps ==
  ASSUME PlanInv, NEW es, Plan!DropEpics(es) PROVE Prunes(task, task') /\ EpicsOK(epic') /\ FeaturesOK(feature')
<1>1. "draft" \in Plan!ListStatus
  BY DEF Plan!ListStatus
<1>2. EpicsOK(Plan!Without(epic, es))
  BY <1>1, PlanFacts, EpicsLeft
<1>3. FeaturesOK(Plan!Without(feature, Plan!FeaturesOf(es)))
  BY <1>1, PlanFacts, FeaturesLeft
<1>4. Prunes(task, Plan!TasksWithout(Plan!FeaturesOf(es)))
  BY PlanFacts, TasksWithoutPrunes
<1> QED
  BY <1>2, <1>3, <1>4 DEF Plan!DropEpics

LEMMA PlanGenerateFlat == ASSUME PlanInv, NEW c \in Planners, Plan!GenerateFlat(c) PROVE PlanInv'
<1>1. PICK n : n = Plan!Top(Plan!VersionsOf(task, "archived")) + 1
  OBVIOUS
<1>2. n \in Nat /\ n > 0
  BY <1>1, VersionsAreNat
<1>3. PICK g : g = [Plan!NoGen EXCEPT !.at = "ask", !.version = n]
  OBVIOUS
<1>4. GenFits(g) /\ g.kin = {} /\ g.doomed = {} /\ g.at = "ask"
  BY <1>2, <1>3 DEF Plan!NoGen, Plan!Generator, GenFits
<1>5. gen' = [gen EXCEPT ![c] = g] /\ gen[c].at = "idle" /\ UNCHANGED <<epic, feature, legacy, unchecked>>
  BY <1>1, <1>3 DEF Plan!GenerateFlat, Plan!Start
<1>6. PICK S : task' = Plan!Without(task, S)
  BY DEF Plan!GenerateFlat
<1>7. Prunes(task, task')
  BY <1>6, TasksLeft, PlanFacts
<1> QED
  BY <1>4, <1>5, <1>7, OneMoves, PlanFacts

LEMMA PlanGenerateEpics ==
  ASSUME PlanInv, NEW c \in Planners, NEW whole \in BOOLEAN, Plan!GenerateEpics(c, whole) PROVE PlanInv'
<1>1. PICK n : n = Plan!Top(Plan!VersionsOf(epic, "archived")) + 1
  OBVIOUS
<1>2. n \in Nat /\ n > 0
  BY <1>1, VersionsAreNat
<1>3. PICK g : g = [Plan!NoGen EXCEPT !.at = "ask", !.op = "epics", !.whole = whole, !.version = n]
  OBVIOUS
<1>4. GenFits(g) /\ g.kin = {} /\ g.doomed = {} /\ g.at = "ask"
  BY <1>2, <1>3 DEF Plan!NoGen, Plan!Generator, GenFits
<1>5. gen' = [gen EXCEPT ![c] = g] /\ gen[c].at = "idle" /\ UNCHANGED <<legacy, unchecked>>
  BY <1>1, <1>3 DEF Plan!GenerateEpics, Plan!Start
<1>6. PICK es : Plan!DropEpics(es)
  BY DEF Plan!GenerateEpics
<1>7. Prunes(task, task') /\ EpicsOK(epic') /\ FeaturesOK(feature')
  BY <1>6, DropKeeps
<1> QED
  BY <1>4, <1>5, <1>7, OneMoves, PlanFacts

LEMMA PlanDecomposeLegacy == ASSUME PlanInv, NEW c \in Planners, Plan!DecomposeLegacy(c) PROVE PlanInv'
<1>1. PICK n : n = Plan!Top(Plan!VersionsOf(epic, "archived")) + 1
  OBVIOUS
<1>2. n \in Nat /\ n > 0
  BY <1>1, VersionsAreNat
<1>3. PICK g : g = [Plan!NoGen EXCEPT !.at = "ask", !.op = "epics", !.whole = TRUE, !.version = n]
  OBVIOUS
<1>4. GenFits(g) /\ g.kin = {} /\ g.doomed = {} /\ g.at = "ask"
  BY <1>2, <1>3 DEF Plan!NoGen, Plan!Generator, GenFits
<1>5. gen' = [gen EXCEPT ![c] = g] /\ gen[c].at = "idle" /\ UNCHANGED <<epic, feature, task, unchecked>>
  BY <1>1, <1>3 DEF Plan!DecomposeLegacy, Plan!Start
<1>6. legacy' \subseteq Plan!Tasks
  BY PlanFacts DEF Plan!DecomposeLegacy, Plan!Shown, Plan!Live
<1> QED
  BY <1>4, <1>5, <1>6, OneMoves, PlanFacts

LEMMA PlanGenerateBelow == ASSUME PlanInv, NEW c \in Planners, Plan!GenerateBelow(c) PROVE PlanInv'
<1>1. gen[c].at = "idle" /\ UNCHANGED <<epic, feature, task, legacy, unchecked>>
  BY DEF Plan!GenerateBelow
<1>2. Plan!Live(epic) \subseteq Plan!Epics /\ Plan!Live(feature) \subseteq Plan!Features
  BY PlanFacts DEF Plan!Live
<1>3. ASSUME NEW es \in SUBSET Plan!Live(epic),
             Plan!Start(c, [Plan!NoGen EXCEPT !.at = "next", !.op = "features", !.todo = es])
      PROVE  PlanInv'
  <2>1. PICK g : g = [Plan!NoGen EXCEPT !.at = "next", !.op = "features", !.todo = es]
    OBVIOUS
  <2>2. GenFits(g) /\ g.kin = {} /\ g.doomed = {} /\ g.at = "next"
    BY <1>2, <1>3, <2>1 DEF Plan!NoGen, Plan!Generator, GenFits
  <2> QED
    BY <1>1, <1>3, <2>1, <2>2, OneMoves, PlanFacts DEF Plan!Start
<1>4. ASSUME NEW fs \in SUBSET Plan!Live(feature),
             Plan!Start(c, [Plan!NoGen EXCEPT !.at = "next", !.op = "tasks", !.todo = fs])
      PROVE  PlanInv'
  <2>1. PICK g : g = [Plan!NoGen EXCEPT !.at = "next", !.op = "tasks", !.todo = fs]
    OBVIOUS
  <2>2. GenFits(g) /\ g.kin = {} /\ g.doomed = {} /\ g.at = "next"
    BY <1>2, <1>4, <2>1 DEF Plan!NoGen, Plan!Generator, GenFits
  <2> QED
    BY <1>1, <1>4, <2>1, <2>2, OneMoves, PlanFacts DEF Plan!Start
<1> QED
  BY <1>3, <1>4 DEF Plan!GenerateBelow

LEMMA PlanNextEpic == ASSUME PlanInv, NEW c \in Planners, Plan!NextEpic(c) PROVE PlanInv'
<1>1. gen[c].at = "next" /\ gen[c].op = "features" /\ UNCHANGED <<epic, legacy, unchecked>>
  BY DEF Plan!NextEpic
<1>2. PICK e \in gen[c].todo \cap Plan!Live(epic) :
       LET drafts == Plan!FeaturesOf({e}) \cap Plan!Having(feature, "draft") IN
       /\ task' = Plan!TasksWithout(drafts)
       /\ feature' = Plan!Without(feature, drafts)
       /\ gen' = [gen EXCEPT ![c].at = "ask", ![c].of = e, ![c].version = epic[e].version,
                             ![c].todo = @ \ {e}]
  BY DEF Plan!NextEpic
<1>3. PICK drafts : task' = Plan!TasksWithout(drafts) /\ feature' = Plan!Without(feature, drafts)
  BY <1>2
<1>4. Prunes(task, task')
  BY <1>3, PlanFacts, TasksWithoutPrunes
<1>5. FeaturesOK(feature')
  <2>1. "draft" \in Plan!ListStatus
    BY DEF Plan!ListStatus
  <2> QED
    BY <1>3, <2>1, PlanFacts, FeaturesLeft
<1>6. e \in Plan!Epics /\ epic[e].version \in Nat /\ epic[e].version > 0
  BY PlanFacts DEF Plan!Live, EpicsOK, Plan!EpicRow
<1>7. gen[c] \in Plan!Generator /\ GenFits(gen[c]) /\ gen[c].kin \subseteq Made /\ gen[c].doomed \subseteq Made
  BY PlanFacts
<1>8. PICK g : g = [at |-> "ask", op |-> gen[c].op, of |-> e, version |-> epic[e].version, doomed |-> gen[c].doomed,
                    kin |-> gen[c].kin, todo |-> gen[c].todo \ {e}, whole |-> gen[c].whole]
  OBVIOUS
<1>9. GenFits(g) /\ g.kin = gen[c].kin /\ g.doomed = gen[c].doomed /\ g.at = "ask"
  BY <1>1, <1>6, <1>7, <1>8 DEF GenFits, Plan!Generator
<1>10. gen' = [gen EXCEPT ![c] = g]
  BY <1>2, <1>7, <1>8, PlanFacts DEF Plan!Generator
<1> QED
  BY <1>1, <1>4, <1>5, <1>7, <1>9, <1>10, OneMoves, PlanFacts

LEMMA PlanNextFeature == ASSUME PlanInv, NEW c \in Planners, Plan!NextFeature(c) PROVE PlanInv'
<1>1. gen[c].at = "next" /\ gen[c].op = "tasks" /\ UNCHANGED <<epic, feature, task, legacy, unchecked>>
  BY DEF Plan!NextFeature
<1>2. PICK f \in gen[c].todo \cap Plan!Live(feature) :
       LET drafts == Plan!Shown \cap Plan!Having(task, "draft")
           others == {t \in drafts : task[t].feature # f} IN
       gen' = [gen EXCEPT ![c].at = "purge", ![c].of = f, ![c].todo = @ \ {f},
                 ![c].doomed = (drafts \ others) \cup {t \in Plan!Shown : task[t].feature = 0 /\ Plan!Unstarted(t)},
                 ![c].kin = Plan!Shown \cap Plan!TasksOf(Plan!FeaturesOf({feature[f].epic})),
                 ![c].version = IF others # {} THEN Plan!Current ELSE Plan!Current + 1]
  BY DEF Plan!NextFeature
<1>3. Plan!Shown \subseteq Made /\ (Plan!Shown # {} => Plan!Current # 0)
  BY PlanFacts DEF Plan!Shown, Plan!Live, Made, PlanInv, TasksOK
<1> DEFINE others == {t \in Plan!Shown \cap Plan!Having(task, "draft") : task[t].feature # f}
<1>4. PICK doomed \in SUBSET Plan!Shown, kin \in SUBSET Plan!Shown :
       gen' = [gen EXCEPT ![c].at = "purge", ![c].of = f, ![c].todo = @ \ {f}, ![c].doomed = doomed, ![c].kin = kin,
                          ![c].version = IF others # {} THEN Plan!Current ELSE Plan!Current + 1]
  BY <1>2
<1>5. PICK v : v = IF others # {} THEN Plan!Current ELSE Plan!Current + 1
  OBVIOUS
<1>6. v \in Nat /\ v > 0
  BY <1>3, <1>5, VersionsAreNat
<1>7. gen[c] \in Plan!Generator /\ GenFits(gen[c])
  BY PlanFacts
<1>8. f \in Plan!Features /\ Made \subseteq Plan!Tasks
  BY PlanFacts DEF Plan!Live, Made
<1>9. PICK g : g = [at |-> "purge", op |-> gen[c].op, of |-> f, version |-> v, doomed |-> doomed,
                    kin |-> kin, todo |-> gen[c].todo \ {f}, whole |-> gen[c].whole]
  OBVIOUS
<1>10. GenFits(g) /\ g.kin \subseteq Made /\ g.doomed \subseteq Made /\ g.at = "purge"
  BY <1>1, <1>3, <1>6, <1>7, <1>8, <1>9 DEF GenFits, Plan!Generator
<1>11. gen' = [gen EXCEPT ![c] = g]
  <2>1. gen' = [gen EXCEPT ![c].at = "purge", ![c].of = f, ![c].todo = @ \ {f}, ![c].doomed = doomed, ![c].kin = kin,
                          ![c].version = v]
    BY <1>4, <1>5
  <2> QED
    BY <2>1, <1>7, <1>9, PlanFacts DEF Plan!Generator
<1> QED
  BY <1>1, <1>10, <1>11, OneMoves, PlanFacts

LEMMA PlanPurge == ASSUME PlanInv, NEW c \in Planners, Plan!Purge(c) PROVE PlanInv'
<1>1. PICK none : none = {}
  OBVIOUS
<1>2. gen[c].at = "purge" /\ UNCHANGED <<epic, feature, legacy, unchecked>> /\ task' = Plan!Without(task, gen[c].doomed)
      /\ gen' = [gen EXCEPT ![c].at = "ask", ![c].doomed = none]
  BY <1>1 DEF Plan!Purge
<1>3. gen[c] \in Plan!Generator /\ GenFits(gen[c]) /\ gen[c].kin \subseteq Made
  BY PlanFacts
<1>4. PICK g : g = [at |-> "ask", op |-> gen[c].op, of |-> gen[c].of, version |-> gen[c].version, doomed |-> none,
                    kin |-> gen[c].kin, todo |-> gen[c].todo, whole |-> gen[c].whole]
  OBVIOUS
<1>5. GenFits(g) /\ g.kin \subseteq Made /\ g.doomed \subseteq Made /\ g.at = "ask"
  BY <1>1, <1>2, <1>3, <1>4 DEF GenFits, Plan!Generator
<1>6. gen' = [gen EXCEPT ![c] = g]
  <2>1. gen' = [gen EXCEPT ![c] = [gen[c] EXCEPT !.at = "ask", !.doomed = none]]
    BY <1>2, GenGoes
  <2>2. [gen[c] EXCEPT !.at = "ask", !.doomed = none] = g
    BY <1>3, <1>4, GenFields
  <2> QED
    BY <2>1, <2>2
<1>7. Prunes(task, task')
  BY <1>2, TasksLeft, PlanFacts
<1> QED
  BY <1>2, <1>5, <1>6, <1>7, OneMoves, PlanFacts

LEMMA PlanFail == ASSUME PlanInv, NEW c \in Planners, Plan!Fail(c) PROVE PlanInv'
<1>1. gen[c].at # "check" /\ UNCHANGED <<epic, feature, task, legacy, unchecked>> /\ gen' = [gen EXCEPT ![c] = Plan!NoGen]
  BY DEF Plan!Fail, Plan!Start
<1> QED
  BY <1>1, NoGenFits, OneMoves, PlanFacts

\* A route goes on with what is left, or returns.
LEMMA ContinuesFit ==
  ASSUME PlanInv, NEW c \in Planners, gen[c].op \in {"features", "tasks"}, NEW fs \in SUBSET Plan!Features,
         Plan!Continue(c, fs)
  PROVE  \E g : gen' = [gen EXCEPT ![c] = g] /\ GenFits(g) /\ g.kin = {} /\ g.doomed = {} /\ g.at # "check"
<1> DEFINE more == IF gen[c].todo = {} /\ gen[c].whole /\ gen[c].op = "features" THEN fs ELSE gen[c].todo
           op == IF gen[c].todo = {} THEN "tasks" ELSE gen[c].op
           h == [Plan!NoGen EXCEPT !.at = "next", !.op = op, !.todo = more, !.whole = gen[c].whole]
<1>1. gen' = [gen EXCEPT ![c] = IF more = {} THEN Plan!NoGen ELSE h]
  BY DEF Plan!Continue, Plan!Start
<1>2. gen[c] \in Plan!Generator /\ GenFits(gen[c])
  BY PlanFacts
<1>3. /\ op \in {"features", "tasks"} /\ gen[c].whole \in BOOLEAN
      /\ op = "features" => more \subseteq Plan!Epics
      /\ op = "tasks" => more \subseteq Plan!Features
  BY <1>2 DEF GenFits, Plan!Generator
<1> HIDE DEF more, op
<1>4. GenFits(h) /\ h.kin = {} /\ h.doomed = {} /\ h.at = "next"
  BY <1>3 DEF Plan!NoGen, Plan!Generator, GenFits
<1> HIDE DEF h
<1>5. CASE more = {}
  BY <1>1, <1>5, NoGenFits
<1>6. CASE more # {}
  BY <1>1, <1>4, <1>6
<1> QED
  BY <1>5, <1>6

LEMMA PlanInsertEpics == ASSUME PlanInv, NEW c \in Planners, Plan!InsertEpics(c) PROVE PlanInv'
<1> DEFINE new == Plan!Fresh(epic, 1)
<1>1. /\ gen[c].at = "ask" /\ gen[c].op = "epics" /\ UNCHANGED <<feature, task, legacy, unchecked>>
      /\ epic' = [e \in Plan!Epics |-> IF e \in new THEN [status |-> "draft", version |-> gen[c].version] ELSE epic[e]]
      /\ IF gen[c].whole THEN gen' = [gen EXCEPT ![c].at = "seal", ![c].todo = new] ELSE Plan!Start(c, Plan!NoGen)
  BY DEF Plan!InsertEpics
<1>2. new \subseteq Plan!Epics
  BY PlanFacts DEF Plan!Fresh
<1> HIDE DEF new
<1>3. gen[c] \in Plan!Generator /\ GenFits(gen[c]) /\ gen[c].kin \subseteq Made /\ gen[c].doomed \subseteq Made
  BY PlanFacts
<1>4. gen[c].version \in Nat /\ gen[c].version > 0
  BY <1>1, <1>3 DEF GenFits, Plan!Generator
<1>5. EpicsOK(epic')
  BY <1>1, <1>4, PlanFacts DEF EpicsOK, Plan!EpicRow, Plan!ListStatus
<1>6. CASE gen[c].whole
  <2>1. PICK g : g = [at |-> "seal", op |-> gen[c].op, of |-> gen[c].of, version |-> gen[c].version, doomed |-> gen[c].doomed,
                      kin |-> gen[c].kin, todo |-> new, whole |-> gen[c].whole]
    OBVIOUS
  <2>2. GenFits(g) /\ g.kin \subseteq Made /\ g.doomed \subseteq Made /\ g.at = "seal"
    BY <1>1, <1>2, <1>3, <2>1 DEF GenFits, Plan!Generator
  <2>3. gen' = [gen EXCEPT ![c] = g]
    BY <1>1, <1>3, <1>6, <2>1, PlanFacts DEF Plan!Generator
  <2> QED
    BY <1>1, <1>5, <2>2, <2>3, OneMoves, PlanFacts
<1>7. CASE ~gen[c].whole
  BY <1>1, <1>5, <1>7, NoGenFits, OneMoves, PlanFacts DEF Plan!Start
<1> QED
  BY <1>6, <1>7

LEMMA PlanSeal == ASSUME PlanInv, NEW c \in Planners, Plan!Seal(c) PROVE PlanInv'
<1>1. PICK below : below = "features"
  OBVIOUS
<1>2. /\ gen[c].at = "seal" /\ UNCHANGED <<feature, task, legacy, unchecked>>
      /\ epic' = [e \in Plan!Epics |->
               IF epic[e].version = gen[c].version /\ e \in Plan!Live(epic) THEN [epic[e] EXCEPT !.status = "finalized"]
               ELSE IF epic[e].status = "finalized" THEN [epic[e] EXCEPT !.status = "archived"] ELSE epic[e]]
      /\ gen' = [gen EXCEPT ![c].at = "next", ![c].op = below]
  BY <1>1 DEF Plan!Seal
<1>3. gen[c] \in Plan!Generator /\ GenFits(gen[c]) /\ gen[c].kin \subseteq Made /\ gen[c].doomed \subseteq Made
  BY PlanFacts
<1>4. PICK g : g = [at |-> "next", op |-> below, of |-> gen[c].of, version |-> gen[c].version, doomed |-> gen[c].doomed,
                    kin |-> gen[c].kin, todo |-> gen[c].todo, whole |-> gen[c].whole]
  OBVIOUS
<1>5. GenFits(g) /\ g.kin \subseteq Made /\ g.doomed \subseteq Made /\ g.at = "next"
  BY <1>1, <1>2, <1>3, <1>4 DEF GenFits, Plan!Generator
<1>6. gen' = [gen EXCEPT ![c] = g]
  <2>1. gen' = [gen EXCEPT ![c] = [gen[c] EXCEPT !.at = "next", !.op = below]]
    BY <1>2, GenGoes
  <2>2. [gen[c] EXCEPT !.at = "next", !.op = below] = g
    BY <1>3, <1>4, GenFields
  <2> QED
    BY <2>1, <2>2
<1>7. EpicsOK(epic')
  <2>1. \A r \in Plan!EpicRow : \A st \in Plan!ListStatus :
          [r EXCEPT !.status = st] \in Plan!EpicRow /\ [r EXCEPT !.status = st].version = r.version
    BY DEF Plan!EpicRow
  <2>2. "finalized" \in Plan!ListStatus /\ "archived" \in Plan!ListStatus
    BY DEF Plan!ListStatus
  <2>3. \A e \in Plan!Epics : epic[e] \in Plan!EpicRow /\ (epic[e].version = 0 => epic[e].status = "absent")
    BY PlanFacts DEF EpicsOK
  <2>4. \A e \in Plan!Epics : epic'[e] \in Plan!EpicRow /\ epic'[e].version = epic[e].version
          /\ (epic[e].status = "absent" => epic'[e] = epic[e])
    BY <1>2, <2>1, <2>2, <2>3 DEF Plan!Live
  <2>5. epic' = [e \in Plan!Epics |-> epic'[e]]
    BY <1>2
  <2>6. epic' \in [Plan!Epics -> Plan!EpicRow]
    BY <2>4, <2>5
  <2> QED
    BY <2>3, <2>4, <2>6 DEF EpicsOK
<1> QED
  BY <1>2, <1>5, <1>6, <1>7, OneMoves, PlanFacts

LEMMA PlanInsertFeatures == ASSUME PlanInv, NEW c \in Planners, Plan!InsertFeatures(c) PROVE PlanInv'
<1> DEFINE new == Plan!Fresh(feature, 1)
<1>1. /\ gen[c].at = "ask" /\ gen[c].op = "features" /\ UNCHANGED <<epic, task, legacy, unchecked>>
      /\ feature' = [f \in Plan!Features |-> IF f \in new THEN [status |-> "draft", version |-> gen[c].version,
                                                                 epic |-> gen[c].of] ELSE feature[f]]
      /\ Plan!Continue(c, new \cup {f \in Plan!Live(feature) : feature[f].version = gen[c].version})
  BY DEF Plan!InsertFeatures
<1>2. new \subseteq Plan!Features /\ Plan!Live(feature) \subseteq Plan!Features
  BY PlanFacts DEF Plan!Fresh, Plan!Live
<1> HIDE DEF new
<1>3. PICK fs \in SUBSET Plan!Features : Plan!Continue(c, fs)
  BY <1>1, <1>2
<1>4. gen[c].version \in Nat /\ gen[c].version > 0 /\ gen[c].of \in Plan!Epics \cup {0}
  BY <1>1, PlanFacts DEF GenFits, Plan!Generator
<1>5. FeaturesOK(feature')
  BY <1>1, <1>4, PlanFacts DEF FeaturesOK, Plan!FeatureRow, Plan!ListStatus
<1>6. PICK g : gen' = [gen EXCEPT ![c] = g] /\ GenFits(g) /\ g.kin = {} /\ g.doomed = {} /\ g.at # "check"
  BY <1>1, <1>3, ContinuesFit
<1> QED
  BY <1>1, <1>5, <1>6, OneMoves, PlanFacts

(***************************************************************************)
(* Steps that put tasks in                                                 *)
(***************************************************************************)
LEMMA PlanPuts ==
  ASSUME PlanInv, NEW N \in SUBSET (Plan!Tasks \ Made), task' \in [Plan!Tasks -> Plan!TaskRow],
         \A t \in Plan!Tasks \ N : task'[t] = task[t],
         \A t \in N : task'[t].version > 0 /\ task'[t].deps \subseteq Made \cup N,
         UNCHANGED <<epic, feature, legacy>>, gen' \in [Planners -> Plan!Generator],
         unchecked \subseteq unchecked', unchecked' \subseteq Plan!Tasks,
         \A c \in Planners : gen'[c] = gen[c] \/
           (/\ GenFits(gen'[c]) /\ gen'[c].kin \subseteq Made /\ gen'[c].doomed \subseteq Made \cup N
            /\ gen[c].at # "check"
            /\ gen'[c].at = "check" => \A t \in gen'[c].doomed : t \in N /\ task'[t].version = gen'[c].version),
         \/ \A t \in N : task'[t].deps = {}
         \/ \E c \in Planners : gen'[c].at = "check" /\ gen'[c].doomed = N
         \/ \A t \in N : task'[t].status # "absent" => t \in unchecked'
  PROVE  PlanInv'
<1>1. Made' = Made \cup N
  BY DEF Made, Plan!TaskRow
<1>2. TasksOK'
  BY <1>1 DEF PlanInv, TasksOK
<1>3. GensOK'
  <2> SUFFICES ASSUME NEW c \in Planners
               PROVE  /\ GenFits(gen'[c]) /\ gen'[c].kin \subseteq Made' /\ gen'[c].doomed \subseteq Made'
                      /\ gen'[c].at = "check" =>
                           \A t \in gen'[c].doomed : task'[t].status # "absent" => task'[t].version = gen'[c].version
    BY DEF GensOK, GenFits
  <2>1. CASE gen'[c] = gen[c]
    <3>1. /\ GenFits(gen[c]) /\ gen[c].kin \subseteq Made /\ gen[c].doomed \subseteq Made
          /\ gen[c].at = "check" =>
               \A t \in gen[c].doomed : task[t].status # "absent" => task[t].version = gen[c].version
      BY DEF PlanInv, GensOK
    <3>2. \A t \in gen[c].doomed : task'[t] = task[t]
      BY <3>1 DEF Made
    <3> QED
      BY <1>1, <2>1, <3>1, <3>2
  <2>2. CASE /\ GenFits(gen'[c]) /\ gen'[c].kin \subseteq Made /\ gen'[c].doomed \subseteq Made \cup N
             /\ gen'[c].at = "check" => \A t \in gen'[c].doomed : t \in N /\ task'[t].version = gen'[c].version
    BY <1>1, <2>2
  <2> QED
    BY <2>1, <2>2
<1>4. StuckIsChecked'
  <2> SUFFICES ASSUME NEW S \in SUBSET Plan!Live(task'), Stuck(task', S), S \cap unchecked' = {}
               PROVE  \E c \in Planners : gen'[c].at = "check" /\ Stuck(task', S \cap gen'[c].doomed)
    BY DEF StuckIsChecked, Stuck, Plan!Live
  <2>1. S \subseteq Plan!Tasks /\ \A t \in S : task'[t].status # "absent"
    BY DEF Plan!Live
  <2>2. CASE S \subseteq N
    <3>1. PICK t \in S : task'[t].deps # {}
      BY DEF Stuck
    <3>2. PICK c \in Planners : gen'[c].at = "check" /\ gen'[c].doomed = N
      BY <2>1, <2>2, <3>1
    <3>3. S \cap gen'[c].doomed = S
      BY <2>2, <3>2
    <3>4. Stuck(task', S \cap gen'[c].doomed)
      BY <3>3
    <3> QED
      BY <3>2, <3>4
  <2>3. CASE ~(S \subseteq N)
    <3>1. PICK O : O = S \ N
      OBVIOUS
    <3>2. \A t \in O : task'[t] = task[t] /\ task[t].deps \subseteq Made /\ task[t].status # "absent"
      BY <2>1, <3>1 DEF PlanInv, TasksOK
    <3>3. O \in SUBSET Plan!Live(task)
      BY <2>1, <3>1, <3>2, PlanFacts DEF Plan!Live
    <3>4. Stuck(task, O)
      <4>1. ASSUME NEW t \in O PROVE task[t].deps \cap O # {}
        <5>1. PICK d \in task[t].deps : d \in S
          BY <3>1, <3>2 DEF Stuck
        <5>2. d \in Made /\ d \notin N
          BY <3>2, <5>1
        <5> QED
          BY <3>1, <5>1, <5>2
      <4> QED
        BY <2>3, <3>1, <4>1 DEF Stuck
    <3>5. PICK c \in Planners : gen[c].at = "check" /\ Stuck(task, O \cap gen[c].doomed)
      <4>1. O \cap unchecked = {}
        BY <3>1
      <4> QED
        BY <3>3, <3>4, <4>1 DEF PlanInv, StuckIsChecked
    <3>6. gen'[c] = gen[c] /\ gen[c].doomed \subseteq Made
      BY <3>5, PlanFacts
    <3>7. PICK D : D = O \cap gen[c].doomed
      OBVIOUS
    <3>8. S \cap gen'[c].doomed = D
      BY <3>1, <3>6, <3>7
    <3>9. Stuck(task', D)
      BY <3>2, <3>5, <3>7 DEF Stuck
    <3> QED
      BY <3>5, <3>6, <3>8, <3>9
  <2> QED
    BY <2>2, <2>3
<1>5. EpicsOK(epic') /\ FeaturesOK(feature')
  BY DEF PlanInv
<1> QED
  BY <1>2, <1>3, <1>4, <1>5 DEF PlanInv

\* New rows that wait for nothing.
WithPlain(N, st, v) ==
  [t \in Plan!Tasks |-> IF t \in N THEN [task[t] EXCEPT !.status = st, !.version = v] ELSE task[t]]

LEMMA PlainRows ==
  ASSUME PlanInv, NEW N \in SUBSET Plan!Tasks, \A t \in N : task[t].version = 0, NEW st \in Plan!ListStatus,
         NEW v \in Nat, v > 0,
         task' = WithPlain(N, st, v)
  PROVE  /\ N \in SUBSET (Plan!Tasks \ Made) /\ task' \in [Plan!Tasks -> Plan!TaskRow]
         /\ \A t \in Plan!Tasks \ N : task'[t] = task[t]
         /\ \A t \in N : task'[t].version > 0 /\ task'[t].deps = {}
<1>1. N \in SUBSET (Plan!Tasks \ Made)
  BY DEF Made
<1>2. \A t \in N : task[t].deps = {}
  BY DEF PlanInv, TasksOK
<1>3. ASSUME NEW r \in Plan!TaskRow
      PROVE  /\ [r EXCEPT !.status = st, !.version = v] \in Plan!TaskRow
             /\ [r EXCEPT !.status = st, !.version = v].version = v
             /\ [r EXCEPT !.status = st, !.version = v].deps = r.deps
  BY <1>3 DEF Plan!TaskRow
<1>4. \A t \in Plan!Tasks : task[t] \in Plan!TaskRow
  BY PlanFacts
<1>5. ASSUME NEW t \in Plan!Tasks PROVE task'[t] \in Plan!TaskRow
  BY <1>3, <1>4, <1>5 DEF WithPlain
<1>6. task' = [t \in Plan!Tasks |-> task'[t]]
  BY DEF WithPlain
<1>7. task' \in [Plan!Tasks -> Plan!TaskRow]
  BY <1>5, <1>6
<1>8. \A t \in Plan!Tasks \ N : task'[t] = task[t]
  BY DEF WithPlain
<1>9. \A t \in N : task'[t].version = v /\ task'[t].deps = {}
  BY <1>2, <1>3, <1>4 DEF WithPlain
<1> QED
  BY <1>1, <1>7, <1>8, <1>9

LEMMA FreshTasks == ASSUME PlanInv, NEW n 
  PROVE  Plan!Fresh(task, n) \in SUBSET Plan!Tasks /\ \A t \in Plan!Fresh(task, n) : task[t].version = 0
BY PlanFacts DEF Plan!Fresh

LEMMA PlanInsertFlat == ASSUME PlanInv, NEW c \in Planners, Plan!InsertFlat(c) PROVE PlanInv'
<1>1. PICK N : N = Plan!Fresh(task, 1)
  OBVIOUS
<1>3. PICK v, st : v = gen[c].version /\ st = "draft"
  OBVIOUS
<1>2. /\ gen[c].at = "ask" /\ UNCHANGED <<epic, feature, legacy, unchecked>> /\ gen' = [gen EXCEPT ![c] = Plan!NoGen]
      /\ task' = WithPlain(N, st, v)
  BY <1>1, <1>3 DEF Plan!InsertFlat, Plan!Start, WithPlain
<1>4. v \in Nat /\ v > 0 /\ st \in Plan!ListStatus
  BY <1>2, <1>3, PlanFacts DEF GenFits, Plan!Generator, Plan!ListStatus
<1>5. N \in SUBSET Plan!Tasks /\ \A t \in N : task[t].version = 0
  BY <1>1, FreshTasks
<1>6. /\ N \in SUBSET (Plan!Tasks \ Made) /\ task' \in [Plan!Tasks -> Plan!TaskRow]
      /\ \A t \in Plan!Tasks \ N : task'[t] = task[t]
      /\ \A t \in N : task'[t].version > 0 /\ task'[t].deps = {}
  BY <1>2, <1>3, <1>4, <1>5, PlainRows
<1>7. /\ gen' \in [Planners -> Plan!Generator]
      /\ \A e \in Planners : gen'[e] = gen[e] \/
           (/\ GenFits(gen'[e]) /\ gen'[e].kin \subseteq Made /\ gen'[e].doomed \subseteq Made \cup N
            /\ gen[e].at # "check" /\ gen'[e].at # "check")
  BY <1>2, NoGenFits, PlanFacts
<1>8. unchecked \subseteq unchecked' /\ unchecked' \subseteq Plan!Tasks
  BY <1>2, PlanFacts
<1> QED
  BY <1>2, <1>6, <1>7, <1>8, PlanPuts

LEMMA PlanAddTask == ASSUME PlanInv, Plan!AddTask PROVE PlanInv'
<1>1. PICK N : N = Plan!Fresh(task, 1)
  OBVIOUS
<1>2. PICK v, st : v = Plan!Current /\ st = "finalized"
  OBVIOUS
<1>3. /\ UNCHANGED <<epic, feature, gen, legacy, unchecked>>
      /\ task' = WithPlain(N, st, v)
  BY <1>1, <1>2 DEF Plan!AddTask, WithPlain
<1>4. v \in Nat /\ v > 0 /\ st \in Plan!ListStatus
  <2>1. v # 0
    BY <1>2 DEF Plan!AddTask, Plan!Shown
  <2> QED
    BY <1>2, <2>1, VersionsAreNat DEF Plan!ListStatus
<1>5. N \in SUBSET Plan!Tasks /\ \A t \in N : task[t].version = 0
  BY <1>1, FreshTasks
<1>6. /\ N \in SUBSET (Plan!Tasks \ Made) /\ task' \in [Plan!Tasks -> Plan!TaskRow]
      /\ \A t \in Plan!Tasks \ N : task'[t] = task[t]
      /\ \A t \in N : task'[t].version > 0 /\ task'[t].deps = {}
  BY <1>3, <1>4, <1>5, PlainRows
<1>7. gen' \in [Planners -> Plan!Generator] /\ \A e \in Planners : gen'[e] = gen[e]
  BY <1>3, PlanFacts
<1>8. unchecked \subseteq unchecked' /\ unchecked' \subseteq Plan!Tasks
  BY <1>3, PlanFacts
<1> QED
  BY <1>3, <1>6, <1>7, <1>8, PlanPuts

\* The rows that InsertTasks puts in, or begins to put in.
InsertsTasks(c, new) ==
  \E deps \in [new -> SUBSET (new \cup gen[c].kin)], last \in new :
    LET put == {t \in new : t <= last} IN
    /\ \A t \in new : t \notin deps[t]
    /\ task' = [t \in Plan!Tasks |->
                 IF t \in put THEN [status |-> "draft", version |-> gen[c].version, feature |-> gen[c].of,
                                    progress |-> "backlog", deps |-> deps[t]]
                 ELSE IF t \in new THEN [x \in DOMAIN task[t] |-> Plan!Gone[x]] ELSE task[t]]
    /\ IF put = new
       THEN /\ gen' = [gen EXCEPT ![c].at = "check", ![c].doomed = new, ![c].kin = {}]
            /\ UNCHANGED unchecked
       ELSE Plan!Start(c, Plan!NoGen) /\ Plan!Leaves(put)

LEMMA PlanInsertTasks == ASSUME PlanInv, NEW c \in Planners, Plan!InsertTasks(c) PROVE PlanInv'
<1>1. PICK n \in 1..MaxTasks : InsertsTasks(c, Plan!Fresh(task, n))
  BY DEF Plan!InsertTasks, InsertsTasks
<1>2. PICK N, none : N = Plan!Fresh(task, n) /\ none = {}
  OBVIOUS
<1>4. gen[c].at = "ask" /\ gen[c].op = "tasks" /\ UNCHANGED <<epic, feature, legacy>>
  BY DEF Plan!InsertTasks
<1>5. gen[c] \in Plan!Generator /\ GenFits(gen[c]) /\ gen[c].kin \subseteq Made /\ Made \subseteq Plan!Tasks
  BY PlanFacts DEF Made
<1>6. gen[c].version \in Nat /\ gen[c].version > 0 /\ gen[c].of \in Plan!Features
  BY <1>4, <1>5 DEF GenFits, Plan!Generator
<1>7. N \in SUBSET (Plan!Tasks \ Made) /\ N \subseteq Plan!Tasks
  BY <1>2, FreshTasks DEF Made
<1>3. PICK deps \in [N -> SUBSET (N \cup gen[c].kin)], put \in SUBSET N :
        /\ task' = [t \in Plan!Tasks |->
                     IF t \in put THEN [status |-> "draft", version |-> gen[c].version, feature |-> gen[c].of,
                                        progress |-> "backlog", deps |-> deps[t]]
                     ELSE IF t \in N THEN GoneTask ELSE task[t]]
        /\ \/ /\ put = N /\ UNCHANGED unchecked
              /\ gen' = [gen EXCEPT ![c].at = "check", ![c].doomed = N, ![c].kin = none]
           \/ /\ gen' = [gen EXCEPT ![c] = Plan!NoGen] /\ unchecked' = unchecked \cup put
  <2>1. InsertsTasks(c, N)
    BY <1>1, <1>2
  <2>2. PICK deps \in [N -> SUBSET (N \cup gen[c].kin)], last \in N :
          LET put == {t \in N : t <= last} IN
          /\ task' = [t \in Plan!Tasks |->
                       IF t \in put THEN [status |-> "draft", version |-> gen[c].version, feature |-> gen[c].of,
                                          progress |-> "backlog", deps |-> deps[t]]
                       ELSE IF t \in N THEN [x \in DOMAIN task[t] |-> Plan!Gone[x]] ELSE task[t]]
          /\ IF put = N
             THEN /\ gen' = [gen EXCEPT ![c].at = "check", ![c].doomed = N, ![c].kin = {}]
                  /\ UNCHANGED unchecked
             ELSE Plan!Start(c, Plan!NoGen) /\ Plan!Leaves(put)
    BY <2>1, Zenon DEF InsertsTasks
  <2>3. PICK put : put = {t \in N : t <= last}
    OBVIOUS
  <2>4. \A t \in Plan!Tasks : [x \in DOMAIN task[t] |-> Plan!Gone[x]] = GoneTask
    BY GoneRows, PlanFacts
  <2>5. task' = [t \in Plan!Tasks |->
                     IF t \in put THEN [status |-> "draft", version |-> gen[c].version, feature |-> gen[c].of,
                                        progress |-> "backlog", deps |-> deps[t]]
                     ELSE IF t \in N THEN GoneTask ELSE task[t]]
    BY <2>2, <2>3, <2>4
  <2>6. \/ /\ put = N /\ UNCHANGED unchecked
           /\ gen' = [gen EXCEPT ![c].at = "check", ![c].doomed = N, ![c].kin = none]
        \/ /\ gen' = [gen EXCEPT ![c] = Plan!NoGen] /\ unchecked' = unchecked \cup put
    BY <1>2, <2>2, <2>3 DEF Plan!Start, Plan!Leaves
  <2> QED
    BY <2>3, <2>5, <2>6
<1>8. ASSUME NEW t \in put
      PROVE  task'[t] \in Plan!TaskRow /\ task'[t].version = gen[c].version /\ task'[t].deps \subseteq Made \cup N
  <2>1. PICK D : D = deps[t]
    OBVIOUS
  <2>2. D \subseteq Made \cup N /\ D \subseteq Plan!Tasks
    BY <1>5, <1>7, <2>1
  <2>3. task'[t] = [status |-> "draft", version |-> gen[c].version, feature |-> gen[c].of, progress |-> "backlog", deps |-> D]
    BY <1>3, <1>7, <2>1
  <2> QED
    BY <1>6, <2>2, <2>3 DEF Plan!TaskRow, Plan!ListStatus
<1>9. \A t \in Plan!Tasks \ N : task'[t] = task[t] /\ task[t] \in Plan!TaskRow
  BY <1>3, PlanFacts
<1>g. GoneTask \in Plan!TaskRow /\ GoneTask.status = "absent" /\ GoneTask.version = 1 /\ GoneTask.deps = {}
  BY DEF GoneTask, Plan!TaskRow, Plan!ListStatus
<1>h. \A t \in N \ put : task'[t] = GoneTask
  BY <1>3, <1>7
<1>10. task' \in [Plan!Tasks -> Plan!TaskRow]
  <2>1. task' = [t \in Plan!Tasks |-> task'[t]]
    BY <1>3
  <2> QED
    BY <1>8, <1>9, <1>g, <1>h, <2>1
<1>17. \A t \in N : task'[t].version > 0 /\ task'[t].deps \subseteq Made \cup N
  BY <1>6, <1>8, <1>g, <1>h
<1>18. ASSUME put = N, UNCHANGED unchecked, gen' = [gen EXCEPT ![c].at = "check", ![c].doomed = N, ![c].kin = none]
       PROVE  PlanInv'
  <2>1. PICK g : g = [at |-> "check", op |-> gen[c].op, of |-> gen[c].of, version |-> gen[c].version, doomed |-> N,
                      kin |-> none, todo |-> gen[c].todo, whole |-> gen[c].whole]
    OBVIOUS
  <2>2. gen' = [gen EXCEPT ![c] = g]
    <3>1. gen' = [gen EXCEPT ![c] = [gen[c] EXCEPT !.at = "check", !.doomed = N, !.kin = none]]
      BY <1>18, GenGoes
    <3>2. gen[c] \in Plan!Generator
      BY <1>5
    <3>3. [gen[c] EXCEPT !.at = "check", !.doomed = N, !.kin = none] = g
      BY <2>1, <3>2, GenThree
    <3> QED
      BY <3>1, <3>3
  <2>3. GenFits(g) /\ g.kin = {} /\ g.doomed = N /\ g.at = "check" /\ g.version = gen[c].version
    BY <1>2, <1>4, <1>5, <1>7, <2>1 DEF GenFits, Plan!Generator
  <2>4. /\ gen' \in [Planners -> Plan!Generator] /\ gen'[c] = g
        /\ \A e \in Planners : e # c => gen'[e] = gen[e]
    BY <2>2, <2>3, PlanFacts DEF GenFits
  <2>5. \A e \in Planners : gen'[e] = gen[e] \/
           (/\ GenFits(gen'[e]) /\ gen'[e].kin \subseteq Made /\ gen'[e].doomed \subseteq Made \cup N
            /\ gen[e].at # "check"
            /\ gen'[e].at = "check" => \A t \in gen'[e].doomed : t \in N /\ task'[t].version = gen'[e].version)
    BY <1>4, <1>8, <1>18, <2>3, <2>4
  <2>6. \E e \in Planners : gen'[e].at = "check" /\ gen'[e].doomed = N
    BY <2>3, <2>4
  <2>7. unchecked \subseteq unchecked' /\ unchecked' \subseteq Plan!Tasks
    BY <1>18, PlanFacts
  <2>8. \A t \in Plan!Tasks \ N : task'[t] = task[t]
    BY <1>9
  <2>9. N \in SUBSET (Plan!Tasks \ Made) /\ UNCHANGED <<epic, feature, legacy>>
    BY <1>4, <1>7
  <2>10. \/ \A t \in N : task'[t].deps = {}
         \/ \E e \in Planners : gen'[e].at = "check" /\ gen'[e].doomed = N
         \/ \A t \in N : task'[t].status # "absent" => t \in unchecked'
    BY <2>6
  <2>11. gen' \in [Planners -> Plan!Generator]
    BY <2>4
  <2> QED
    BY <1>10, <1>17, <2>5, <2>7, <2>8, <2>9, <2>10, <2>11, PlanPuts, SMTT(60)
<1>19. ASSUME gen' = [gen EXCEPT ![c] = Plan!NoGen], unchecked' = unchecked \cup put PROVE PlanInv'
  <2>1. /\ gen' \in [Planners -> Plan!Generator]
        /\ \A e \in Planners : gen'[e] = gen[e] \/
             (/\ GenFits(gen'[e]) /\ gen'[e].kin \subseteq Made /\ gen'[e].doomed \subseteq Made \cup N
              /\ gen[e].at # "check" /\ gen'[e].at # "check")
    BY <1>4, <1>19, NoGenFits, PlanFacts
  <2>2. unchecked \subseteq unchecked' /\ unchecked' \subseteq Plan!Tasks
    BY <1>7, <1>19, PlanFacts
  <2>3. \A t \in N : task'[t].status # "absent" => t \in unchecked'
    BY <1>19, <1>g, <1>h
  <2>4. \A e \in Planners : gen'[e] = gen[e] \/
           (/\ GenFits(gen'[e]) /\ gen'[e].kin \subseteq Made /\ gen'[e].doomed \subseteq Made \cup N
            /\ gen[e].at # "check"
            /\ gen'[e].at = "check" => \A t \in gen'[e].doomed : t \in N /\ task'[t].version = gen'[e].version)
    BY <2>1
  <2>5. \A t \in Plan!Tasks \ N : task'[t] = task[t]
    BY <1>9
  <2> QED
    BY <1>4, <1>7, <1>10, <1>17, <2>1, <2>2, <2>3, <2>4, <2>5, PlanPuts
<1> QED
  BY <1>3, <1>18, <1>19

\* A generator is done with the rows it put in: of those that wait for each
\* other, one is known to have missed its check.
LEMMA PlanSettles ==
  ASSUME PlanInv, NEW c \in Planners, gen[c].at = "check", Prunes(task, task'), UNCHANGED <<epic, feature, legacy>>,
         unchecked \subseteq unchecked', unchecked' \subseteq Plan!Tasks,
         NEW g, gen' = [gen EXCEPT ![c] = g], GenFits(g), g.kin = {}, g.doomed = {}, g.at # "check",
         \A T \in SUBSET (gen[c].doomed \cap Plan!Live(task')) : Stuck(task, T) => T \cap unchecked' # {}
  PROVE  PlanInv'
<1>1. TasksOK /\ TasksOK' /\ Made \subseteq Made'
  BY TasksPruned DEF PlanInv
<1>2. gen' \in [Planners -> Plan!Generator] /\ gen'[c] = g /\ \A e \in Planners : e # c => gen'[e] = gen[e]
  BY PlanFacts DEF GenFits
<1>3. GensOK'
  <2> SUFFICES ASSUME NEW e \in Planners
               PROVE  /\ GenFits(gen'[e]) /\ gen'[e].kin \subseteq Made' /\ gen'[e].doomed \subseteq Made'
                      /\ gen'[e].at = "check" =>
                           \A t \in gen'[e].doomed : task'[t].status # "absent" => task'[t].version = gen'[e].version
    BY DEF GensOK, GenFits
  <2>1. CASE e = c
    BY <1>2, <2>1
  <2>2. CASE e # c
    <3>1. /\ GenFits(gen[e]) /\ gen[e].kin \subseteq Made /\ gen[e].doomed \subseteq Made
          /\ gen[e].at = "check" =>
               \A t \in gen[e].doomed : task[t].status # "absent" => task[t].version = gen[e].version
      BY DEF PlanInv, GensOK
    <3>2. \A t \in gen[e].doomed : t \in Plan!Tasks
      BY <3>1 DEF Made
    <3>3. \A t \in gen[e].doomed : task'[t].status # "absent" => task[t].status # "absent" /\ task'[t].version = task[t].version
      BY <3>2 DEF Prunes
    <3> QED
      BY <1>1, <1>2, <2>2, <3>1, <3>3
  <2> QED
    BY <2>1, <2>2
<1>4. StuckIsChecked'
  <2> SUFFICES ASSUME NEW S \in SUBSET Plan!Live(task'), Stuck(task', S), S \cap unchecked' = {}
               PROVE  \E e \in Planners : gen'[e].at = "check" /\ Stuck(task', S \cap gen'[e].doomed)
    BY DEF StuckIsChecked, Stuck, Plan!Live
  <2>1. S \in SUBSET Plan!Live(task) /\ Stuck(task, S) /\ S \cap unchecked = {}
    BY <1>1, StuckBefore
  <2>2. PICK e \in Planners : gen[e].at = "check" /\ Stuck(task, S \cap gen[e].doomed)
    BY <2>1 DEF PlanInv, StuckIsChecked
  <2>3. PICK T \in SUBSET S : T = S \cap gen[e].doomed
    OBVIOUS
  <2>4. e # c
    <3> SUFFICES ASSUME e = c PROVE FALSE
      OBVIOUS
    <3>1. T \in SUBSET (gen[c].doomed \cap Plan!Live(task')) /\ Stuck(task, T)
      BY <2>2, <2>3
    <3> QED
      BY <3>1
  <2>5. gen'[e] = gen[e]
    BY <1>2, <2>4
  <2>6. Stuck(task', T)
    BY <1>1, <2>2, <2>3, StuckBefore
  <2> QED
    BY <2>2, <2>3, <2>5, <2>6
<1> QED
  BY <1>1, <1>2, <1>3, <1>4, PlanFacts DEF PlanInv

LEMMA PlanLoseCheck == ASSUME PlanInv, NEW c \in Planners, Plan!LoseCheck(c) PROVE PlanInv'
<1>1. /\ gen[c].at = "check" /\ UNCHANGED <<epic, feature, task, legacy>> /\ gen' = [gen EXCEPT ![c] = Plan!NoGen]
      /\ unchecked' = unchecked \cup gen[c].doomed
  BY DEF Plan!LoseCheck, Plan!Start, Plan!Leaves
<1>2. Prunes(task, task') /\ unchecked' \subseteq Plan!Tasks
  BY <1>1, PlanFacts DEF Made
<1>3. \A T \in SUBSET (gen[c].doomed \cap Plan!Live(task')) : Stuck(task, T) => T \cap unchecked' # {}
  BY <1>1 DEF Stuck
<1> QED
  BY <1>1, <1>2, <1>3, NoGenFits, PlanSettles

LEMMA PlanCheckTasks == ASSUME PlanInv, NEW c \in Planners, Plan!CheckTasks(c) PROVE PlanInv'
<1> DEFINE ts == {t \in Plan!Live(task) : task[t].version = gen[c].version}
<1>1. gen[c].at = "check" /\ UNCHANGED <<epic, feature, legacy>>
  BY DEF Plan!CheckTasks
<1>2. /\ gen[c] \in Plan!Generator /\ GenFits(gen[c]) /\ gen[c].op = "tasks" /\ gen[c].doomed \subseteq Plan!Tasks
      /\ task \in [Plan!Tasks -> Plan!TaskRow]
  BY <1>1, PlanFacts DEF GenFits, Made
<1>3. ASSUME NEW left \in SUBSET gen[c].doomed, task' = Plan!Without(task, gen[c].doomed \ left), Plan!Leaves(left),
             Plan!Start(c, Plan!NoGen)
      PROVE  PlanInv'
  <2>1. PICK S : S = gen[c].doomed \ left
    OBVIOUS
  <2>2. task' = [t \in Plan!Tasks |-> IF t \in S THEN GoneTask ELSE task[t]] /\ Prunes(task, task')
    BY <1>2, <1>3, <2>1, WithoutTasks, TasksLeft
  <2>3. gen' = [gen EXCEPT ![c] = Plan!NoGen] /\ unchecked' = unchecked \cup left
    BY <1>3 DEF Plan!Start, Plan!Leaves
  <2>4. unchecked' \subseteq Plan!Tasks
    BY <1>2, <2>3, PlanFacts
  <2>5. ASSUME NEW T \in SUBSET (gen[c].doomed \cap Plan!Live(task')), Stuck(task, T) PROVE T \cap unchecked' # {}
    <3>1. PICK t \in T : TRUE
      BY <2>5 DEF Stuck
    <3>2. t \in Plan!Tasks /\ task'[t].status # "absent"
      BY <1>2 DEF Plan!Live
    <3>3. t \notin S
      BY <2>2, <3>2 DEF GoneTask
    <3> QED
      BY <2>1, <2>3, <3>3
  <2> QED
    BY <1>1, <2>2, <2>3, <2>4, <2>5, NoGenFits, PlanSettles
<1>4. ASSUME ~Plan!Cyclic(ts), UNCHANGED <<task, unchecked>>, Plan!Continue(c, {})
      PROVE  PlanInv'
  <2>1. PICK g : gen' = [gen EXCEPT ![c] = g] /\ GenFits(g) /\ g.kin = {} /\ g.doomed = {} /\ g.at # "check"
    BY <1>2, <1>4, ContinuesFit
  <2>2. Prunes(task, task') /\ unchecked \subseteq unchecked' /\ unchecked' \subseteq Plan!Tasks
    BY <1>4, PlanFacts
  <2>3. ASSUME NEW T \in SUBSET (gen[c].doomed \cap Plan!Live(task')), Stuck(task, T) PROVE FALSE
    <3>1. \A t \in T : t \in Plan!Live(task) /\ task[t].status # "absent" /\ t \in gen[c].doomed
      BY <1>4 DEF Plan!Live
    <3>2. T \subseteq ts
      BY <1>1, <3>1 DEF PlanInv, GensOK
    <3> HIDE DEF ts
    <3>3. Plan!Cyclic(ts)
      BY <2>3, <3>2 DEF Plan!Cyclic, Stuck
    <3> QED
      BY <1>4, <3>3
  <2> QED
    BY <1>1, <2>1, <2>2, <2>3, PlanSettles
<1> QED
  BY <1>3, <1>4 DEF Plan!CheckTasks

LEMMA Statuses == "draft" \in Plan!ListStatus /\ "finalized" \in Plan!ListStatus /\ "archived" \in Plan!ListStatus
BY DEF Plan!ListStatus

LEMMA PlanFinalizeTasks == ASSUME PlanInv, Plan!FinalizeTasks PROVE PlanInv'
<1>1. UNCHANGED <<epic, feature, gen, legacy, unchecked>>
  BY DEF Plan!FinalizeTasks
<1>2. PICK v : task' = [t \in Plan!Tasks |->
                 IF t \in Plan!Live(task) /\ task[t].version = v THEN [task[t] EXCEPT !.status = "finalized"]
                 ELSE IF task[t].status = "finalized" THEN [task[t] EXCEPT !.status = "archived"] ELSE task[t]]
  BY DEF Plan!FinalizeTasks
<1>3. \A r \in Plan!TaskRow : \A st \in Plan!ListStatus :
        [r EXCEPT !.status = st] \in Plan!TaskRow /\ [r EXCEPT !.status = st].version = r.version
          /\ [r EXCEPT !.status = st].deps = r.deps
  BY DEF Plan!TaskRow
<1>4. \A t \in Plan!Tasks : task[t] \in Plan!TaskRow
  BY PlanFacts
<1>5. \A t \in Plan!Tasks : /\ task'[t] \in Plan!TaskRow /\ task'[t].version = task[t].version
                            /\ task'[t].deps = task[t].deps
                            /\ task[t].status = "absent" => task'[t] = task[t]
  BY <1>2, <1>3, <1>4, Statuses DEF Plan!Live
<1>6. task' = [t \in Plan!Tasks |-> task'[t]]
  BY <1>2
<1>7. task' \in [Plan!Tasks -> Plan!TaskRow]
  BY <1>5, <1>6
<1>8. Prunes(task, task')
  BY <1>5, <1>7 DEF Prunes
<1> QED
  BY <1>1, <1>8, NoneMoves, PlanFacts

LEMMA PlanArchiveTasks == ASSUME PlanInv, Plan!ArchiveTasks PROVE PlanInv'
<1>1. UNCHANGED <<epic, feature, gen, legacy, unchecked>>
  BY DEF Plan!ArchiveTasks
<1>2. PICK v : task' = Plan!Becomes(task, {t \in Plan!Live(task) : task[t].version = v}, "archived")
  BY DEF Plan!ArchiveTasks
<1>3. PICK S \in SUBSET Plan!Live(task) : S = {t \in Plan!Live(task) : task[t].version = v}
  OBVIOUS
<1>4. Prunes(task, task')
  BY <1>2, <1>3, TasksTurned, Statuses, PlanFacts
<1> QED
  BY <1>1, <1>4, NoneMoves, PlanFacts

LEMMA TurnsFit ==
  ASSUME PlanInv, NEW S, NEW from \in {"draft", "finalized"}, NEW to \in {"draft", "finalized"}
  PROVE  /\ Prunes(task, Plan!Turn(task, S, from, to)) /\ EpicsOK(Plan!Turn(epic, S, from, to))
         /\ FeaturesOK(Plan!Turn(feature, S, from, to))
<1>1. from \in Plan!ListStatus /\ to \in Plan!ListStatus /\ from # "absent"
  BY DEF Plan!ListStatus
<1>2. /\ Plan!Having(task, from) \subseteq Plan!Live(task) /\ Plan!Having(epic, from) \subseteq Plan!Live(epic)
      /\ Plan!Having(feature, from) \subseteq Plan!Live(feature)
  BY <1>1 DEF Plan!Having, Plan!Live
<1>3. Prunes(task, Plan!Turn(task, S, from, to))
  <2>1. PICK T \in SUBSET Plan!Live(task) : T = S \cap Plan!Having(task, from)
    BY <1>2
  <2>2. Prunes(task, Plan!Becomes(task, T, to))
    BY <1>1, TasksTurned, PlanFacts
  <2> QED
    BY <2>1, <2>2 DEF Plan!Turn
<1>4. EpicsOK(Plan!Turn(epic, S, from, to))
  <2>1. PICK T \in SUBSET Plan!Live(epic) : T = S \cap Plan!Having(epic, from)
    BY <1>2
  <2>2. EpicsOK(Plan!Becomes(epic, T, to))
    BY <1>1, EpicsLeft, PlanFacts
  <2> QED
    BY <2>1, <2>2 DEF Plan!Turn
<1>5. FeaturesOK(Plan!Turn(feature, S, from, to))
  <2>1. PICK T \in SUBSET Plan!Live(feature) : T = S \cap Plan!Having(feature, from)
    BY <1>2
  <2>2. FeaturesOK(Plan!Becomes(feature, T, to))
    BY <1>1, FeaturesLeft, PlanFacts
  <2> QED
    BY <2>1, <2>2 DEF Plan!Turn
<1> QED
  BY <1>3, <1>4, <1>5

LEMMA PlanTurns ==
  ASSUME PlanInv, NEW from \in {"draft", "finalized"}, NEW to \in {"draft", "finalized"},
         Plan!TurnFeature(from, to) \/ Plan!TurnEpic(from, to)
  PROVE  PlanInv'
<1>1. CASE Plan!TurnFeature(from, to)
  <2>1. PICK S, T : feature' = Plan!Turn(feature, S, from, to) /\ task' = Plan!Turn(task, T, from, to)
    BY <1>1 DEF Plan!TurnFeature
  <2>2. UNCHANGED <<epic, gen, legacy, unchecked>>
    BY <1>1 DEF Plan!TurnFeature
  <2> QED
    BY <2>1, <2>2, TurnsFit, NoneMoves, PlanFacts
<1>2. CASE Plan!TurnEpic(from, to)
  <2>1. PICK R, S, T : /\ epic' = Plan!Turn(epic, R, from, to) /\ feature' = Plan!Turn(feature, S, from, to)
                       /\ task' = Plan!Turn(task, T, from, to)
    BY <1>2 DEF Plan!TurnEpic
  <2>2. UNCHANGED <<gen, legacy, unchecked>>
    BY <1>2 DEF Plan!TurnEpic
  <2> QED
    BY <2>1, <2>2, TurnsFit, NoneMoves, PlanFacts
<1> QED
  BY <1>1, <1>2

LEMMA PlanDeleteEpics == ASSUME PlanInv, Plan!DeleteEpics PROVE PlanInv'
<1>1. PICK es : Plan!DropEpics(es)
  BY DEF Plan!DeleteEpics
<1>2. UNCHANGED <<gen, legacy, unchecked>>
  BY DEF Plan!DeleteEpics
<1> QED
  BY <1>1, <1>2, DropKeeps, NoneMoves

LEMMA PlanResetPlan == ASSUME PlanInv, Plan!ResetPlan PROVE PlanInv'
<1>1. PICK es, fs, S : /\ epic' = Plan!Without(epic, es) /\ feature' = Plan!Without(feature, fs)
                       /\ task' = Plan!Without(Plan!TasksWithout(fs), S) /\ UNCHANGED <<gen, legacy, unchecked>>
  BY DEF Plan!ResetPlan
<1>2. EpicsOK(epic') /\ FeaturesOK(feature')
  BY <1>1, EpicsLeft, FeaturesLeft, Statuses, PlanFacts
<1>3. PICK left : left = Plan!TasksWithout(fs)
  OBVIOUS
<1>4. Prunes(task, left)
  BY <1>3, TasksWithoutPrunes, PlanFacts
<1>5. Prunes(left, Plan!Without(left, S))
  BY <1>4, TasksLeft DEF Prunes
<1>6. Prunes(task, task')
  BY <1>1, <1>3, <1>4, <1>5, PrunesTwice
<1> QED
  BY <1>1, <1>2, <1>6, NoneMoves

LEMMA PlanDeleteTask == ASSUME PlanInv, NEW c \in Planners, Plan!DeleteTask(c) PROVE PlanInv'
<1>1. gen[c].at = "idle" /\ UNCHANGED <<epic, feature, task, legacy, unchecked>>
  BY DEF Plan!DeleteTask
<1>2. PICK t \in Plan!Live(task) : Plan!Start(c, [Plan!NoGen EXCEPT !.at = "delete", !.of = t])
  BY DEF Plan!DeleteTask
<1>3. t \in Plan!Tasks
  BY PlanFacts DEF Plan!Live
<1>4. PICK g : g = [Plan!NoGen EXCEPT !.at = "delete", !.of = t]
  OBVIOUS
<1>5. GenFits(g) /\ g.kin = {} /\ g.doomed = {} /\ g.at = "delete"
  BY <1>3, <1>4 DEF Plan!NoGen, Plan!Generator, GenFits
<1>6. gen' = [gen EXCEPT ![c] = g]
  BY <1>2, <1>4 DEF Plan!Start
<1> QED
  BY <1>1, <1>5, <1>6, OneMoves, PlanFacts

LEMMA PlanDeleteRow == ASSUME PlanInv, NEW c \in Planners, Plan!DeleteRow(c) PROVE PlanInv'
<1>1. /\ gen[c].at = "delete" /\ UNCHANGED <<epic, feature, legacy, unchecked>> /\ gen' = [gen EXCEPT ![c] = Plan!NoGen]
      /\ task' = Plan!Without(task, {gen[c].of})
  BY DEF Plan!DeleteRow, Plan!Start
<1>2. Prunes(task, task')
  BY <1>1, TasksLeft, PlanFacts
<1> QED
  BY <1>1, <1>2, NoGenFits, OneMoves, PlanFacts

LEMMA Worked ==
  ASSUME PlanInv, NEW t \in Plan!Tasks, NEW st \in {"started", "deployed"}, task' = [task EXCEPT ![t].progress = st]
  PROVE  Prunes(task, task') /\ \A s \in Plan!Tasks : task'[s].status = task[s].status
<1>1. task[t] \in Plan!TaskRow /\ task \in [Plan!Tasks -> Plan!TaskRow]
  BY PlanFacts
<1>2. PICK r : r = [task[t] EXCEPT !.progress = st]
  OBVIOUS
<1>3. r \in Plan!TaskRow /\ r.version = task[t].version /\ r.deps = task[t].deps /\ r.status = task[t].status
  BY <1>1, <1>2 DEF Plan!TaskRow
<1>4. task' = [task EXCEPT ![t] = r]
  BY <1>1, <1>2
<1> QED
  BY <1>1, <1>3, <1>4 DEF Prunes

LEMMA PlanWork == ASSUME PlanInv, NEW t \in Plan!Tasks, Plan!Work(t) PROVE PlanInv'
<1>1. PICK st \in {"started", "deployed"} : task' = [task EXCEPT ![t].progress = st]
  BY DEF Plan!Work
<1>2. UNCHANGED <<epic, feature, gen, legacy, unchecked>>
  BY DEF Plan!Work
<1> QED
  BY <1>1, <1>2, Worked, NoneMoves, PlanFacts

LEMMA PlanNext == ASSUME PlanInv, [Plan!Next]_Plan!planVars PROVE PlanInv'
<1>1. CASE UNCHANGED Plan!planVars
  BY <1>1, NoneMoves, PlanFacts DEF Plan!planVars
<1>2. ASSUME NEW c \in Planners,
             \/ Plan!GenerateFlat(c) \/ Plan!GenerateEpics(c, TRUE) \/ Plan!GenerateEpics(c, FALSE)
             \/ Plan!DecomposeLegacy(c) \/ Plan!GenerateBelow(c) \/ Plan!NextEpic(c) \/ Plan!NextFeature(c)
             \/ Plan!Purge(c) \/ Plan!Fail(c)
      PROVE  PlanInv'
  BY <1>2, PlanGenerateFlat, PlanGenerateEpics, PlanDecomposeLegacy, PlanGenerateBelow, PlanNextEpic, PlanNextFeature,
     PlanPurge, PlanFail
<1>3. ASSUME NEW c \in Planners,
             \/ Plan!InsertFlat(c) \/ Plan!InsertEpics(c) \/ Plan!Seal(c) \/ Plan!InsertFeatures(c)
             \/ Plan!InsertTasks(c) \/ Plan!LoseCheck(c) \/ Plan!CheckTasks(c) \/ Plan!DeleteTask(c)
             \/ Plan!DeleteRow(c)
      PROVE  PlanInv'
  BY <1>3, PlanInsertFlat, PlanInsertEpics, PlanSeal, PlanInsertFeatures, PlanInsertTasks, PlanLoseCheck, PlanCheckTasks,
     PlanDeleteTask, PlanDeleteRow
<1>4. CASE Plan!FinalizeTasks \/ Plan!ArchiveTasks \/ Plan!DeleteEpics \/ Plan!ResetPlan \/ Plan!AddTask
  BY <1>4, PlanFinalizeTasks, PlanArchiveTasks, PlanDeleteEpics, PlanResetPlan, PlanAddTask
<1>5. CASE \/ Plan!TurnFeature("draft", "finalized") \/ Plan!TurnFeature("finalized", "draft")
           \/ Plan!TurnEpic("draft", "finalized") \/ Plan!TurnEpic("finalized", "draft")
  BY <1>5, PlanTurns
<1>6. ASSUME NEW t \in Plan!Tasks, Plan!Work(t) PROVE PlanInv'
  BY <1>6, PlanWork
<1> QED
  BY <1>1, <1>2, <1>3, <1>4, <1>5, <1>6 DEF Plan!Next

LEMMA PlanHolds == ASSUME PlanInv PROVE Plan!TypeOK /\ Plan!PlanIsBuildable
<1>1. Plan!TypeOK
  BY DEF PlanInv, EpicsOK, FeaturesOK, TasksOK, Plan!TypeOK
<1> DEFINE due == UNION {gen[c].doomed : c \in {d \in Planners : gen[d].at = "check"}}
<1>2. ASSUME NEW S \in SUBSET (Plan!Live(task) \ (due \cup unchecked)), Stuck(task, S) PROVE FALSE
  <2>1. PICK c \in Planners : gen[c].at = "check" /\ Stuck(task, S \cap gen[c].doomed)
    BY <1>2 DEF PlanInv, StuckIsChecked
  <2>2. gen[c].doomed \subseteq due
    BY <2>1
  <2>3. S \cap gen[c].doomed = {}
    BY <2>2
  <2> QED
    BY <2>1, <2>3 DEF Stuck
<1>3. Plan!PlanIsBuildable
  BY <1>2 DEF Plan!PlanIsBuildable, Plan!Cyclic, Stuck
<1> QED
  BY <1>1, <1>3

(***************************************************************************)
(* Started work                                                            *)
(***************************************************************************)
Started(t) == task[t].status = "finalized" /\ ~Plan!Unstarted(t)

LEMMA CascadeSpares ==
  ASSUME PlanInv, NEW fs, NEW t \in Plan!Tasks, Started(t)
  PROVE  Plan!TasksWithout(fs)[t].status = "finalized"
<1> DEFINE loose == [s \in Plan!Tasks |-> IF s \in Plan!TasksOf(fs) THEN [task[s] EXCEPT !.feature = 0] ELSE task[s]]
<1>1. \A s \in Plan!Tasks : [task[s] EXCEPT !.feature = 0] \in Plan!TaskRow
                            /\ [task[s] EXCEPT !.feature = 0].status = task[s].status
  BY PlanFacts DEF Plan!TaskRow
<1>2. loose \in [Plan!Tasks -> Plan!TaskRow] /\ loose[t].status = "finalized"
  BY <1>1, PlanFacts DEF Started
<1>3. PICK S : S = {s \in Plan!TasksOf(fs) : Plan!Unstarted(s)}
  OBVIOUS
<1>4. Plan!TasksWithout(fs) = Plan!Without(loose, S)
  BY <1>3 DEF Plan!TasksWithout
<1>5. t \notin S
  BY <1>3 DEF Started
<1> HIDE DEF loose
<1> QED
  BY <1>2, <1>4, <1>5, WithoutTasks

\* Only a row that is in S goes.
LEMMA OthersStay ==
  ASSUME PlanInv, NEW S, NEW t \in Plan!Tasks, t \notin S PROVE Plan!Without(task, S)[t] = task[t]
BY WithoutTasks, PlanFacts

LEMMA PutsSpare ==
  ASSUME PlanInv, NEW c \in Planners, Plan!InsertFlat(c) \/ Plan!InsertTasks(c),
         NEW t \in Plan!Tasks, Started(t)
  PROVE  task'[t] = task[t]
<1>1. task[t].version # 0
  BY DEF Started, PlanInv, TasksOK
<1>2. PICK N : t \notin N /\ \A s \in Plan!Tasks \ N : task'[s] = task[s]
  <2>1. \A n : t \notin Plan!Fresh(task, n)
    BY <1>1 DEF Plan!Fresh
  <2>2. CASE Plan!InsertFlat(c)
    <3>1. \A s \in Plan!Tasks \ Plan!Fresh(task, 1) : task'[s] = task[s]
      BY <2>2 DEF Plan!InsertFlat
    <3> QED
      BY <2>1, <3>1
  <2>4. CASE Plan!InsertTasks(c)
    <3>1. PICK n \in 1..MaxTasks : InsertsTasks(c, Plan!Fresh(task, n))
      BY <2>4 DEF Plan!InsertTasks, InsertsTasks
    <3>2. PICK N : N = Plan!Fresh(task, n) /\ InsertsTasks(c, N)
      BY <3>1
    <3>3. \A s \in Plan!Tasks \ N : task'[s] = task[s]
      BY <3>2 DEF InsertsTasks
    <3> QED
      BY <2>1, <3>2, <3>3
  <2> QED
    BY <2>2, <2>4
<1> QED
  BY <1>2

\* Of a task that was started and goes, some call had looked before.
LEMMA StartedStep ==
  ASSUME PlanInv, [Plan!Next]_Plan!planVars, NEW t \in Plan!Tasks, Started(t), task'[t].status = "absent"
  PROVE  \E c \in Planners : \/ gen[c].at \in {"purge", "check"} /\ t \in gen[c].doomed
                             \/ gen[c].at = "delete" /\ gen[c].of = t
<1> DEFINE known == \E c \in Planners : \/ gen[c].at \in {"purge", "check"} /\ t \in gen[c].doomed
                                        \/ gen[c].at = "delete" /\ gen[c].of = t
<1>s. task[t].status = "finalized" /\ task[t].progress # "backlog"
  BY DEF Started, Plan!Unstarted
<1>1. CASE UNCHANGED task
  BY <1>1, <1>s
<1>2. \A S : t \notin S => task' # Plan!Without(task, S)
  BY <1>s, OthersStay
<1>3. \A fs : task' # Plan!TasksWithout(fs)
  BY CascadeSpares
<1>4. ASSUME NEW c \in Planners,
             Plan!GenerateFlat(c) \/ Plan!GenerateEpics(c, TRUE) \/ Plan!GenerateEpics(c, FALSE) \/ Plan!NextEpic(c)
      PROVE  FALSE
  <2>1. CASE Plan!GenerateFlat(c)
    <3>1. PICK v : task' = Plan!Without(task, {s \in Plan!Having(task, "draft") : task[s].version = v})
      BY <2>1 DEF Plan!GenerateFlat
    <3>2. t \notin {s \in Plan!Having(task, "draft") : task[s].version = v}
      BY <1>s DEF Plan!Having
    <3>3. PICK S : S = {s \in Plan!Having(task, "draft") : task[s].version = v}
      OBVIOUS
    <3> QED
      BY <1>2, <3>1, <3>2, <3>3
  <2>2. CASE Plan!GenerateEpics(c, TRUE) \/ Plan!GenerateEpics(c, FALSE) \/ Plan!NextEpic(c)
    <3>1. PICK fs : task' = Plan!TasksWithout(fs)
      BY <2>2 DEF Plan!GenerateEpics, Plan!NextEpic, Plan!DropEpics
    <3> QED
      BY <1>3, <3>1
  <2> QED
    BY <1>4, <2>1, <2>2
<1>5. ASSUME NEW c \in Planners,
             \/ Plan!DecomposeLegacy(c) \/ Plan!GenerateBelow(c) \/ Plan!NextFeature(c) \/ Plan!Fail(c)
             \/ Plan!InsertEpics(c) \/ Plan!Seal(c) \/ Plan!InsertFeatures(c) \/ Plan!LoseCheck(c)
             \/ Plan!DeleteTask(c)
      PROVE  FALSE
  <2>1. UNCHANGED task
    BY <1>5 DEF Plan!DecomposeLegacy, Plan!GenerateBelow, Plan!NextFeature, Plan!Fail, Plan!InsertEpics, Plan!Seal,
                Plan!InsertFeatures, Plan!LoseCheck, Plan!DeleteTask
  <2> QED
    BY <1>1, <1>s, <2>1
<1>6. ASSUME NEW c \in Planners, Plan!InsertFlat(c) \/ Plan!InsertTasks(c) PROVE FALSE
  BY <1>6, <1>s, PutsSpare
<1>7. ASSUME NEW c \in Planners, Plan!Purge(c) \/ Plan!CheckTasks(c) \/ Plan!DeleteRow(c) PROVE known
  <2>1. CASE Plan!Purge(c)
    <3>1. gen[c].at = "purge" /\ task' = Plan!Without(task, gen[c].doomed)
      BY <2>1 DEF Plan!Purge
    <3> QED
      BY <1>2, <3>1
  <2>2. CASE Plan!CheckTasks(c)
    <3>1. gen[c].at = "check" /\ \E left : (task' = Plan!Without(task, gen[c].doomed \ left) \/ task' = task)
      BY <2>2 DEF Plan!CheckTasks
    <3>2. PICK left : task' = Plan!Without(task, gen[c].doomed \ left) \/ task' = task
      BY <3>1
    <3>3. t \in gen[c].doomed \ left
      <4>1. PICK S : S = gen[c].doomed \ left
        OBVIOUS
      <4> QED
        BY <1>2, <1>s, <3>2, <4>1
    <3> QED
      BY <3>1, <3>3
  <2>3. CASE Plan!DeleteRow(c)
    <3>1. gen[c].at = "delete" /\ task' = Plan!Without(task, {gen[c].of})
      BY <2>3 DEF Plan!DeleteRow
    <3>2. t \in {gen[c].of}
      BY <1>2, <3>1
    <3> QED
      BY <3>1, <3>2
  <2> QED
    BY <1>7, <2>1, <2>2, <2>3
<1>8. CASE Plan!FinalizeTasks \/ Plan!ArchiveTasks
  <2>1. task'[t] = task[t] \/ \E st \in Plan!ListStatus : task'[t] = [task[t] EXCEPT !.status = st] /\ st # "absent"
    <3>1. "finalized" # "absent" /\ "archived" # "absent"
      OBVIOUS
    <3>2. CASE Plan!FinalizeTasks
      BY <3>1, <3>2, Statuses, PlanFacts DEF Plan!FinalizeTasks
    <3>3. CASE Plan!ArchiveTasks
      BY <3>1, <3>3, Statuses, PlanFacts DEF Plan!ArchiveTasks, Plan!Becomes
    <3> QED
      BY <1>8, <3>2, <3>3
  <2>2. task[t] \in Plan!TaskRow
    BY PlanFacts
  <2> QED
    BY <1>s, <2>1, <2>2 DEF Plan!TaskRow
<1>9. ASSUME NEW from \in {"draft", "finalized"}, NEW to \in {"draft", "finalized"},
             Plan!TurnFeature(from, to) \/ Plan!TurnEpic(from, to)
      PROVE  FALSE
  <2>1. PICK S : task' = Plan!Turn(task, S, from, to)
    BY <1>9 DEF Plan!TurnFeature, Plan!TurnEpic
  <2>2. task[t] \in Plan!TaskRow /\ to # "absent" /\ DOMAIN task = Plan!Tasks
    BY PlanFacts
  <2>3. task'[t] = task[t] \/ task'[t] = [task[t] EXCEPT !.status = to]
    BY <2>1, <2>2 DEF Plan!Turn, Plan!Becomes
  <2> QED
    BY <1>s, <2>2, <2>3 DEF Plan!TaskRow
<1>10. CASE Plan!DeleteEpics
  <2>1. PICK fs : task' = Plan!TasksWithout(fs)
    BY <1>10 DEF Plan!DeleteEpics, Plan!DropEpics
  <2> QED
    BY <1>3, <2>1
<1>11. CASE Plan!ResetPlan
  <2>1. PICK fs, S : task' = Plan!Without(Plan!TasksWithout(fs), S) /\ t \notin S
    <3>1. t \notin {s \in Plan!Live(task) : Plan!Unstarted(s)}
      BY DEF Started
    <3> QED
      BY <1>11, <3>1 DEF Plan!ResetPlan
  <2>2. PICK left : left = Plan!TasksWithout(fs)
    OBVIOUS
  <2>3. left \in [Plan!Tasks -> Plan!TaskRow] /\ left[t].status = "finalized"
    BY <2>2, TasksWithoutPrunes, CascadeSpares, PlanFacts DEF Prunes
  <2> QED
    BY <2>1, <2>2, <2>3, WithoutTasks
<1>12. CASE Plan!AddTask
  <2>1. PICK N : t \notin N /\ \A s \in Plan!Tasks \ N : task'[s] = task[s]
    <3>1. t \notin Plan!Fresh(task, 1)
      BY <1>s DEF Plan!Fresh, PlanInv, TasksOK
    <3>2. \A s \in Plan!Tasks \ Plan!Fresh(task, 1) : task'[s] = task[s]
      BY <1>12 DEF Plan!AddTask
    <3> QED
      BY <3>1, <3>2
  <2> QED
    BY <1>s, <2>1
<1>13. ASSUME NEW s \in Plan!Tasks, Plan!Work(s) PROVE FALSE
  <2>1. PICK st \in {"started", "deployed"} : task' = [task EXCEPT ![s].progress = st]
    BY <1>13 DEF Plan!Work
  <2> QED
    BY <1>s, <2>1, Worked
<1>14. CASE \/ Plan!TurnFeature("draft", "finalized") \/ Plan!TurnFeature("finalized", "draft")
            \/ Plan!TurnEpic("draft", "finalized") \/ Plan!TurnEpic("finalized", "draft")
  BY <1>9, <1>14
<1>15. CASE UNCHANGED Plan!planVars
  BY <1>1, <1>15 DEF Plan!planVars
<1>16. ASSUME NEW c \in Planners,
         \/ Plan!GenerateFlat(c) \/ Plan!GenerateEpics(c, TRUE) \/ Plan!GenerateEpics(c, FALSE)
         \/ Plan!DecomposeLegacy(c) \/ Plan!GenerateBelow(c) \/ Plan!NextEpic(c) \/ Plan!NextFeature(c)
         \/ Plan!Purge(c) \/ Plan!Fail(c) \/ Plan!InsertFlat(c) \/ Plan!InsertEpics(c) \/ Plan!Seal(c)
         \/ Plan!InsertFeatures(c) \/ Plan!InsertTasks(c) \/ Plan!LoseCheck(c) \/ Plan!CheckTasks(c)
         \/ Plan!DeleteTask(c) \/ Plan!DeleteRow(c)
       PROVE known
  <2>1. CASE Plan!GenerateFlat(c) \/ Plan!GenerateEpics(c, TRUE) \/ Plan!GenerateEpics(c, FALSE) \/ Plan!NextEpic(c)
    BY <1>4, <2>1
  <2>2. CASE \/ Plan!DecomposeLegacy(c) \/ Plan!GenerateBelow(c) \/ Plan!NextFeature(c) \/ Plan!Fail(c)
             \/ Plan!InsertEpics(c) \/ Plan!Seal(c) \/ Plan!InsertFeatures(c) \/ Plan!LoseCheck(c)
             \/ Plan!DeleteTask(c)
    BY <1>5, <2>2
  <2>3. CASE Plan!InsertFlat(c) \/ Plan!InsertTasks(c)
    BY <1>6, <2>3
  <2>4. CASE Plan!Purge(c) \/ Plan!CheckTasks(c) \/ Plan!DeleteRow(c)
    BY <1>7, <2>4
  <2> QED
    BY <1>16, <2>1, <2>2, <2>3, <2>4
<1>17. CASE Plan!FinalizeTasks \/ Plan!ArchiveTasks \/ Plan!DeleteEpics \/ Plan!ResetPlan \/ Plan!AddTask
  BY <1>8, <1>10, <1>11, <1>12, <1>17
<1>18. CASE \E s \in Plan!Tasks : Plan!Work(s)
  BY <1>13, <1>18
<1>19. CASE Plan!Next
  BY <1>14, <1>16, <1>17, <1>18, <1>19, Zenon DEF Plan!Next
<1> QED
  BY <1>15, <1>19

(***************************************************************************)
(* The projects                                                            *)
(***************************************************************************)
\* Nobody is not a project; the bounds play no part.
NobodyIsNone == Nobody \notin Admin!Projects

\* A row and a call have their fields, whatever these hold.
IsRow(r) == r = [status |-> r.status, name |-> r.name, port |-> r.port, repo |-> r.repo]
IsCall(a) == a = [at |-> a.at, id |-> a.id, row |-> a.row] /\ IsRow(a.row)

ProjectsShape ==
  /\ project = [p \in Admin!Projects |-> project[p]] /\ \A p \in Admin!Projects : IsRow(project[p])
  /\ admin = [c \in Callers |-> admin[c]] /\ \A c \in Callers : IsCall(admin[c])

\* A creation that has not inserted has no project yet.
Creating(c) == admin[c].at \in {"repo", "ports", "insert"}
CreatingIsNew == \A c \in Callers : Creating(c) => admin[c].id = Nobody

PortsApart == \A p, q \in Admin!Rows : p # q => project[p].port # project[q].port

\* A repository whose address no user has typed.
Own(link) == link # Nobody /\ link \notin typed

\* Every such repository in use was made, for one project or one creation.
ReposMade ==
  /\ \A p \in Admin!Projects : Own(project[p].repo) => project[p].repo \in repos
  /\ \A c \in Callers : Own(admin[c].row.repo) => admin[c].row.repo \in repos
RowsApart ==
  \A p, q \in Admin!Projects : p # q /\ project[p].repo = project[q].repo => ~Own(project[p].repo)
CallsOfProject ==
  \A c \in Callers, p \in Admin!Projects :
    Own(admin[c].row.repo) /\ admin[c].row.repo = project[p].repo => admin[c].id = p
CallsApart ==
  \A c, e \in Callers :
    c # e /\ Own(admin[c].row.repo) /\ admin[c].row.repo = admin[e].row.repo
      => admin[c].id = admin[e].id /\ admin[c].id # Nobody
ReposApart == ReposMade /\ RowsApart /\ CallsOfProject /\ CallsApart

ProjectsInv == ProjectsShape /\ CreatingIsNew /\ PortsApart /\ ReposApart

(***************************************************************************)
(* Editing a row or a call                                                 *)
(***************************************************************************)
LEMMA RowEdits ==
  ASSUME NEW r, IsRow(r), NEW v
  PROVE  /\ [r EXCEPT !.status = v] = [status |-> v, name |-> r.name, port |-> r.port, repo |-> r.repo]
         /\ [r EXCEPT !.name = v] = [status |-> r.status, name |-> v, port |-> r.port, repo |-> r.repo]
         /\ [r EXCEPT !.port = v] = [status |-> r.status, name |-> r.name, port |-> v, repo |-> r.repo]
         /\ [r EXCEPT !.repo = v] = [status |-> r.status, name |-> r.name, port |-> r.port, repo |-> v]
BY DEF IsRow

\* The edits the routes make, by name.
Named(r, n) == [r EXCEPT !.name = n]
InStatus(r, st) == [r EXCEPT !.status = st]
AtPort(r, port) == [r EXCEPT !.port = port]
Linked(r, n) == [r EXCEPT !.repo = n]

LEMMA EditedRow ==
  ASSUME NEW r, IsRow(r), NEW v
  PROVE  /\ IsRow(InStatus(r, v)) /\ InStatus(r, v).status = v
         /\ InStatus(r, v).port = r.port /\ InStatus(r, v).repo = r.repo
         /\ IsRow(Named(r, v)) /\ Named(r, v).repo = r.repo
         /\ IsRow(AtPort(r, v)) /\ AtPort(r, v).port = v
         /\ AtPort(r, v).repo = r.repo /\ AtPort(r, v).status = r.status
         /\ IsRow(Linked(r, v)) /\ Linked(r, v).repo = v
BY RowEdits DEF IsRow, InStatus, Named, AtPort, Linked

\* A call goes on with a new repository, or with a port.
GoesLinked(b, at, n) == [b EXCEPT !.at = at, !.row.repo = n]
GoesWithPort(b, at, port) == [b EXCEPT !.at = at, !.row.port = port]

LEMMA EditedCall ==
  ASSUME NEW b, IsCall(b), NEW at, NEW v
  PROVE  /\ GoesLinked(b, at, v) = [at |-> at, id |-> b.id, row |-> Linked(b.row, v)]
         /\ GoesWithPort(b, at, v) = [at |-> at, id |-> b.id, row |-> AtPort(b.row, v)]
<1>0. b = [at |-> b.at, id |-> b.id, row |-> b.row]
  BY DEF IsCall
<1>1. [b EXCEPT !.at = at] = [at |-> at, id |-> b.id, row |-> b.row]
  BY <1>0
<1>2. GoesLinked(b, at, v) = [[b EXCEPT !.at = at] EXCEPT !.row = Linked(b.row, v)]
  BY <1>0 DEF GoesLinked, Linked
<1>3. GoesWithPort(b, at, v) = [[b EXCEPT !.at = at] EXCEPT !.row = AtPort(b.row, v)]
  BY <1>0 DEF GoesWithPort, AtPort
<1>4. /\ [[at |-> at, id |-> b.id, row |-> b.row] EXCEPT !.row = Linked(b.row, v)]
          = [at |-> at, id |-> b.id, row |-> Linked(b.row, v)]
      /\ [[at |-> at, id |-> b.id, row |-> b.row] EXCEPT !.row = AtPort(b.row, v)]
          = [at |-> at, id |-> b.id, row |-> AtPort(b.row, v)]
  OBVIOUS
<1> QED
  BY ONLY <1>1, <1>2, <1>3, <1>4

LEMMA CallFields ==
  ASSUME NEW a, NEW at, NEW id, NEW fresh, a = [at |-> at, id |-> id, row |-> fresh], IsRow(fresh)
  PROVE  IsCall(a) /\ a.at = at /\ a.id = id /\ a.row = fresh
BY DEF IsCall

(***************************************************************************)
(* One call moves                                                          *)
(***************************************************************************)
\* A call that holds no repository, or one the row of its project holds.
LEMMA AdminMoves ==
  ASSUME NobodyIsNone, ProjectsInv, NEW c \in Callers, NEW a, IsCall(a), admin' = [admin EXCEPT ![c] = a], UNCHANGED project,
         repos \subseteq repos', typed \subseteq typed',
         a.at \in {"repo", "ports", "insert"} => a.id = Nobody,
         \/ a.row.repo \in typed' \cup {Nobody}
         \/ a.id \in Admin!Projects /\ a.row.repo = project[a.id].repo
         \/ a.row.repo = admin[c].row.repo /\ a.id = admin[c].id
         \/ a.row.repo \in repos' \ repos
  PROVE  ProjectsInv'
<1>1. ProjectsShape'
  BY DEF ProjectsInv, ProjectsShape
<1>2. admin'[c] = a /\ \A e \in Callers \ {c} : admin'[e] = admin[e]
  BY DEF ProjectsInv, ProjectsShape
<1>3. CreatingIsNew' /\ PortsApart' /\ RowsApart'
  BY <1>2 DEF ProjectsInv, CreatingIsNew, Creating, PortsApart, Admin!Rows, ReposApart, RowsApart, Own
<1>4. ReposMade'
  BY <1>2 DEF ProjectsInv, ReposApart, ReposMade, Own
<1>5. CallsOfProject'
  BY <1>2 DEF ProjectsInv, ReposApart, ReposMade, RowsApart, CallsOfProject, Own
<1>6. CallsApart'
  <2>1. CASE a.row.repo \in typed' \cup {Nobody}
    BY <1>2, <2>1 DEF ProjectsInv, ReposApart, CallsApart, Own
  <2>2. CASE a.id \in Admin!Projects /\ a.row.repo = project[a.id].repo
    BY <1>2, <2>2, NobodyIsNone DEF ProjectsInv, ReposApart, CallsApart, CallsOfProject, NobodyIsNone, Own
  <2>3. CASE a.row.repo = admin[c].row.repo /\ a.id = admin[c].id
    BY <1>2, <2>3 DEF ProjectsInv, ReposApart, CallsApart, Own
  <2>4. CASE a.row.repo \in repos' \ repos
    BY <1>2, <2>4 DEF ProjectsInv, ReposApart, CallsApart, ReposMade, Own
  <2> QED
    BY <2>1, <2>2, <2>3, <2>4
<1> QED
  BY <1>1, <1>3, <1>4, <1>5, <1>6 DEF ProjectsInv, ReposApart

LEMMA IdleHolds == IsCall(Admin!Idle) /\ Admin!Idle.row.repo = Nobody /\ Admin!Idle.at = "idle"
BY DEF Admin!Idle, Admin!NoRow, IsCall, IsRow

\* A call that goes on with what it holds.
LEMMA CallGoes ==
  ASSUME NobodyIsNone, ProjectsInv, NEW c \in Callers, NEW at, Admin!Goes(c, at), UNCHANGED project, repos \subseteq repos', typed \subseteq typed',
         at \in {"repo", "ports", "insert"} => Creating(c)
  PROVE  ProjectsInv'
<1> DEFINE a == [admin[c] EXCEPT !.at = at]
<1>1. IsCall(admin[c])
  BY DEF ProjectsInv, ProjectsShape
<1>2. IsCall(a) /\ a.at = at /\ a.id = admin[c].id /\ a.row = admin[c].row
  BY <1>1 DEF IsCall
<1>3. admin' = [admin EXCEPT ![c] = a]
  BY DEF Admin!Goes
<1>4. a.at \in {"repo", "ports", "insert"} => a.id = Nobody
  BY <1>2 DEF ProjectsInv, CreatingIsNew
<1> QED
  BY <1>2, <1>3, <1>4, AdminMoves

LEMMA CallReturns ==
  ASSUME NobodyIsNone, ProjectsInv, NEW c \in Callers, Admin!Returns(c), UNCHANGED project, repos \subseteq repos', typed \subseteq typed'
  PROVE  ProjectsInv'
<1>1. admin' = [admin EXCEPT ![c] = Admin!Idle]
  BY DEF Admin!Returns
<1> QED
  BY <1>1, IdleHolds, AdminMoves

(***************************************************************************)
(* The operations                                                          *)
(***************************************************************************)
LEMMA Creates ==
  ASSUME NobodyIsNone, ProjectsInv, NEW c \in Callers, Admin!Create(c) \/ Admin!CreateRepo(c) \/ Admin!AllocatePorts(c)
  PROVE  ProjectsInv'
<1>1. IsCall(admin[c])
  BY DEF ProjectsInv, ProjectsShape
<1>2. CASE Admin!Create(c)
  <2>1. PICK n \in Names, at \in {"repo", "ports"}, link \in Names \cup {Nobody} :
          /\ typed' = typed \cup ({link} \ {Nobody})
          /\ admin' = [admin EXCEPT ![c] = [at |-> at, id |-> Nobody,
                                            row |-> [Admin!NoRow EXCEPT !.status = "active", !.name = n, !.repo = link]]]
    BY <1>2 DEF Admin!Create, Admin!Types
  <2> DEFINE a == [at |-> at, id |-> Nobody,
                   row |-> [Admin!NoRow EXCEPT !.status = "active", !.name = n, !.repo = link]]
  <2>2. IsCall(a) /\ a.row.repo = link /\ a.id = Nobody
    BY DEF IsCall, IsRow, Admin!NoRow
  <2>3. UNCHANGED <<project, repos>>
    BY <1>2 DEF Admin!Create
  <2>4. typed \subseteq typed' /\ a.row.repo \in typed' \cup {Nobody}
    BY <2>1, <2>2
  <2> QED
    BY <2>1, <2>2, <2>3, <2>4, AdminMoves
<1>3. CASE Admin!CreateRepo(c)
  <2> DEFINE n == admin[c].row.name
  <2>1. admin[c].at = "repo" /\ UNCHANGED <<project, typed>>
    BY <1>3 DEF Admin!CreateRepo
  <2>2. CASE n \notin repos /\ repos' = repos \cup {n} /\ admin' = [admin EXCEPT ![c].at = "ports", ![c].row.repo = n]
    <3> DEFINE a == GoesLinked(admin[c], "ports", n)
    <3>0. a = [at |-> "ports", id |-> admin[c].id, row |-> Linked(admin[c].row, n)]
          /\ IsRow(Linked(admin[c].row, n)) /\ Linked(admin[c].row, n).repo = n
      BY <1>1, EditedCall, EditedRow DEF IsCall
    <3>1. IsCall(a) /\ a.row.repo = n /\ a.id = admin[c].id
      BY <3>0, CallFields
    <3>2. a.id = Nobody
      BY <2>1, <3>1 DEF ProjectsInv, CreatingIsNew, Creating
    <3>3. admin' = [admin EXCEPT ![c] = a]
      BY <2>2 DEF GoesLinked
    <3>4. a.row.repo \in repos' \ repos
      BY <2>2, <3>1
    <3> QED
      BY <2>1, <2>2, <3>1, <3>2, <3>3, <3>4, AdminMoves
  <2>3. CASE Admin!Returns(c) /\ UNCHANGED repos
    BY <2>1, <2>3, CallReturns
  <2>4. CASE Admin!Goes(c, "ports") /\ UNCHANGED repos
    BY <2>1, <2>4, CallGoes DEF Creating
  <2> QED
    BY <1>3, <2>2, <2>3, <2>4 DEF Admin!CreateRepo
<1>4. CASE Admin!AllocatePorts(c)
  <2>1. admin[c].at = "ports" /\ UNCHANGED <<project, repos, typed>>
    BY <1>4 DEF Admin!AllocatePorts
  <2>2. Admin!Returns(c) \/ \E port : admin' = [admin EXCEPT ![c].at = "insert", ![c].row.port = port]
    BY <1>4 DEF Admin!AllocatePorts
  <2>3. ASSUME NEW port, admin' = [admin EXCEPT ![c].at = "insert", ![c].row.port = port] PROVE ProjectsInv'
    <3> DEFINE a == GoesWithPort(admin[c], "insert", port)
    <3>0. a = [at |-> "insert", id |-> admin[c].id, row |-> AtPort(admin[c].row, port)]
          /\ IsRow(AtPort(admin[c].row, port)) /\ AtPort(admin[c].row, port).repo = admin[c].row.repo
      BY <1>1, EditedCall, EditedRow DEF IsCall
    <3>1. IsCall(a) /\ a.row.repo = admin[c].row.repo /\ a.id = admin[c].id
      BY <3>0, CallFields
    <3>2. a.id = Nobody
      BY <2>1, <3>1 DEF ProjectsInv, CreatingIsNew, Creating
    <3>3. admin' = [admin EXCEPT ![c] = a]
      BY <2>3 DEF GoesWithPort
    <3> QED
      BY <2>1, <3>1, <3>2, <3>3, AdminMoves
  <2> QED
    BY <2>1, <2>2, <2>3, CallReturns
<1> QED
  BY <1>2, <1>3, <1>4

\* The row is inserted under ports that no row has, and brings its repository.
LEMMA Inserts ==
  ASSUME NobodyIsNone, ProjectsInv, NEW c \in Callers, Admin!Insert(c)
  PROVE  ProjectsInv'
<1>1. CASE \E q \in Admin!Rows : project[q].port = admin[c].row.port
  BY <1>1, CallReturns DEF Admin!Insert
<1>2. CASE ~ \E q \in Admin!Rows : project[q].port = admin[c].row.port
  <2>1. PICK p \in Admin!Projects :
          /\ Admin!Fresh(p) /\ project' = [project EXCEPT ![p] = admin[c].row]
          /\ admin' = [admin EXCEPT ![c].at = "scaffold", ![c].id = p]
    BY <1>2 DEF Admin!Insert
  <2>2. project[p].status = "unused" /\ p \notin Admin!Rows
    BY <2>1 DEF Admin!Fresh, Admin!Rows, Admin!Projects
  <2>3. IsCall(admin[c]) /\ admin[c].id = Nobody /\ UNCHANGED <<repos, typed>>
    BY <1>2 DEF Admin!Insert, ProjectsInv, ProjectsShape, CreatingIsNew, Creating
  <2>4. project'[p] = admin[c].row /\ \A q \in Admin!Projects \ {p} : project'[q] = project[q]
    BY <2>1 DEF ProjectsInv, ProjectsShape
  <2>5. /\ admin'[c].at = "scaffold" /\ admin'[c].id = p /\ admin'[c].row = admin[c].row
        /\ \A e \in Callers \ {c} : admin'[e] = admin[e]
    BY <2>1, <2>3 DEF ProjectsInv, ProjectsShape, IsCall
  <2>6. ProjectsShape'
    BY <2>1, <2>3 DEF ProjectsInv, ProjectsShape, IsCall
  <2>7. CreatingIsNew'
    BY <2>5 DEF ProjectsInv, CreatingIsNew, Creating
  <2>8. PortsApart'
    BY <1>2, <2>2, <2>4 DEF ProjectsInv, PortsApart, Admin!Rows
  <2>9. ReposMade'
    BY <2>3, <2>4, <2>5 DEF ProjectsInv, ReposApart, ReposMade, Own
  <2>10. RowsApart'
    BY <2>3, <2>4, NobodyIsNone DEF NobodyIsNone, ProjectsInv, ReposApart, RowsApart, CallsOfProject, Own
  <2>11. CallsOfProject'
    BY <2>3, <2>4, <2>5, NobodyIsNone DEF NobodyIsNone, ProjectsInv, ReposApart, CallsOfProject, CallsApart, Own
  <2>12. CallsApart'
    BY <2>3, <2>4, <2>5 DEF ProjectsInv, ReposApart, CallsApart, Own
  <2> QED
    BY <2>6, <2>7, <2>8, <2>9, <2>10, <2>11, <2>12 DEF ProjectsInv, ReposApart
<1> QED
  BY <1>1, <1>2

LEMMA Reads ==
  ASSUME NobodyIsNone, ProjectsInv, NEW c \in Callers, Admin!Update(c) \/ Admin!Backfill(c) \/ Admin!Delete(c)
  PROVE  ProjectsInv'
<1>0. /\ UNCHANGED <<project, repos>> /\ \A p \in Admin!Rows : p \in Admin!Projects /\ IsRow(project[p])
      /\ typed \subseteq typed'
  BY DEF Admin!Update, Admin!Backfill, Admin!Delete, Admin!Types, Admin!Rows, ProjectsInv, ProjectsShape
<1>1. ASSUME NEW a, IsCall(a), admin' = [admin EXCEPT ![c] = a], a.id \in Admin!Projects,
             a.at \notin {"repo", "ports", "insert"}, a.row.repo \in {Nobody, project[a.id].repo} \cup typed'
      PROVE  ProjectsInv'
  BY <1>0, <1>1, AdminMoves
<1>2. CASE Admin!Update(c)
  <2>1. PICK p \in Admin!Rows :
          \E fresh \in {[[project[p] EXCEPT !.port = 0] EXCEPT !.name = n] : n \in Names}
                      \cup {[[project[p] EXCEPT !.port = 0] EXCEPT !.status = s] : s \in {"active", "archived"}}
                      \cup {[[project[p] EXCEPT !.port = 0] EXCEPT !.repo = link] : link \in Names \cup {Nobody}} :
            /\ fresh.repo # [project[p] EXCEPT !.port = 0].repo => typed' = typed \cup ({fresh.repo} \ {Nobody})
            /\ \E at \in {"write", "check"} : admin' = [admin EXCEPT ![c] = [at |-> at, id |-> p, row |-> fresh]]
    BY <1>2 DEF Admin!Update, Admin!Types
  <2> DEFINE read == [project[p] EXCEPT !.port = 0]
  <2>2. IsRow(read) /\ read.repo = project[p].repo
    BY <1>0, EditedRow DEF AtPort
  <2>3. PICK fresh \in {[read EXCEPT !.name = n] : n \in Names}
                      \cup {[read EXCEPT !.status = s] : s \in {"active", "archived"}}
                      \cup {[read EXCEPT !.repo = link] : link \in Names \cup {Nobody}}, at \in {"write", "check"} :
          /\ fresh.repo # read.repo => typed' = typed \cup ({fresh.repo} \ {Nobody})
          /\ admin' = [admin EXCEPT ![c] = [at |-> at, id |-> p, row |-> fresh]]
    BY <2>1
  <2>4. IsRow(fresh) /\ fresh.repo \in {Nobody, project[p].repo} \cup typed'
    <3>1. \/ \E n \in Names : fresh = Named(read, n)
          \/ \E st \in {"active", "archived"} : fresh = InStatus(read, st)
          \/ \E link \in Names \cup {Nobody} : fresh = Linked(read, link)
      BY <2>3 DEF Named, InStatus, Linked
    <3> HIDE DEF read
    <3>2. ASSUME NEW v PROVE /\ IsRow(Named(read, v)) /\ IsRow(InStatus(read, v)) /\ IsRow(Linked(read, v))
                             /\ Named(read, v).repo = read.repo /\ InStatus(read, v).repo = read.repo
                             /\ Linked(read, v).repo = v
      BY <2>2, EditedRow
    <3> QED
      BY <2>2, <2>3, <3>1, <3>2
  <2> DEFINE a == [at |-> at, id |-> p, row |-> fresh]
  <2>5. IsCall(a) /\ a.id = p /\ a.row = fresh /\ a.at = at
    BY <2>4 DEF IsCall
  <2> QED
    BY <1>0, <1>1, <2>3, <2>4, <2>5
<1>3. CASE Admin!Backfill(c)
  <2>1. PICK p \in Admin!Rows :
          admin' = [admin EXCEPT ![c] = [at |-> "backfill", id |-> p, row |-> [project[p] EXCEPT !.port = 0]]]
    BY <1>3 DEF Admin!Backfill
  <2> DEFINE a == [at |-> "backfill", id |-> p, row |-> [project[p] EXCEPT !.port = 0]]
  <2>2. IsCall(a) /\ a.id = p /\ a.row.repo = project[p].repo /\ a.at = "backfill"
    <3>1. IsRow([project[p] EXCEPT !.port = 0]) /\ [project[p] EXCEPT !.port = 0].repo = project[p].repo
      BY <1>0, EditedRow DEF AtPort
    <3> QED
      BY <3>1, CallFields
  <2> QED
    BY <1>0, <1>1, <2>1, <2>2
<1>4. CASE Admin!Delete(c)
  <2>1. PICK p \in Admin!Rows, at \in {"requests", "row"} :
          admin' = [admin EXCEPT ![c] = [at |-> at, id |-> p, row |-> [Admin!NoRow EXCEPT !.name = project[p].name]]]
    BY <1>4 DEF Admin!Delete
  <2> DEFINE a == [at |-> at, id |-> p, row |-> [Admin!NoRow EXCEPT !.name = project[p].name]]
  <2>2. IsCall(a) /\ a.id = p /\ a.row.repo = Nobody /\ a.at = at
    BY DEF IsCall, IsRow, Admin!NoRow
  <2> QED
    BY <1>0, <1>1, <2>1, <2>2
<1> QED
  BY <1>2, <1>3, <1>4

\* The whole row goes back, but for its ports.
LEMMA Writes ==
  ASSUME NobodyIsNone, ProjectsInv, NEW c \in Callers, Admin!WriteRow(c)
  PROVE  ProjectsInv'
<1> DEFINE p == admin[c].id
           fresh == [admin[c].row EXCEPT !.port = project[p].port]
<1>1. CASE p \notin Admin!Rows
  BY <1>1, CallReturns DEF Admin!WriteRow
<1>2. CASE p \in Admin!Rows
  <2>1. project' = [project EXCEPT ![p] = fresh] /\ Admin!Returns(c) /\ UNCHANGED <<repos, typed>> /\ p \in Admin!Projects
    BY <1>2 DEF Admin!WriteRow, Admin!Rows
  <2>2. IsRow(admin[c].row)
    BY DEF ProjectsInv, ProjectsShape, IsCall
  <2>3. IsRow(fresh) /\ fresh.port = project[p].port /\ fresh.repo = admin[c].row.repo
    BY <2>2 DEF IsRow
  <2>4. project'[p] = fresh /\ \A q \in Admin!Projects \ {p} : project'[q] = project[q]
    BY <2>1 DEF ProjectsInv, ProjectsShape
  <2>5. admin'[c] = Admin!Idle /\ \A e \in Callers \ {c} : admin'[e] = admin[e]
    BY <2>1 DEF ProjectsInv, ProjectsShape, Admin!Returns
  <2>6. ProjectsShape'
    BY <2>1, <2>3, IdleHolds DEF ProjectsInv, ProjectsShape, Admin!Returns
  <2>7. CreatingIsNew'
    BY <2>5, IdleHolds DEF ProjectsInv, CreatingIsNew, Creating
  <2>8. PortsApart'
    <3>1. \A q \in Admin!Projects : project'[q].port = project[q].port
      BY <2>3, <2>4
    <3>2. \A q \in Admin!Projects : q \in Admin!Rows' => q \in Admin!Rows
      BY <1>2, <2>4 DEF Admin!Rows
    <3>3. Admin!Rows \subseteq Admin!Projects /\ Admin!Rows' \subseteq Admin!Projects
      BY DEF Admin!Rows
    <3> QED
      BY <3>1, <3>2, <3>3 DEF ProjectsInv, PortsApart
  <2>9. ReposMade'
    BY <2>1, <2>3, <2>4, <2>5, IdleHolds DEF ProjectsInv, ReposApart, ReposMade, Own
  <2>10. RowsApart'
    <3>1. ASSUME NEW q \in Admin!Projects \ {p}, fresh.repo = project[q].repo PROVE ~Own(fresh.repo)
      BY <2>3, <3>1 DEF ProjectsInv, ReposApart, CallsOfProject, Own
    <3> QED
      BY <2>1, <2>4, <3>1 DEF ProjectsInv, ReposApart, RowsApart, Own
  <2>11. CallsOfProject'
    <3>1. ASSUME NEW e \in Callers \ {c}, NEW q \in Admin!Projects, Own(admin[e].row.repo),
                 admin[e].row.repo = project'[q].repo
          PROVE  admin[e].id = q
      <4>1. CASE q = p
        BY <2>3, <2>4, <3>1, <4>1 DEF ProjectsInv, ReposApart, CallsApart, Own
      <4>2. CASE q # p
        BY <2>4, <3>1, <4>2 DEF ProjectsInv, ReposApart, CallsOfProject, Own
      <4> QED
        BY <4>1, <4>2
    <3> QED
      BY <2>1, <2>5, <3>1, IdleHolds DEF CallsOfProject, Own
  <2>12. CallsApart'
    BY <2>1, <2>5, IdleHolds DEF ProjectsInv, ReposApart, CallsApart, Own
  <2> QED
    BY <2>6, <2>7, <2>8, <2>9, <2>10, <2>11, <2>12 DEF ProjectsInv, ReposApart
<1> QED
  BY <1>1, <1>2

LEMMA Goeson ==
  ASSUME NobodyIsNone, ProjectsInv, NEW c \in Callers,
         Admin!Scaffold(c) \/ Admin!CheckName(c) \/ Admin!BackfillRepo(c) \/ Admin!DeleteRequests(c) \/ Admin!DeleteTree(c)
  PROVE  ProjectsInv'
<1>1. CASE Admin!Scaffold(c)
  BY <1>1, CallReturns DEF Admin!Scaffold
<1>2. CASE Admin!CheckName(c)
  BY <1>2, CallReturns, CallGoes DEF Admin!CheckName
<1>3. CASE Admin!BackfillRepo(c)
  <2> DEFINE n == admin[c].row.name
             a == GoesLinked(admin[c], "write", n)
  <2>1. UNCHANGED <<project, typed>>
    BY <1>3 DEF Admin!BackfillRepo
  <2>2. CASE n \notin repos /\ repos' = repos \cup {n} /\ admin' = [admin EXCEPT ![c].at = "write", ![c].row.repo = n]
    <3>1. IsCall(admin[c])
      BY DEF ProjectsInv, ProjectsShape
    <3>0. a = [at |-> "write", id |-> admin[c].id, row |-> Linked(admin[c].row, n)]
          /\ IsRow(Linked(admin[c].row, n)) /\ Linked(admin[c].row, n).repo = n
      BY <3>1, EditedCall, EditedRow DEF IsCall
    <3>2. IsCall(a) /\ a.row.repo = n /\ a.at = "write"
      BY <3>0, CallFields
    <3>3. admin' = [admin EXCEPT ![c] = a]
      BY <2>2 DEF GoesLinked
    <3>4. a.row.repo \in repos' \ repos
      BY <2>2, <3>2
    <3> QED
      BY <2>1, <2>2, <3>2, <3>3, <3>4, AdminMoves
  <2> QED
    BY <1>3, <2>1, <2>2, CallReturns DEF Admin!BackfillRepo
<1>4. CASE Admin!DeleteRequests(c)
  BY <1>4, CallGoes DEF Admin!DeleteRequests
<1>5. CASE Admin!DeleteTree(c)
  BY <1>5, CallReturns DEF Admin!DeleteTree
<1> QED
  BY <1>1, <1>2, <1>3, <1>4, <1>5

LEMMA Deletes ==
  ASSUME NobodyIsNone, ProjectsInv, NEW c \in Callers, Admin!DeleteRow(c)
  PROVE  ProjectsInv'
<1> DEFINE p == admin[c].id
<1>1. CASE p \in judged
  BY <1>1, CallReturns DEF Admin!DeleteRow
<1>2. CASE p \notin judged
  <2>1. project' = [project EXCEPT ![p].status = "deleted"] /\ Admin!Goes(c, "tree") /\ UNCHANGED <<repos, typed>>
    BY <1>2 DEF Admin!DeleteRow
  <2> DEFINE fresh == [project[p] EXCEPT !.status = "deleted"]
  <2>6. \A q \in Admin!Projects : IsRow(project[q])
    BY DEF ProjectsInv, ProjectsShape
  <2>7. project' = [project EXCEPT ![p] = fresh]
    BY <2>1
  <2>8. p \in Admin!Projects => /\ IsRow(fresh) /\ fresh.status = "deleted"
                           /\ fresh.port = project[p].port /\ fresh.repo = project[p].repo
    BY <2>6, EditedRow DEF InStatus
  <2>9. \A q \in Admin!Projects : IF q = p THEN project'[q] = fresh ELSE project'[q] = project[q]
    BY <2>7 DEF ProjectsInv, ProjectsShape
  <2>10. [admin[c] EXCEPT !.at = "tree"] = [at |-> "tree", id |-> admin[c].id, row |-> admin[c].row]
         /\ IsRow(admin[c].row)
    BY DEF ProjectsInv, ProjectsShape, IsCall
  <2>11. ProjectsShape'
    BY <2>1, <2>6, <2>7, <2>8, <2>9, <2>10 DEF ProjectsInv, ProjectsShape, IsCall, Admin!Goes
  <2>2. /\ ProjectsShape'
        /\ \A q \in Admin!Projects : project'[q].port = project[q].port /\ project'[q].repo = project[q].repo
        /\ \A q \in Admin!Projects : project'[q].status \in {project[q].status, "deleted"}
    BY <2>8, <2>9, <2>11
  <2>3. /\ admin'[c].at = "tree" /\ admin'[c].id = admin[c].id /\ admin'[c].row = admin[c].row
        /\ \A e \in Callers \ {c} : admin'[e] = admin[e]
    BY <2>1 DEF ProjectsInv, ProjectsShape, IsCall, Admin!Goes
  <2>4. CreatingIsNew' /\ PortsApart'
    BY <2>2, <2>3 DEF ProjectsInv, CreatingIsNew, Creating, PortsApart, Admin!Rows
  <2>5. ReposApart'
    BY <2>1, <2>2, <2>3 DEF ProjectsInv, ReposApart, ReposMade, RowsApart, CallsOfProject, CallsApart, Own
  <2> QED
    BY <2>2, <2>4, <2>5 DEF ProjectsInv
<1> QED
  BY <1>1, <1>2

(***************************************************************************)
(* The theorems                                                            *)
(***************************************************************************)
LEMMA ProjectsInit == ASSUME NobodyIsNone, Admin!Init PROVE ProjectsInv
BY DEF Admin!Init, ProjectsInv, ProjectsShape, IsRow, IsCall, Admin!NoRow, Admin!Idle, CreatingIsNew, Creating, PortsApart, Admin!Rows,
       ReposApart, ReposMade, RowsApart, CallsOfProject, CallsApart, Own

LEMMA ProjectsNext == ASSUME NobodyIsNone, ProjectsInv, [Admin!Next]_Admin!adminVars PROVE ProjectsInv'
<1>1. ASSUME NEW p \in Admin!Projects, Admin!Used(p) PROVE ProjectsInv'
  BY <1>1 DEF Admin!Used, ProjectsInv, ProjectsShape, CreatingIsNew, Creating, PortsApart, Admin!Rows,
              ReposApart, ReposMade, RowsApart, CallsOfProject, CallsApart, Own
<1>2. CASE UNCHANGED Admin!adminVars
  BY <1>2 DEF Admin!adminVars, ProjectsInv, ProjectsShape, CreatingIsNew, Creating, PortsApart, Admin!Rows,
              ReposApart, ReposMade, RowsApart, CallsOfProject, CallsApart, Own
<1> QED
  BY <1>1, <1>2, Creates, Inserts, Reads, Writes, Goeson, Deletes DEF Admin!Next

LEMMA ProjectsHold == ASSUME ProjectsInv PROVE Admin!ProjectsAreApart
BY DEF ProjectsInv, PortsApart, ReposApart, RowsApart, Own, Admin!ProjectsAreApart, Admin!Rows

\* A row that is in use keeps its port; one that was deleted stays so.
RowStays(p) ==
  project[p].status # "unused" =>
    /\ project'[p].port = project[p].port
    /\ project[p].status = "deleted" => project'[p].status = "deleted"

LEMMA DeletedStep == ASSUME ProjectsInv, [Admin!Next]_Admin!adminVars PROVE \A p \in Admin!Projects : RowStays(p)
<1> DEFINE Stays == \A p \in Admin!Projects : RowStays(p)
<1>1. project = [p \in Admin!Projects |-> project[p]] /\ \A p \in Admin!Projects : IsRow(project[p])
  BY DEF ProjectsInv, ProjectsShape
<1>2. CASE UNCHANGED project
  BY <1>2 DEF RowStays
<1>3. ASSUME NEW c \in Callers, Admin!Insert(c) PROVE Stays
  <2>1. CASE UNCHANGED project
    BY <2>1 DEF RowStays
  <2>2. ASSUME NEW p \in Admin!Projects, Admin!Fresh(p), project' = [project EXCEPT ![p] = admin[c].row] PROVE Stays
    <3>1. project[p].status = "unused"
      BY <2>2 DEF Admin!Fresh, Admin!Projects
    <3> QED
      BY <1>1, <2>2, <3>1 DEF RowStays
  <2> QED
    BY <1>3, <2>1, <2>2 DEF Admin!Insert
<1>4. ASSUME NEW c \in Callers, Admin!WriteRow(c) PROVE Stays
  <2>1. IsRow(admin[c].row)
    BY DEF ProjectsInv, ProjectsShape, IsCall
  <2> QED
    BY <1>1, <1>4, <2>1 DEF Admin!WriteRow, Admin!Rows, IsRow, RowStays
<1>5. ASSUME NEW c \in Callers, Admin!DeleteRow(c) PROVE Stays
  <2>1. UNCHANGED project \/ \E i : project' = [project EXCEPT ![i].status = "deleted"]
    BY <1>5 DEF Admin!DeleteRow
  <2>2. ASSUME NEW p \in Admin!Projects PROVE RowStays(p)
    <3>1. PICK s, n, k, r : project[p] = [status |-> s, name |-> n, port |-> k, repo |-> r]
      BY <1>1 DEF IsRow
    <3>2. project'[p] = [project[p] EXCEPT !.status = "deleted"] \/ project'[p] = project[p]
      BY <1>1, <2>1
    <3>3. [project[p] EXCEPT !.status = "deleted"].port = k /\ [project[p] EXCEPT !.status = "deleted"].status = "deleted"
      BY <3>1
    <3>4. project[p].port = k
      BY <3>1
    <3> QED
      BY <3>2, <3>3, <3>4 DEF RowStays
  <2> QED
    BY <2>2
<1> QED
  BY <1>2, <1>3, <1>4, <1>5
     DEF Admin!Next, Admin!adminVars, Admin!Create, Admin!CreateRepo, Admin!AllocatePorts, Admin!Scaffold, Admin!Update,
         Admin!CheckName, Admin!Backfill, Admin!BackfillRepo, Admin!Delete, Admin!DeleteRequests, Admin!DeleteTree,
         Admin!Used

(***************************************************************************)
(* The types of the projects                                               *)
(***************************************************************************)
\* What is shown and what has been begun has a name.
NamesKnown ==
  /\ \A p \in Admin!Projects : project[p].status \in {"active", "archived"} => project[p].name \in Names
  /\ \A c \in Callers : admin[c].at # "idle" => admin[c].row.name \in Names
ProjectsTyped == Admin!TypeOK /\ NamesKnown

Call == [at : Admin!Stages, id : Admin!Projects \cup {Nobody}, row : Admin!RowType]

\* A step that changes the local state of one call at most.
LEMMA CallTyped ==
  ASSUME ProjectsTyped, NEW c \in Callers, NEW a \in Call, admin' = [admin EXCEPT ![c] = a],
         a.at # "idle" => a.row.name \in Names,
         project' \in [Admin!Projects -> Admin!RowType],
         \A p \in Admin!Projects : project'[p].status \in {"active", "archived"} => project'[p].name \in Names,
         repos' \subseteq Names, typed' \subseteq Names, tree' \in [Names -> Admin!Projects \cup {Nobody}],
         requests' \subseteq Admin!Projects, judged' = judged, calls' \in 0..MaxRouteCalls
  PROVE  ProjectsTyped'
<1>1. admin' \in [Callers -> Call] /\ \A e \in Callers : admin'[e] = IF e = c THEN a ELSE admin[e]
  BY DEF ProjectsTyped, Admin!TypeOK, Call
<1>2. Admin!TypeOK'
  BY <1>1 DEF ProjectsTyped, Admin!TypeOK, Call
<1>3. NamesKnown'
  BY <1>1 DEF ProjectsTyped, NamesKnown
<1> QED
  BY <1>2, <1>3 DEF ProjectsTyped

LEMMA RouteCounts == ASSUME ProjectsTyped, NEW c \in Callers, Admin!Starts(c) PROVE calls' \in 0..MaxRouteCalls
<1>1. calls \in 0..MaxRouteCalls
  BY DEF ProjectsTyped, Admin!TypeOK
<1> QED
  BY <1>1, LimitsAssumption, OneMoreCounts DEF Admin!Starts

LEMMA RowEdited ==
  ASSUME NEW r \in Admin!RowType
  PROVE  /\ \A n \in Names : [r EXCEPT !.name = n] \in Admin!RowType /\ [r EXCEPT !.name = n].name = n
         /\ \A s \in {"active", "archived", "deleted"} : [r EXCEPT !.status = s] \in Admin!RowType /\ [r EXCEPT !.status = s].name = r.name
         /\ \A n \in Names \cup {Nobody} : [r EXCEPT !.repo = n] \in Admin!RowType /\ [r EXCEPT !.repo = n].name = r.name
         /\ \A n \in 0..MaxPort : [r EXCEPT !.port = n] \in Admin!RowType /\ [r EXCEPT !.port = n].name = r.name
                                  /\ [r EXCEPT !.port = n].status = r.status
BY DEF Admin!RowType

LEMMA NoRowTyped == Admin!NoRow \in Admin!RowType /\ Admin!Idle \in Call /\ Admin!Idle.at = "idle"
<1>1. 0 \in 0..MaxPort
  BY LimitsAssumption
<1> QED
  BY <1>1 DEF Admin!NoRow, Admin!RowType, Admin!Idle, Call, Admin!Stages

\* What is known of a call, and of everything else.
LEMMA ProjectFacts ==
  ASSUME ProjectsTyped
  PROVE  /\ \A c \in Callers : admin[c] \in Call /\ (admin[c].at # "idle" => admin[c].row.name \in Names)
         /\ project \in [Admin!Projects -> Admin!RowType]
         /\ \A p \in Admin!Projects : project[p].status \in {"active", "archived"} => project[p].name \in Names
         /\ \A p \in Admin!Projects : project[p] \in Admin!RowType
         /\ repos \subseteq Names /\ typed \subseteq Names
         /\ tree \in [Names -> Admin!Projects \cup {Nobody}]
         /\ requests \subseteq Admin!Projects /\ calls \in 0..MaxRouteCalls
BY DEF ProjectsTyped, Admin!TypeOK, NamesKnown, Call

\* The call goes to a later stage, its row untouched; or it returns.
LEMMA GoesTyped ==
  ASSUME ProjectsTyped, NEW c \in Callers, admin[c].at # "idle",
         Admin!Returns(c) \/ \E at \in Admin!Stages : Admin!Goes(c, at),
         project' \in [Admin!Projects -> Admin!RowType],
         \A p \in Admin!Projects : project'[p].status \in {"active", "archived"} => project'[p].name \in Names,
         repos' \subseteq Names, typed' \subseteq Names, tree' \in [Names -> Admin!Projects \cup {Nobody}],
         requests' \subseteq Admin!Projects, judged' = judged, calls' = calls
  PROVE  ProjectsTyped'
<1>1. admin[c] \in Call /\ admin[c].row.name \in Names /\ calls' \in 0..MaxRouteCalls
  BY ProjectFacts
<1>2. CASE Admin!Returns(c)
  BY <1>1, <1>2, NoRowTyped, CallTyped DEF Admin!Returns
<1>3. ASSUME NEW at \in Admin!Stages, Admin!Goes(c, at) PROVE ProjectsTyped'
  <2>1. [admin[c] EXCEPT !.at = at] \in Call /\ [admin[c] EXCEPT !.at = at].row = admin[c].row
    BY <1>1 DEF Call
  <2>2. admin' = [admin EXCEPT ![c] = [admin[c] EXCEPT !.at = at]]
    BY <1>3 DEF Admin!Goes
  <2> QED
    BY <1>1, <2>1, <2>2, CallTyped
<1> QED
  BY <1>2, <1>3

LEMMA CreationsTyped ==
  ASSUME ProjectsTyped, NEW c \in Callers,
         Admin!Create(c) \/ Admin!CreateRepo(c) \/ Admin!AllocatePorts(c) \/ Admin!Insert(c) \/ Admin!Scaffold(c)
  PROVE  ProjectsTyped'
<1>1. CASE Admin!Create(c)
  <2>1. PICK n \in Names, at \in {"repo", "ports"}, link \in Names \cup {Nobody} :
          /\ typed' = typed \cup ({link} \ {Nobody})
          /\ admin' = [admin EXCEPT ![c] = [at |-> at, id |-> Nobody,
                                            row |-> [Admin!NoRow EXCEPT !.status = "active", !.name = n, !.repo = link]]]
    BY <1>1 DEF Admin!Create, Admin!Types
  <2> DEFINE named == [[Admin!NoRow EXCEPT !.status = "active"] EXCEPT !.name = n]
             r == [named EXCEPT !.repo = link]
             a == [at |-> at, id |-> Nobody, row |-> r]
  <2>2. r \in Admin!RowType /\ r.name = n
    <3>1. named \in Admin!RowType /\ named.name = n
      BY NoRowTyped, RowEdited
    <3> HIDE DEF named
    <3> QED
      BY <3>1, RowEdited
  <2> HIDE DEF r
  <2>3. a \in Call /\ a.row = r
    BY <2>2 DEF Call, Admin!Stages
  <2>4. calls' \in 0..MaxRouteCalls
    BY <1>1, RouteCounts DEF Admin!Create
  <2>5. UNCHANGED <<project, repos, tree, requests, judged>> /\ typed' \subseteq Names
    BY <1>1, <2>1, ProjectFacts DEF Admin!Create
  <2>6. admin' = [admin EXCEPT ![c] = a]
    BY <2>1 DEF r
  <2> HIDE DEF a
  <2> QED
    BY <2>2, <2>3, <2>4, <2>5, <2>6, CallTyped, ProjectFacts
<1>2. CASE Admin!CreateRepo(c)
  <2> DEFINE n == admin[c].row.name
  <2>1. admin[c].at = "repo" /\ UNCHANGED <<project, typed, tree, requests, judged, calls>>
    BY <1>2 DEF Admin!CreateRepo
  <2>2. n \in Names /\ admin[c] \in Call
    BY <2>1, ProjectFacts
  <2>3. repos' \subseteq Names
    BY <1>2, <2>2, ProjectFacts DEF Admin!CreateRepo
  <2>4. CASE admin' = [admin EXCEPT ![c].at = "ports", ![c].row.repo = n]
    <3> DEFINE r == [admin[c].row EXCEPT !.repo = n]
               a == [[admin[c] EXCEPT !.at = "ports"] EXCEPT !.row = r]
    <3>1. r \in Admin!RowType /\ r.name = n
      <4>1. admin[c].row \in Admin!RowType
        BY <2>2 DEF Call
      <4> QED
        BY <2>2, <4>1, RowEdited
    <3>2. admin' = [admin EXCEPT ![c] = a]
      BY <2>2, <2>4 DEF Call, ProjectsTyped, Admin!TypeOK
    <3> HIDE DEF r
    <3>3. a \in Call /\ a.row = r
      BY <2>2, <3>1 DEF Call, Admin!Stages
    <3> HIDE DEF a
    <3> QED
      BY <2>1, <2>2, <2>3, <3>1, <3>2, <3>3, CallTyped, ProjectFacts
  <2>5. ASSUME Admin!Returns(c) \/ Admin!Goes(c, "ports") PROVE ProjectsTyped'
    BY <2>1, <2>3, <2>5, GoesTyped, ProjectFacts DEF Admin!Stages
  <2> QED
    BY <1>2, <2>4, <2>5 DEF Admin!CreateRepo
<1>3. CASE Admin!AllocatePorts(c)
  <2> DEFINE ports == {project[p].port : p \in Admin!Rows}
             last == IF Admin!Rows = {} THEN 0 ELSE CHOOSE m \in ports : \A p \in Admin!Rows : project[p].port <= m
             port == 1 + last
  <2>1. admin[c].at = "ports" /\ UNCHANGED <<project, repos, typed, tree, requests, judged, calls>>
    BY <1>3 DEF Admin!AllocatePorts
  <2>2. last \in 0..MaxPort
    <3>1. CASE Admin!Rows = {}
      BY <3>1, LimitsAssumption
    <3>2. CASE Admin!Rows # {}
      <4>1. ports \subseteq 0..MaxPort /\ ports # {} /\ \A p \in Admin!Rows : project[p].port \in ports
        <5>1. \A p \in Admin!Rows : p \in Admin!Projects /\ project[p] \in Admin!RowType
          BY ProjectFacts DEF Admin!Rows
        <5>2. \A p \in Admin!Rows : project[p].port \in 0..MaxPort
          BY <5>1 DEF Admin!RowType
        <5> QED
          BY <3>2, <5>2
      <4>2. \E m \in ports : \A y \in ports : y <= m
        <5> HIDE DEF ports
        <5> QED
          BY <4>1, LargestMember, LimitsAssumption
      <4>3. \E m \in ports : \A p \in Admin!Rows : project[p].port <= m
        BY <4>1, <4>2
      <4>4. last \in ports
        BY <3>2, <4>3
      <4> QED
        BY <4>1, <4>4
    <3> QED
      BY <3>1, <3>2
  <2>3. IF port > MaxPort THEN Admin!Returns(c) ELSE admin' = [admin EXCEPT ![c].at = "insert", ![c].row.port = port]
    BY <1>3 DEF Admin!AllocatePorts
  <2> HIDE DEF last
  <2>4. CASE Admin!Returns(c)
    BY <2>1, <2>4, GoesTyped, ProjectFacts
  <2>5. CASE port <= MaxPort /\ admin' = [admin EXCEPT ![c].at = "insert", ![c].row.port = port]
    <3> DEFINE r == [admin[c].row EXCEPT !.port = port]
               a == [[admin[c] EXCEPT !.at = "insert"] EXCEPT !.row = r]
    <3>1. port \in 0..MaxPort
      BY <2>2, <2>5, LimitsAssumption
    <3>2. admin[c] \in Call /\ admin[c].row.name \in Names
      BY <2>1, ProjectFacts
    <3>3. admin' = [admin EXCEPT ![c] = a]
      BY <2>5, <3>2 DEF Call, ProjectsTyped, Admin!TypeOK
    <3> HIDE DEF port
    <3>4. r \in Admin!RowType /\ r.name = admin[c].row.name
      <4>1. admin[c].row \in Admin!RowType
        BY <3>2 DEF Call
      <4> QED
        BY <3>1, <4>1, RowEdited
    <3> HIDE DEF r
    <3>5. a \in Call /\ a.row = r
      BY <3>2, <3>4 DEF Call, Admin!Stages
    <3> HIDE DEF a
    <3> QED
      BY <2>1, <3>2, <3>3, <3>4, <3>5, CallTyped, ProjectFacts
  <2>6. port > MaxPort \/ port <= MaxPort
    BY <2>2, LimitsAssumption
  <2> QED
    BY <2>3, <2>4, <2>5, <2>6
<1>4. CASE Admin!Insert(c)
  <2>1. admin[c].at = "insert" /\ UNCHANGED <<repos, typed, tree, requests, judged, calls>>
    BY <1>4 DEF Admin!Insert
  <2>2. admin[c] \in Call /\ admin[c].row \in Admin!RowType /\ admin[c].row.name \in Names
    BY <2>1, ProjectFacts DEF Call
  <2>3. CASE Admin!Returns(c) /\ UNCHANGED project
    BY <2>1, <2>3, GoesTyped, ProjectFacts
  <2>4. ASSUME NEW p \in Admin!Projects, project' = [project EXCEPT ![p] = admin[c].row],
               admin' = [admin EXCEPT ![c].at = "scaffold", ![c].id = p]
        PROVE  ProjectsTyped'
    <3> DEFINE a == [[admin[c] EXCEPT !.at = "scaffold"] EXCEPT !.id = p]
    <3>1. a \in Call /\ a.row = admin[c].row
      BY <2>2 DEF Call, Admin!Stages
    <3>2. admin' = [admin EXCEPT ![c] = a]
      BY <2>2, <2>4 DEF Call, ProjectsTyped, Admin!TypeOK
    <3> HIDE DEF a
    <3>3. /\ project' \in [Admin!Projects -> Admin!RowType]
          /\ \A q \in Admin!Projects : project'[q].status \in {"active", "archived"} => project'[q].name \in Names
      BY <2>2, <2>4, ProjectFacts
    <3> QED
      BY <2>1, <2>2, <3>1, <3>2, <3>3, CallTyped, ProjectFacts
  <2> QED
    BY <1>4, <2>3, <2>4 DEF Admin!Insert
<1>5. CASE Admin!Scaffold(c)
  <2>1. admin[c].at = "scaffold" /\ Admin!Returns(c) /\ UNCHANGED <<project, repos, typed, requests, judged, calls>>
    BY <1>5 DEF Admin!Scaffold
  <2>2. /\ admin[c].id \in Admin!Projects \cup {Nobody} /\ admin[c].row.repo \in Names \cup {Nobody}
        /\ tree \in [Names -> Admin!Projects \cup {Nobody}]
    BY ProjectFacts DEF Call, Admin!RowType
  <2>3. tree' \in [Names -> Admin!Projects \cup {Nobody}]
    BY <1>5, <2>2, ProjectFacts DEF Admin!Scaffold
  <2> QED
    BY <2>1, <2>3, GoesTyped, ProjectFacts
<1> QED
  BY <1>1, <1>2, <1>3, <1>4, <1>5

LEMMA EditsTyped ==
  ASSUME ProjectsTyped, NEW c \in Callers,
         Admin!Update(c) \/ Admin!CheckName(c) \/ Admin!WriteRow(c) \/ Admin!Backfill(c) \/ Admin!BackfillRepo(c)
  PROVE  ProjectsTyped'
<1>0. 0 \in 0..MaxPort
  BY LimitsAssumption
<1>1. CASE Admin!Update(c)
  <2>1. PICK p \in Admin!Rows :
       LET read == [project[p] EXCEPT !.port = 0] IN
       \E r \in {[read EXCEPT !.name = n] : n \in Names}
                   \cup {[read EXCEPT !.status = s] : s \in {"active", "archived"}}
                   \cup {[read EXCEPT !.repo = link] : link \in Names \cup {Nobody}} :
         /\ IF r.repo = read.repo THEN UNCHANGED typed ELSE typed' = typed \cup ({r.repo} \ {Nobody})
         /\ admin' = [admin EXCEPT ![c] = [at |-> IF r.name = read.name THEN "write" ELSE "check", id |-> p, row |-> r]]
    BY <1>1 DEF Admin!Update, Admin!Types
  <2> DEFINE read == [project[p] EXCEPT !.port = 0]
  <2>2. project[p] \in Admin!RowType /\ project[p].name \in Names /\ p \in Admin!Projects
    BY ProjectFacts DEF Admin!Rows
  <2>3. read \in Admin!RowType /\ read.name = project[p].name
    BY <1>0, <2>2, RowEdited
  <2>4. PICK r \in {[read EXCEPT !.name = n] : n \in Names}
                   \cup {[read EXCEPT !.status = s] : s \in {"active", "archived"}}
                   \cup {[read EXCEPT !.repo = link] : link \in Names \cup {Nobody}} :
         /\ IF r.repo = read.repo THEN UNCHANGED typed ELSE typed' = typed \cup ({r.repo} \ {Nobody})
         /\ admin' = [admin EXCEPT ![c] = [at |-> IF r.name = read.name THEN "write" ELSE "check", id |-> p, row |-> r]]
    BY <2>1
  <2> HIDE DEF read
  <2>5. r \in Admin!RowType /\ r.name \in Names
    <3>1. ASSUME NEW n \in Names, r = [read EXCEPT !.name = n] PROVE r \in Admin!RowType /\ r.name \in Names
      BY <2>3, <3>1, RowEdited
    <3>2. ASSUME NEW s \in {"active", "archived"}, r = [read EXCEPT !.status = s]
          PROVE  r \in Admin!RowType /\ r.name \in Names
      BY <2>2, <2>3, <3>2, RowEdited
    <3>3. ASSUME NEW link \in Names \cup {Nobody}, r = [read EXCEPT !.repo = link]
          PROVE  r \in Admin!RowType /\ r.name \in Names
      BY <2>2, <2>3, <3>3, RowEdited
    <3> QED
      BY <2>4, <3>1, <3>2, <3>3
  <2> DEFINE at == IF r.name = read.name THEN "write" ELSE "check"
             a == [at |-> at, id |-> p, row |-> r]
  <2>6. at \in Admin!Stages
    BY DEF Admin!Stages
  <2>7. admin' = [admin EXCEPT ![c] = a]
    BY <2>4
  <2> HIDE DEF at
  <2>8. a \in Call /\ a.row = r
    BY <2>2, <2>5, <2>6 DEF Call
  <2> HIDE DEF a
  <2>9. calls' \in 0..MaxRouteCalls /\ UNCHANGED <<project, repos, tree, requests, judged>>
    BY <1>1, RouteCounts DEF Admin!Update
  <2>10. typed' \subseteq Names
    <3>1. r.repo \in Names \cup {Nobody}
      BY <2>5 DEF Admin!RowType
    <3> QED
      BY <2>4, <3>1, ProjectFacts
  <2> QED
    BY <2>10, <2>5, <2>7, <2>8, <2>9, CallTyped, ProjectFacts
<1>2. CASE Admin!CheckName(c)
  BY <1>2, GoesTyped, ProjectFacts DEF Admin!CheckName, Admin!Stages
<1>3. CASE Admin!WriteRow(c)
  <2> DEFINE p == admin[c].id
             r == [admin[c].row EXCEPT !.port = project[p].port]
  <2>1. admin[c].at = "write" /\ Admin!Returns(c) /\ UNCHANGED <<repos, typed, tree, requests, judged, calls>>
        /\ project' = IF p \in Admin!Rows THEN [project EXCEPT ![p] = r] ELSE project
    BY <1>3 DEF Admin!WriteRow
  <2>2. admin[c].row \in Admin!RowType /\ admin[c].row.name \in Names
    BY <2>1, ProjectFacts DEF Call
  <2>3. p \in Admin!Rows => p \in Admin!Projects /\ project[p].port \in 0..MaxPort
    BY ProjectFacts DEF Admin!Rows, Admin!RowType
  <2>4. p \in Admin!Rows => r \in Admin!RowType /\ r.name \in Names
    BY <2>2, <2>3, RowEdited
  <2> HIDE DEF r
  <2>5. /\ project' \in [Admin!Projects -> Admin!RowType]
        /\ \A q \in Admin!Projects : project'[q].status \in {"active", "archived"} => project'[q].name \in Names
    BY <2>1, <2>3, <2>4, ProjectFacts
  <2> QED
    BY <2>1, <2>5, GoesTyped, ProjectFacts
<1>4. CASE Admin!Backfill(c)
  <2>1. PICK p \in Admin!Rows : admin' = [admin EXCEPT ![c] = [at |-> "backfill", id |-> p, row |-> [project[p] EXCEPT !.port = 0]]]
    BY <1>4 DEF Admin!Backfill
  <2> DEFINE r == [project[p] EXCEPT !.port = 0]
             a == [at |-> "backfill", id |-> p, row |-> r]
  <2>2. project[p] \in Admin!RowType /\ project[p].name \in Names /\ p \in Admin!Projects
    BY ProjectFacts DEF Admin!Rows
  <2>3. r \in Admin!RowType /\ r.name \in Names
    BY <1>0, <2>2, RowEdited
  <2>4. admin' = [admin EXCEPT ![c] = a]
    BY <2>1
  <2> HIDE DEF r
  <2>5. a \in Call /\ a.row = r
    BY <2>2, <2>3 DEF Call, Admin!Stages
  <2> HIDE DEF a
  <2>6. calls' \in 0..MaxRouteCalls /\ UNCHANGED <<project, repos, typed, tree, requests, judged>>
    BY <1>4, RouteCounts DEF Admin!Backfill
  <2> QED
    BY <2>3, <2>4, <2>5, <2>6, CallTyped, ProjectFacts
<1>5. CASE Admin!BackfillRepo(c)
  <2> DEFINE n == admin[c].row.name
  <2>1. admin[c].at = "backfill" /\ UNCHANGED <<project, typed, tree, requests, judged, calls>>
    BY <1>5 DEF Admin!BackfillRepo
  <2>2. n \in Names /\ admin[c] \in Call
    BY <2>1, ProjectFacts
  <2>3. repos' \subseteq Names
    BY <1>5, <2>2, ProjectFacts DEF Admin!BackfillRepo
  <2>4. CASE admin' = [admin EXCEPT ![c].at = "write", ![c].row.repo = n]
    <3> DEFINE r == [admin[c].row EXCEPT !.repo = n]
               a == [[admin[c] EXCEPT !.at = "write"] EXCEPT !.row = r]
    <3>1. r \in Admin!RowType /\ r.name = n
      <4>1. admin[c].row \in Admin!RowType
        BY <2>2 DEF Call
      <4> QED
        BY <2>2, <4>1, RowEdited
    <3>2. admin' = [admin EXCEPT ![c] = a]
      BY <2>2, <2>4 DEF Call, ProjectsTyped, Admin!TypeOK
    <3> HIDE DEF r
    <3>3. a \in Call /\ a.row = r
      BY <2>2, <3>1 DEF Call, Admin!Stages
    <3> HIDE DEF a
    <3> QED
      BY <2>1, <2>2, <2>3, <3>1, <3>2, <3>3, CallTyped, ProjectFacts
  <2>5. CASE Admin!Returns(c)
    BY <2>1, <2>3, <2>5, GoesTyped, ProjectFacts
  <2> QED
    BY <1>5, <2>4, <2>5 DEF Admin!BackfillRepo
<1> QED
  BY <1>1, <1>2, <1>3, <1>4, <1>5

LEMMA DeletionsTyped ==
  ASSUME ProjectsTyped, NEW c \in Callers,
         Admin!Delete(c) \/ Admin!DeleteRequests(c) \/ Admin!DeleteRow(c) \/ Admin!DeleteTree(c)
  PROVE  ProjectsTyped'
<1>1. CASE Admin!Delete(c)
  <2>1. PICK p \in Admin!Rows :
          admin' = [admin EXCEPT ![c] = [at |-> IF p \in requests THEN "requests" ELSE "row",
                                         id |-> p, row |-> [Admin!NoRow EXCEPT !.name = project[p].name]]]
    BY <1>1 DEF Admin!Delete
  <2> DEFINE r == [Admin!NoRow EXCEPT !.name = project[p].name]
             at == IF p \in requests THEN "requests" ELSE "row"
             a == [at |-> at, id |-> p, row |-> r]
  <2>2. project[p].name \in Names /\ p \in Admin!Projects
    BY ProjectFacts DEF Admin!Rows
  <2>3. r \in Admin!RowType /\ r.name \in Names
    BY <2>2, NoRowTyped, RowEdited
  <2>4. at \in Admin!Stages
    BY DEF Admin!Stages
  <2>5. admin' = [admin EXCEPT ![c] = a]
    BY <2>1
  <2> HIDE DEF r, at
  <2>6. a \in Call /\ a.row = r
    BY <2>2, <2>3, <2>4 DEF Call
  <2> HIDE DEF a
  <2>7. calls' \in 0..MaxRouteCalls /\ UNCHANGED <<project, repos, typed, tree, requests, judged>>
    BY <1>1, RouteCounts DEF Admin!Delete
  <2> QED
    BY <2>3, <2>5, <2>6, <2>7, CallTyped, ProjectFacts
<1>2. CASE Admin!DeleteRequests(c)
  BY <1>2, GoesTyped, ProjectFacts DEF Admin!DeleteRequests, Admin!Stages
<1>3. CASE Admin!DeleteRow(c)
  <2> DEFINE p == admin[c].id
             r == [project[p] EXCEPT !.status = "deleted"]
  <2>1. admin[c].at = "row" /\ UNCHANGED <<repos, typed, tree, requests, judged, calls>>
        /\ (Admin!Returns(c) \/ Admin!Goes(c, "tree"))
        /\ (UNCHANGED project \/ project' = [project EXCEPT ![p] = r])
    BY <1>3, ProjectFacts DEF Admin!DeleteRow
  <2>2. p \in Admin!Projects => r \in Admin!RowType /\ r.status = "deleted"
    BY ProjectFacts, RowEdited DEF Admin!RowType
  <2> HIDE DEF r
  <2>3. /\ project' \in [Admin!Projects -> Admin!RowType]
        /\ \A q \in Admin!Projects : project'[q].status \in {"active", "archived"} => project'[q].name \in Names
    BY <2>1, <2>2, ProjectFacts
  <2> QED
    BY <2>1, <2>3, GoesTyped DEF Admin!Stages, ProjectsTyped, Admin!TypeOK
<1>4. CASE Admin!DeleteTree(c)
  <2>1. tree' \in [Names -> Admin!Projects \cup {Nobody}]
    BY <1>4, ProjectFacts DEF Admin!DeleteTree
  <2> QED
    BY <1>4, <2>1, GoesTyped, ProjectFacts DEF Admin!DeleteTree
<1> QED
  BY <1>1, <1>2, <1>3, <1>4

LEMMA ProjectsTypedInit == ASSUME Admin!Init PROVE ProjectsTyped
<1>1. 0 \in 0..MaxRouteCalls
  BY LimitsAssumption
<1>2. Admin!NoRow.status = "unused"
  BY DEF Admin!NoRow
<1> QED
  BY <1>1, <1>2, NoRowTyped DEF Admin!Init, ProjectsTyped, Admin!TypeOK, NamesKnown, Call

LEMMA ProjectsTypedNext == ASSUME ProjectsTyped, [Admin!Next]_Admin!adminVars PROVE ProjectsTyped'
<1>1. ASSUME NEW p \in Admin!Projects, Admin!Used(p) PROVE ProjectsTyped'
  BY <1>1 DEF Admin!Used, Admin!Rows, ProjectsTyped, Admin!TypeOK, NamesKnown
<1>2. CASE UNCHANGED Admin!adminVars
  BY <1>2 DEF Admin!adminVars, ProjectsTyped, Admin!TypeOK, NamesKnown
<1> QED
  BY <1>1, <1>2, CreationsTyped, EditsTyped, DeletionsTyped DEF Admin!Next

(***************************************************************************)
(* The prompt studio                                                       *)
(***************************************************************************)
\* Each iteration has a first variant, and its others are of the same answer.
OneAnswer == \A a \in Studio!Stored : <<a[1], 1>> \in Studio!Stored /\ variants[a] = variants[<<a[1], 1>>]

\* What a call or a variant refines is stored and of an earlier iteration.
FromEarlier ==
  /\ \A a \in Studio!Stored : a[1] > 0 => variants[a].from \in Studio!Stored /\ variants[a].from[1] < a[1]
  /\ \A c \in Refinements : refining[c].stage \in {"model", "insert"} /\ refining[c].iteration > 0
       => refining[c].from \in Studio!Stored /\ refining[c].from[1] < refining[c].iteration

\* A call that has inserted made the first variant of its iteration.
FirstIsMine ==
  \A c \in Refinements : refining[c].stage = "insert" =>
    /\ refining[c].next <= refining[c].last
    /\ refining[c].next > 1 => variants[<<refining[c].iteration, 1>>] = Studio!Row(c)

StudioInv == Studio!TypeOK /\ OneAnswer /\ FromEarlier /\ FirstIsMine

LEMMA VariantIsSomething == Nobody \notin Studio!Variant
BY NobodyAssumption

\* The stage tells what a call holds.
LEMMA RefiningFacts ==
  ASSUME Studio!TypeOK, NEW c \in Refinements
  PROVE  /\ refining[c].stage \in {"idle", "done", "model", "insert"}
         /\ refining[c].stage \in {"model", "insert"} =>
              refining[c].iteration \in 0..MaxIteration /\ refining[c].from \in {Nobody} \cup Studio!Ids
         /\ refining[c].stage = "insert" =>
              refining[c].next \in 1..MaxVariants /\ refining[c].last \in 1..MaxVariants
BY DEF Studio!TypeOK, Studio!Pending

\* The last iteration is the largest that has a variant.
LEMMA LastIterationIsLast ==
  ASSUME Studio!Stored # {}
  PROVE  Studio!LastIteration \in 0..MaxIteration /\ \A a \in Studio!Stored : a[1] <= Studio!LastIteration
<1> DEFINE T == {n \in 0..MaxIteration : \E a \in Studio!Stored : a[1] = n}
<1>1. \A a \in Studio!Stored : a[1] \in T
  BY DEF Studio!Stored, Studio!Ids
<1>2. T \subseteq 0..MaxIteration /\ T # {}
  BY <1>1
<1>3. MaxIteration \in Nat
  BY LimitsAssumption
<1>4. \E n \in T : \A m \in T : m <= n
  <2> HIDE DEF T
  <2> QED
    BY <1>2, <1>3, LargestMember
<1>5. \E n \in 0..MaxIteration : (\E a \in Studio!Stored : a[1] = n) /\ \A a \in Studio!Stored : a[1] <= n
  BY <1>1, <1>4
<1> QED
  BY <1>5 DEF Studio!LastIteration

\* A step that stores nothing and changes one call at most.
LEMMA RefiningMoves ==
  ASSUME StudioInv, NEW c \in Refinements, NEW a \in Studio!Pending, refining' = [refining EXCEPT ![c] = a],
         UNCHANGED <<variants, selected>>, session' \in BOOLEAN,
         a.stage \in {"model", "insert"} /\ a.iteration > 0
           => a.from \in Studio!Stored /\ a.from[1] < a.iteration,
         a.stage = "insert" => a.next <= a.last
           /\ (a.next > 1 => variants[<<a.iteration, 1>>] = [by |-> c, from |-> a.from])
  PROVE  StudioInv'
<1>1. refining' \in [Refinements -> Studio!Pending]
      /\ \A e \in Refinements : refining'[e] = IF e = c THEN a ELSE refining[e]
  BY DEF StudioInv, Studio!TypeOK
<1>2. Studio!Stored' = Studio!Stored
  BY DEF Studio!Stored
<1>3. Studio!TypeOK'
  BY <1>1 DEF StudioInv, Studio!TypeOK
<1>4. OneAnswer'
  BY <1>2 DEF StudioInv, OneAnswer
<1>5. FromEarlier'
  BY <1>1, <1>2 DEF StudioInv, FromEarlier
<1>6. FirstIsMine'
  BY <1>1 DEF StudioInv, FirstIsMine, Studio!Row
<1> QED
  BY <1>3, <1>4, <1>5, <1>6 DEF StudioInv

LEMMA StudioInit == ASSUME Studio!Init PROVE StudioInv
<1>1. Studio!Stored = {}
  BY DEF Studio!Init, Studio!Stored
<1>2. \A c \in Refinements : refining[c] \in Studio!Pending /\ refining[c].stage = "idle"
  BY DEF Studio!Init, Studio!Pending, Studio!Idle
<1>3. refining \in [Refinements -> Studio!Pending]
  BY <1>2 DEF Studio!Init
<1> QED
  BY <1>1, <1>2, <1>3 DEF Studio!Init, StudioInv, Studio!TypeOK, OneAnswer, FromEarlier, FirstIsMine

LEMMA InsertVariantKept == ASSUME StudioInv, NEW c \in Refinements, Studio!InsertVariant(c) PROVE StudioInv'
<1> DEFINE n == refining[c].iteration
           k == refining[c].next
           id == <<n, k>>
           value == [by |-> c, from |-> refining[c].from]
           over == variants[id] # Nobody \/ k = refining[c].last
           a == IF over THEN [stage |-> "done"] ELSE [refining[c] EXCEPT !.next = k + 1]
<1>0. refining[c].stage = "insert" /\ Studio!TypeOK /\ FirstIsMine
  BY DEF Studio!InsertVariant, StudioInv
<1>1. /\ n \in 0..MaxIteration /\ k \in 1..MaxVariants /\ refining[c].last \in 1..MaxVariants
      /\ refining[c].from \in {Nobody} \cup Studio!Ids /\ refining[c].stage = "insert" /\ k <= refining[c].last
      /\ 1 \in 1..MaxVariants
  <2>1. n \in 0..MaxIteration /\ k \in 1..MaxVariants /\ refining[c].last \in 1..MaxVariants
        /\ refining[c].from \in {Nobody} \cup Studio!Ids
    BY <1>0, RefiningFacts
  <2>2. k <= refining[c].last
    BY <1>0 DEF FirstIsMine
  <2>3. 1 \in 1..MaxVariants
    BY <2>1, LimitsAssumption
  <2> QED
    BY <1>0, <2>1, <2>2, <2>3
<1>2. id \in Studio!Ids /\ <<n, 1>> \in Studio!Ids /\ value \in Studio!Variant
  BY <1>1 DEF Studio!Ids, Studio!Variant
<1>3. value # Nobody
  BY <1>2, VariantIsSomething
<1>4. refining' = [refining EXCEPT ![c] = a] /\ UNCHANGED <<session, selected>>
  <2>1. refining \in [Refinements -> Studio!Pending]
    BY <1>0 DEF Studio!TypeOK
  <2>2. /\ UNCHANGED <<session, selected>>
        /\ refining' = [refining EXCEPT ![c] = IF variants[id] # Nobody \/ @.next = @.last THEN [stage |-> "done"]
                                               ELSE [@ EXCEPT !.next = refining[c].next + 1]]
    BY DEF Studio!InsertVariant
  <2>3. PICK b : b = [refining[c] EXCEPT !.next = refining[c].next + 1]
    OBVIOUS
  <2>4. refining' = [refining EXCEPT ![c] = IF variants[id] # Nobody \/ refining[c].next = refining[c].last
                                            THEN [stage |-> "done"] ELSE b]
    BY <2>1, <2>2, <2>3
  <2> QED
    BY <2>2, <2>3, <2>4
<1>5. variants' = [variants EXCEPT ![id] = IF variants[id] = Nobody THEN value ELSE variants[id]]
  BY <1>2 DEF Studio!InsertVariant, Studio!Store, Studio!Row, StudioInv, Studio!TypeOK
<1>6. refining[c] \in Studio!Pending
  BY DEF StudioInv, Studio!TypeOK
<1>7. ~over => /\ a = [stage |-> "insert", iteration |-> n, from |-> refining[c].from, next |-> k + 1, last |-> refining[c].last]
               /\ k + 1 \in 1..MaxVariants /\ k + 1 <= refining[c].last
  <2>1. PICK r : r = refining[c]
    OBVIOUS
  <2>2. r \in [stage: {"insert"}, iteration: 0..MaxIteration, from: {Nobody} \cup Studio!Ids,
               next: 1..MaxVariants, last: 1..MaxVariants]
    BY <1>1, <1>6, <2>1 DEF Studio!Pending
  <2>3. [r EXCEPT !.next = k + 1]
          = [stage |-> "insert", iteration |-> r.iteration, from |-> r.from, next |-> k + 1, last |-> r.last]
    BY <2>2
  <2>4. k # r.last => k + 1 \in 1..MaxVariants /\ k + 1 <= r.last
    BY <1>1, <2>1, LimitsAssumption
  <2> QED
    BY <2>1, <2>3, <2>4
<1>8. over => a = [stage |-> "done"]
  OBVIOUS
<1> HIDE DEF a
<1>9. a \in Studio!Pending
  BY <1>1, <1>7, <1>8 DEF Studio!Pending
<1>10. refining' \in [Refinements -> Studio!Pending]
       /\ \A e \in Refinements : refining'[e] = IF e = c THEN a ELSE refining[e]
  BY <1>4, <1>9 DEF StudioInv, Studio!TypeOK
<1>11. CASE variants[id] # Nobody
  <2>1. UNCHANGED variants
    BY <1>2, <1>5, <1>11 DEF StudioInv, Studio!TypeOK
  <2>2. a.stage = "done"
    BY <1>8, <1>11
  <2>3. session' \in BOOLEAN
    BY <1>4 DEF StudioInv, Studio!TypeOK
  <2> QED
    BY <1>4, <1>9, <2>1, <2>2, <2>3, RefiningMoves
<1>12. CASE variants[id] = Nobody
  <2>1. \A i \in Studio!Ids : variants'[i] = IF i = id THEN value ELSE variants[i]
    BY <1>2, <1>5, <1>12 DEF StudioInv, Studio!TypeOK
  <2>2. Studio!Stored' = Studio!Stored \cup {id}
    BY <1>2, <1>3, <2>1 DEF Studio!Stored
  <2>3. id \notin Studio!Stored
    BY <1>12 DEF Studio!Stored
  <2>4. Studio!TypeOK'
    <3>1. variants' \in [Studio!Ids -> {Nobody} \cup Studio!Variant]
      BY <1>2, <1>5, <1>12 DEF StudioInv, Studio!TypeOK
    <3> QED
      BY <1>4, <1>10, <3>1 DEF StudioInv, Studio!TypeOK
  <2>5. k > 1 => <<n, 1>> \in Studio!Stored /\ variants[<<n, 1>>] = value
    BY <1>1, <1>2, <1>3 DEF StudioInv, FirstIsMine, Studio!Row, Studio!Stored
  <2>6. \A i \in Studio!Stored : i # id /\ i \in Studio!Ids /\ variants'[i] = variants[i]
    BY <2>1, <2>3 DEF Studio!Stored
  <2>7. variants'[id] = value
    BY <1>2, <2>1
  <2>8. k = 1 => \A i \in Studio!Stored : i[1] # n
    BY <2>3 DEF StudioInv, OneAnswer
  <2>9. OneAnswer'
    <3> SUFFICES ASSUME NEW i \in Studio!Stored \cup {id}
                 PROVE  <<i[1], 1>> \in Studio!Stored \cup {id} /\ variants'[i] = variants'[<<i[1], 1>>]
      BY <2>2 DEF OneAnswer
    <3>1. CASE i \in Studio!Stored
      <4>1. <<i[1], 1>> \in Studio!Stored /\ variants[i] = variants[<<i[1], 1>>]
        BY <3>1 DEF StudioInv, OneAnswer
      <4> QED
        BY <3>1, <4>1, <2>6
    <3>2. CASE i = id
      <4>1. k = 1 \/ k > 1
        BY <1>1
      <4>2. i[1] = n
        BY <3>2
      <4> QED
        BY <3>2, <4>1, <4>2, <2>5, <2>6, <2>7
    <3> QED
      BY <3>1, <3>2
  <2>10. FromEarlier'
    <3>1. n > 0 => refining[c].from \in Studio!Stored /\ refining[c].from[1] < n
      BY <1>1 DEF StudioInv, FromEarlier
    <3>2. \A i \in Studio!Stored \cup {id} : i[1] > 0 =>
            variants'[i].from \in Studio!Stored \cup {id} /\ variants'[i].from[1] < i[1]
      <4>1. ASSUME NEW i \in Studio!Stored, i[1] > 0
            PROVE  variants'[i].from \in Studio!Stored \cup {id} /\ variants'[i].from[1] < i[1]
        <5>1. variants[i].from \in Studio!Stored /\ variants[i].from[1] < i[1]
          BY <4>1 DEF StudioInv, FromEarlier
        <5> QED
          BY <2>6, <5>1
      <4>2. id[1] = n /\ variants'[id].from = refining[c].from
        BY <2>7
      <4> QED
        BY <3>1, <4>1, <4>2
    <3>3. \A e \in Refinements : refining'[e].stage \in {"model", "insert"} /\ refining'[e].iteration > 0
            => refining'[e].from \in Studio!Stored \cup {id} /\ refining'[e].from[1] < refining'[e].iteration
      <4>1. a.stage = "insert" => a.iteration = n /\ a.from = refining[c].from
        BY <1>7, <1>8
      <4>2. a.stage \in {"insert", "done"}
        BY <1>7, <1>8
      <4> QED
        BY <1>10, <3>1, <4>1, <4>2 DEF StudioInv, FromEarlier
    <3> QED
      BY <2>2, <3>2, <3>3 DEF FromEarlier
  <2>11. FirstIsMine'
    <3> SUFFICES ASSUME NEW e \in Refinements, refining'[e].stage = "insert"
                 PROVE  /\ refining'[e].next <= refining'[e].last
                        /\ refining'[e].next > 1 =>
                             variants'[<<refining'[e].iteration, 1>>] = [by |-> e, from |-> refining'[e].from]
      BY DEF FirstIsMine, Studio!Row
    <3>1. CASE e = c
      <4>1. refining'[e] = a /\ ~over
        BY <1>8, <1>10, <3>1
      <4>2. variants'[<<n, 1>>] = value
        <5>1. k = 1 \/ k > 1
          BY <1>1
        <5> QED
          BY <5>1, <2>5, <2>6, <2>7
      <4> QED
        BY <1>7, <4>1, <4>2, <3>1
    <3>2. CASE e # c
      <4>1. refining'[e] = refining[e]
        BY <1>10, <3>2
      <4>2. refining[e].next <= refining[e].last
        BY <3>2, <4>1 DEF StudioInv, FirstIsMine
      <4>3. ASSUME refining[e].next > 1
            PROVE  variants'[<<refining[e].iteration, 1>>] = [by |-> e, from |-> refining[e].from]
        <5> DEFINE i == <<refining[e].iteration, 1>>
        <5>1. variants[i] = [by |-> e, from |-> refining[e].from]
          BY <4>1, <4>3 DEF StudioInv, FirstIsMine, Studio!Row
        <5>2. refining[e].iteration \in 0..MaxIteration /\ refining[e].from \in {Nobody} \cup Studio!Ids
          BY <4>1, RefiningFacts DEF StudioInv
        <5>3. i \in Studio!Ids /\ [by |-> e, from |-> refining[e].from] \in Studio!Variant
          BY <1>1, <5>2 DEF Studio!Ids, Studio!Variant
        <5>4. i \in Studio!Stored
          BY <5>1, <5>3, VariantIsSomething DEF Studio!Stored
        <5> QED
          BY <2>6, <5>1, <5>4
      <4> QED
        BY <4>1, <4>2, <4>3
    <3> QED
      BY <3>1, <3>2
  <2> QED
    BY <2>4, <2>9, <2>10, <2>11 DEF StudioInv
<1> QED
  BY <1>11, <1>12

LEMMA StudioNext == ASSUME StudioInv, [Studio!Next]_Studio!studioVars PROVE StudioInv'
<1>0. session \in BOOLEAN /\ TRUE \in BOOLEAN
  BY DEF StudioInv, Studio!TypeOK
<1>1. ASSUME NEW c \in Refinements, Studio!Generate(c) PROVE StudioInv'
  <2> DEFINE a == [stage |-> "model", iteration |-> 0, from |-> Nobody]
  <2>1. a \in Studio!Pending /\ a.stage # "insert" /\ ~(a.iteration > 0)
    BY LimitsAssumption DEF Studio!Pending
  <2>2. refining' = [refining EXCEPT ![c] = a] /\ UNCHANGED <<variants, selected>> /\ session' \in BOOLEAN
    BY <1>0, <1>1 DEF Studio!Generate
  <2> QED
    BY <2>1, <2>2, RefiningMoves
<1>2. ASSUME NEW c \in Refinements, Studio!BeginRefine(c) PROVE StudioInv'
  <2> DEFINE last == Studio!LastIteration
  <2>1. selected \in Studio!Stored /\ last < MaxIteration
    BY <1>2 DEF Studio!BeginRefine
  <2>2. last \in 0..MaxIteration /\ selected[1] <= last
    BY <2>1, LastIterationIsLast
  <2>3. PICK n : n = last + 1
    OBVIOUS
  <2>4. n \in 0..MaxIteration /\ selected[1] < n
    BY <2>1, <2>2, <2>3, LimitsAssumption DEF Studio!Stored, Studio!Ids
  <2>5. PICK id : id = selected
    OBVIOUS
  <2> DEFINE a == [stage |-> "model", iteration |-> n, from |-> id]
  <2>6. a \in Studio!Pending
    BY <2>1, <2>4, <2>5 DEF Studio!Pending, Studio!Stored
  <2>7. refining' = [refining EXCEPT ![c] = a] /\ UNCHANGED <<variants, selected>> /\ session' \in BOOLEAN
    BY <1>0, <1>2, <2>3, <2>5 DEF Studio!BeginRefine
  <2> QED
    BY <2>1, <2>4, <2>5, <2>6, <2>7, RefiningMoves
<1>3. ASSUME NEW c \in Refinements, Studio!Answers(c) PROVE StudioInv'
  <2>1. /\ refining[c].iteration \in 0..MaxIteration /\ refining[c].from \in {Nobody} \cup Studio!Ids
        /\ refining[c].iteration > 0 => refining[c].from \in Studio!Stored /\ refining[c].from[1] < refining[c].iteration
        /\ UNCHANGED <<variants, selected>> /\ session' \in BOOLEAN
    BY <1>0, <1>3, RefiningFacts DEF Studio!Answers, StudioInv, FromEarlier
  <2>2. ASSUME NEW n \in 1..MaxVariants,
               refining' = [refining EXCEPT ![c] = [stage |-> "insert", iteration |-> @.iteration, from |-> @.from,
                                                    next |-> 1, last |-> n]]
        PROVE  StudioInv'
    <3>1. PICK a : a = [stage |-> "insert", iteration |-> refining[c].iteration, from |-> refining[c].from, next |-> 1, last |-> n]
      OBVIOUS
    <3>2. refining' = [refining EXCEPT ![c] = a]
      BY <2>2, <3>1 DEF StudioInv, Studio!TypeOK
    <3>3. 1 \in 1..MaxVariants
      BY LimitsAssumption
    <3>4. a \in Studio!Pending /\ ~(a.next > 1) /\ a.next <= a.last
      BY <2>1, <3>1, <3>3 DEF Studio!Pending
    <3> QED
      BY <2>1, <3>1, <3>2, <3>4, RefiningMoves
  <2>3. ASSUME refining' = [refining EXCEPT ![c] = [stage |-> "done"]] PROVE StudioInv'
    <3>1. [stage |-> "done"] \in Studio!Pending
      BY DEF Studio!Pending
    <3> QED
      BY <2>1, <2>3, <3>1, RefiningMoves
  <2> QED
    BY <1>3, <2>2, <2>3 DEF Studio!Answers
<1>4. ASSUME NEW c \in Refinements, Studio!Crash(c) PROVE StudioInv'
  <2>1. [stage |-> "done"] \in Studio!Pending
    BY DEF Studio!Pending
  <2> QED
    BY <1>0, <1>4, <2>1, RefiningMoves DEF Studio!Crash
<1>5. ASSUME Studio!Select PROVE StudioInv'
  <2>1. selected' \in Studio!Stored /\ UNCHANGED <<session, variants, refining>>
    BY <1>5 DEF Studio!Select
  <2>2. Studio!Stored' = Studio!Stored
    BY <2>1 DEF Studio!Stored
  <2> QED
    BY <2>1, <2>2 DEF StudioInv, Studio!TypeOK, OneAnswer, FromEarlier, FirstIsMine, Studio!Row, Studio!Stored
<1>6. CASE UNCHANGED Studio!studioVars
  BY <1>6 DEF Studio!studioVars, StudioInv, Studio!TypeOK, OneAnswer, FromEarlier, FirstIsMine, Studio!Row, Studio!Stored
<1> QED
  BY <1>1, <1>2, <1>3, <1>4, <1>5, <1>6, InsertVariantKept DEF Studio!Next

LEMMA StudioFacts == ASSUME StudioInv PROVE Studio!TypeOK /\ Studio!OneAnswerPerIteration
<1>1. \A a, b \in Studio!Stored : a[1] = b[1] => variants[a] = variants[b]
  BY DEF StudioInv, OneAnswer
<1> QED
  BY <1>1 DEF StudioInv, FromEarlier, Studio!OneAnswerPerIteration

(***************************************************************************)
(* What is published                                                       *)
(***************************************************************************)
JiraKeys == {KeyOf[p] : p \in Remote!Projects}
Issues == JiraEpics \cup JiraFeatures
Pushes(c, x) == push[c] # Nobody /\ push[c].item = x
HeldRef(x) == IF mapping[x] = Nobody THEN Nobody ELSE mapping[x].ref

\* Where an item's objects may be asked for.
KeysFor(x) == IF x \in Published THEN {SpaceOf[ProjectOf[x]]} ELSE JiraKeys

PushFits(p) ==
  /\ p.known # Nobody => p.known \in DOMAIN remote
  /\ p.step = "record" => p.ref \in DOMAIN remote
  /\ p.step # "place" => p.key \in KeysFor(p.item)
RowFits(x) == mapping[x] # Nobody => mapping[x].ref \in DOMAIN remote /\ mapping[x].key \in KeysFor(x)

\* Without an excuse an issue has one push and one object, which is recorded or
\* about to be.
OneIssue(x) ==
  x \notin excused =>
    /\ \A c, d \in Callers : Pushes(c, x) /\ Pushes(d, x) => c = d
    /\ \A i, j \in DOMAIN remote : remote[i].of = x /\ remote[j].of = x => i = j
    /\ \A c \in Callers : Pushes(c, x) /\ push[c].step = "object" => push[c].known = HeldRef(x)
    /\ \A i \in DOMAIN remote : remote[i].of = x /\ mapping[x] = Nobody =>
         \E c \in Callers : Pushes(c, x) /\ push[c].step = "record"

\* A document has one live page, in the space of its project.
OnePage(d) ==
  /\ \A i \in DOMAIN remote : remote[i].of = d => remote[i].in = SpaceOf[ProjectOf[d]]
  /\ \A i, j \in DOMAIN remote :
       remote[i].of = d /\ ~remote[i].gone /\ remote[j].of = d /\ ~remote[j].gone => i = j

RemoteInv ==
  /\ Remote!TypeOK
  /\ \A c \in Callers : push[c] # Nobody => PushFits(push[c])
  /\ \A x \in Remote!Items : RowFits(x)
  /\ \A x \in Issues : OneIssue(x)
  /\ \A d \in Published : OnePage(d)

LEMMA RemoteFacts ==
  /\ Remote!Items = Issues \cup Published /\ Issues \cap Published = {}
  /\ Nobody \notin Nat /\ Nobody \notin Remote!Places /\ Nobody \notin Remote!Reference /\ Nobody \notin Remote!Push
BY NoObjectAssumption, ItemsAssumption DEF Remote!Items, Issues

LEMMA KeysForArePlaces ==
  ASSUME NEW x \in Remote!Items PROVE KeysFor(x) \subseteq Remote!Places /\ Nobody \notin KeysFor(x)
<1>1. \A p \in Remote!Projects : KeyOf[p] \in Remote!Places /\ SpaceOf[p] \in Remote!Places
  BY DEF Remote!Places, Remote!Keys
<1>2. x \in Published => ProjectOf[x] \in Remote!Projects
  BY ItemsAssumption
<1>3. KeysFor(x) \subseteq Remote!Places
  BY <1>1, <1>2 DEF KeysFor, JiraKeys
<1> QED
  BY <1>3, RemoteFacts

LEMMA RemoteInit == ASSUME Remote!Init PROVE RemoteInv
<1>1. DOMAIN remote = {} /\ remote \in Seq(Remote!Object)
  BY DEF Remote!Init
<1>2. Remote!TypeOK
  BY <1>1, LimitsAssumption DEF Remote!Init, Remote!TypeOK
<1> QED
  BY <1>1, <1>2 DEF Remote!Init, RemoteInv, RowFits, OneIssue, OnePage, Pushes, Remote!Items, Issues

LEMMA RemoteTyped ==
  ASSUME RemoteInv
  PROVE  /\ place \in [Remote!Places -> {"none", "live", "trash"}] /\ remote \in Seq(Remote!Object)
         /\ mapping \in [Remote!Items -> Remote!Reference \cup {Nobody}]
         /\ push \in [Callers -> Remote!Push \cup {Nobody}]
         /\ faults \in 0..MaxFaults /\ excused \subseteq Remote!Items
BY DEF RemoteInv, Remote!TypeOK

\* Nothing of an item is created or recorded, and one push goes on.
LEMMA PushGoesOn ==
  ASSUME RemoteInv, NEW c \in Callers, NEW v \in Remote!Push \cup {Nobody}, push' = [push EXCEPT ![c] = v],
         UNCHANGED <<remote, mapping>>, place' \in [Remote!Places -> {"none", "live", "trash"}],
         faults' \in 0..MaxFaults, excused' \subseteq Remote!Items, excused \subseteq excused',
         v # Nobody => PushFits(v),
         v # Nobody /\ v.item \in Issues /\ v.item \notin excused' =>
           /\ \A d \in Callers : d # c => ~Pushes(d, v.item)
           /\ v.step = "object" => v.known = HeldRef(v.item),
         push[c] # Nobody /\ push[c].step = "record" => push[c].item \in excused'
  PROVE  RemoteInv'
<1>1. /\ push' \in [Callers -> Remote!Push \cup {Nobody}] /\ push'[c] = v
      /\ \A d \in Callers : d # c => push'[d] = push[d]
  BY RemoteTyped
<1>2. Remote!TypeOK'
  BY <1>1 DEF RemoteInv, Remote!TypeOK
<1>3. (\A d \in Callers : push[d] # Nobody => PushFits(push[d]))'
  BY <1>1 DEF RemoteInv, PushFits
<1>4. (\A x \in Remote!Items : RowFits(x))' /\ (\A d \in Published : OnePage(d))'
  BY DEF RemoteInv, RowFits, OnePage
<1>5. ASSUME NEW x \in Issues, x \notin excused'
      PROVE  /\ \A d, e \in Callers : Pushes(d, x)' /\ Pushes(e, x)' => d = e
             /\ \A i, j \in DOMAIN remote : remote[i].of = x /\ remote[j].of = x => i = j
             /\ \A d \in Callers : Pushes(d, x)' /\ push'[d].step = "object" => push'[d].known = HeldRef(x)
             /\ \A i \in DOMAIN remote : remote[i].of = x /\ mapping[x] = Nobody =>
                  \E d \in Callers : Pushes(d, x)' /\ push'[d].step = "record"
  <2>1. /\ \A d, e \in Callers : Pushes(d, x) /\ Pushes(e, x) => d = e
        /\ \A i, j \in DOMAIN remote : remote[i].of = x /\ remote[j].of = x => i = j
        /\ \A d \in Callers : Pushes(d, x) /\ push[d].step = "object" => push[d].known = HeldRef(x)
        /\ \A i \in DOMAIN remote : remote[i].of = x /\ mapping[x] = Nobody =>
             \E d \in Callers : Pushes(d, x) /\ push[d].step = "record"
    BY <1>5 DEF RemoteInv, OneIssue
  <2>2. \A d \in Callers : d # c => (Pushes(d, x)' <=> Pushes(d, x))
    BY <1>1 DEF Pushes
  <2>3. Pushes(c, x)' => v # Nobody /\ v.item = x
    BY <1>1 DEF Pushes
  <2>4. ASSUME NEW d \in Callers, NEW e \in Callers, Pushes(d, x)', Pushes(e, x)' PROVE d = e
    BY <1>5, <2>1, <2>2, <2>3, <2>4
  <2>5. ASSUME NEW d \in Callers, Pushes(d, x)', push'[d].step = "object" PROVE push'[d].known = HeldRef(x)
    BY <1>1, <1>5, <2>1, <2>2, <2>3, <2>5
  <2>6. ASSUME NEW i \in DOMAIN remote, remote[i].of = x, mapping[x] = Nobody
        PROVE  \E d \in Callers : Pushes(d, x)' /\ push'[d].step = "record"
    <3>1. PICK d \in Callers : Pushes(d, x) /\ push[d].step = "record"
      BY <2>1, <2>6
    <3>2. d # c
      BY <1>5, <3>1 DEF Pushes
    <3> QED
      BY <1>1, <2>2, <3>1, <3>2
  <2> QED
    BY <2>1, <2>4, <2>5, <2>6
<1>6. (\A x \in Issues : OneIssue(x))'
  BY <1>5 DEF OneIssue, HeldRef
<1> QED
  BY <1>2, <1>3, <1>4, <1>6 DEF RemoteInv

\* A push creates an object for an item that has none.
LEMMA PushCreates ==
  ASSUME RemoteInv, NEW c \in Callers, push[c] # Nobody, push[c].step = "object", NEW v \in Remote!Push,
         push' = [push EXCEPT ![c] = v], v.item = push[c].item, v.step = "record", v.ref = Len(remote) + 1,
         v.known = push[c].known, v.key = push[c].key,
         NEW o \in Remote!Object, remote' = Append(remote, o), o.of = push[c].item,
         UNCHANGED <<mapping, faults, excused>>, place' \in [Remote!Places -> {"none", "live", "trash"}],
         push[c].item \in Issues => push[c].known = Nobody,
         push[c].item \in Published =>
           /\ o.in = SpaceOf[ProjectOf[push[c].item]]
           /\ \A i \in DOMAIN remote : remote[i].of = push[c].item => remote[i].gone
  PROVE  RemoteInv'
<1>1. /\ push' \in [Callers -> Remote!Push \cup {Nobody}] /\ push'[c] = v
      /\ \A d \in Callers : d # c => push'[d] = push[d]
  BY RemoteTyped
<1>2. remote \in Seq(Remote!Object) /\ Len(remote) \in Nat /\ DOMAIN remote = 1..Len(remote)
  BY RemoteTyped
<1>3. PICK n : n = Len(remote) + 1
  OBVIOUS
<1>4. /\ remote' \in Seq(Remote!Object) /\ DOMAIN remote' = DOMAIN remote \cup {n} /\ n \notin DOMAIN remote
      /\ remote'[n] = o /\ \A i \in DOMAIN remote : remote'[i] = remote[i]
  <2>1. remote' \in Seq(Remote!Object) /\ Len(remote') = Len(remote) + 1
    BY <1>2
  <2>2. DOMAIN remote' = 1..(Len(remote) + 1)
    BY <2>1
  <2> QED
    BY <1>2, <1>3, <2>1, <2>2
<1>5. v # Nobody
  BY RemoteFacts
<1>6. push[c] \in Remote!Push
  BY RemoteTyped
<1>7. Remote!TypeOK'
  BY <1>1, <1>4 DEF RemoteInv, Remote!TypeOK
<1>8. PushFits(v)'
  <2>1. PushFits(push[c])
    BY DEF RemoteInv
  <2>2. v.ref \in DOMAIN remote'
    BY <1>3, <1>4
  <2>3. v.known # Nobody => v.known \in DOMAIN remote'
    BY <1>4, <2>1 DEF PushFits
  <2>4. v.key \in KeysFor(v.item)
    <3>1. push[c].key \in KeysFor(push[c].item)
      BY <2>1 DEF PushFits
    <3> QED
      BY <3>1
  <2> QED
    BY <2>2, <2>3, <2>4 DEF PushFits
<1>9. ASSUME NEW d \in Callers, push'[d] # Nobody PROVE PushFits(push[d])'
  <2>1. CASE d = c
    BY <1>1, <1>8, <2>1
  <2>2. CASE d # c
    <3>1. push'[d] = push[d] /\ PushFits(push[d])
      BY <1>1, <1>9, <2>2 DEF RemoteInv
    <3> QED
      BY <1>4, <3>1 DEF PushFits
  <2> QED
    BY <2>1, <2>2
<1>10. (\A x \in Remote!Items : RowFits(x))'
  BY <1>4 DEF RemoteInv, RowFits
<1>11. ASSUME NEW x \in Issues, x \notin excused
       PROVE  /\ \A d, e \in Callers : Pushes(d, x)' /\ Pushes(e, x)' => d = e
              /\ \A i, j \in DOMAIN remote' : remote'[i].of = x /\ remote'[j].of = x => i = j
              /\ \A d \in Callers : Pushes(d, x)' /\ push'[d].step = "object" => push'[d].known = HeldRef(x)
              /\ \A i \in DOMAIN remote' : remote'[i].of = x /\ mapping[x] = Nobody =>
                   \E d \in Callers : Pushes(d, x)' /\ push'[d].step = "record"
  <2>1. /\ \A d, e \in Callers : Pushes(d, x) /\ Pushes(e, x) => d = e
        /\ \A i, j \in DOMAIN remote : remote[i].of = x /\ remote[j].of = x => i = j
        /\ \A d \in Callers : Pushes(d, x) /\ push[d].step = "object" => push[d].known = HeldRef(x)
        /\ \A i \in DOMAIN remote : remote[i].of = x /\ mapping[x] = Nobody =>
             \E d \in Callers : Pushes(d, x) /\ push[d].step = "record"
    BY <1>11 DEF RemoteInv, OneIssue
  <2>2. \A d \in Callers : Pushes(d, x)' <=> Pushes(d, x)
    BY <1>1, <1>5 DEF Pushes
  <2>3. o.of = x => Pushes(c, x) /\ Pushes(c, x)' /\ push'[c].step = "record"
    BY <1>1, <1>5 DEF Pushes
  <2>4. ASSUME o.of = x, NEW i \in DOMAIN remote, remote[i].of = x PROVE FALSE
    <3>1. mapping[x] = Nobody
      <4>1. push[c].known = Nobody /\ HeldRef(x) = Nobody
        BY <1>11, <2>1, <2>3, <2>4
      <4>2. x \in Remote!Items
        BY <1>11, RemoteFacts
      <4>3. mapping[x] # Nobody => mapping[x].ref \in Nat
        BY <4>2, RemoteTyped DEF Remote!Reference
      <4> QED
        BY <4>1, <4>3, RemoteFacts DEF HeldRef
    <3>2. PICK d \in Callers : Pushes(d, x) /\ push[d].step = "record"
      BY <2>1, <2>4, <3>1
    <3>3. d = c
      BY <2>1, <2>3, <2>4, <3>2
    <3> QED
      BY <3>2, <3>3
  <2>5. ASSUME NEW i \in DOMAIN remote', NEW j \in DOMAIN remote', remote'[i].of = x, remote'[j].of = x PROVE i = j
    BY <1>4, <2>1, <2>4, <2>5
  <2>6. ASSUME NEW d \in Callers, Pushes(d, x)', push'[d].step = "object" PROVE push'[d].known = HeldRef(x)
    <3>1. d # c
      BY <1>1, <2>6
    <3> QED
      BY <1>1, <2>1, <2>2, <2>6, <3>1
  <2>7. ASSUME NEW i \in DOMAIN remote', remote'[i].of = x, mapping[x] = Nobody
        PROVE  \E d \in Callers : Pushes(d, x)' /\ push'[d].step = "record"
    <3>1. CASE i = n
      BY <1>4, <2>3, <2>7, <3>1
    <3>2. CASE i # n
      <4>1. PICK d \in Callers : Pushes(d, x) /\ push[d].step = "record"
        BY <1>4, <2>1, <2>7, <3>2
      <4>2. d # c
        BY <4>1
      <4> QED
        BY <1>1, <2>2, <4>1, <4>2
    <3> QED
      BY <3>1, <3>2
  <2> QED
    BY <2>1, <2>2, <2>5, <2>6, <2>7
<1>12. (\A x \in Issues : OneIssue(x))'
  BY <1>11 DEF OneIssue, HeldRef
<1>13. ASSUME NEW d \in Published
       PROVE  /\ \A i \in DOMAIN remote' : remote'[i].of = d => remote'[i].in = SpaceOf[ProjectOf[d]]
              /\ \A i, j \in DOMAIN remote' :
                   remote'[i].of = d /\ ~remote'[i].gone /\ remote'[j].of = d /\ ~remote'[j].gone => i = j
  <2>1. OnePage(d)
    BY DEF RemoteInv
  <2>2. CASE o.of = d
    BY <1>4, <2>1, <2>2 DEF OnePage
  <2>3. CASE o.of # d
    BY <1>4, <2>1, <2>3 DEF OnePage
  <2> QED
    BY <2>2, <2>3
<1>14. (\A d \in Published : OnePage(d))'
  BY <1>13 DEF OnePage
<1> QED
  BY <1>7, <1>9, <1>10, <1>12, <1>14 DEF RemoteInv

LEMMA RemoteRecord == ASSUME RemoteInv, NEW c \in Callers, Remote!Record(c) PROVE RemoteInv'
<1> DEFINE y == push[c].item
           m == [ref |-> push[c].ref, key |-> push[c].key]
<1>1. /\ push[c] # Nobody /\ push[c].step = "record" /\ mapping' = [mapping EXCEPT ![y] = m]
      /\ push' = [push EXCEPT ![c] = Nobody] /\ UNCHANGED <<place, remote, faults, excused>>
  BY DEF Remote!Record, Remote!Set
<1>2. push[c] \in Remote!Push /\ PushFits(push[c]) /\ y \in Remote!Items
  BY <1>1, RemoteTyped DEF RemoteInv, Remote!Push
<1>3. DOMAIN remote \subseteq Nat
  BY RemoteTyped
<1>4. m \in Remote!Reference /\ m.ref \in DOMAIN remote /\ m.key \in KeysFor(y) /\ m # Nobody
  BY <1>1, <1>2, <1>3, KeysForArePlaces, RemoteFacts DEF PushFits, Remote!Reference
<1>5. /\ mapping' \in [Remote!Items -> Remote!Reference \cup {Nobody}]
      /\ \A x \in Remote!Items : mapping'[x] = IF x = y THEN m ELSE mapping[x]
  BY <1>1, <1>2, <1>4, RemoteTyped
<1>6. /\ push' \in [Callers -> Remote!Push \cup {Nobody}] /\ push'[c] = Nobody
      /\ \A d \in Callers : d # c => push'[d] = push[d]
  BY <1>1, RemoteTyped
<1> HIDE DEF m
<1>7. Remote!TypeOK'
  BY <1>1, <1>4, <1>5, <1>6 DEF RemoteInv, Remote!TypeOK
<1>8. (\A d \in Callers : push[d] # Nobody => PushFits(push[d]))'
  BY <1>1, <1>6 DEF RemoteInv, PushFits
<1>9. (\A x \in Remote!Items : RowFits(x))'
  BY <1>1, <1>4, <1>5 DEF RemoteInv, RowFits
<1>10. (\A d \in Published : OnePage(d))'
  BY <1>1 DEF RemoteInv, OnePage
<1>11. ASSUME NEW x \in Issues, x \notin excused PROVE OneIssue(x)'
  <2>1. /\ \A d, e \in Callers : Pushes(d, x) /\ Pushes(e, x) => d = e
        /\ \A i, j \in DOMAIN remote : remote[i].of = x /\ remote[j].of = x => i = j
        /\ \A d \in Callers : Pushes(d, x) /\ push[d].step = "object" => push[d].known = HeldRef(x)
        /\ \A i \in DOMAIN remote : remote[i].of = x /\ mapping[x] = Nobody =>
             \E d \in Callers : Pushes(d, x) /\ push[d].step = "record"
    BY <1>11 DEF RemoteInv, OneIssue
  <2>2. \A d \in Callers : d # c => (Pushes(d, x)' <=> Pushes(d, x))
    BY <1>6 DEF Pushes
  <2>3. ~Pushes(c, x)' /\ x \in Remote!Items
    BY <1>6, <1>11, RemoteFacts DEF Pushes
  <2>4. CASE x = y
    <3>1. \A d \in Callers : ~Pushes(d, x)'
      BY <1>1, <2>1, <2>2, <2>3, <2>4 DEF Pushes
    <3>2. mapping'[x] # Nobody
      BY <1>4, <1>5, <2>3, <2>4
    <3> QED
      BY <1>1, <2>1, <3>1, <3>2 DEF OneIssue
  <2>5. CASE x # y
    <3>1. mapping'[x] = mapping[x] /\ HeldRef(x)' = HeldRef(x)
      BY <1>5, <2>3, <2>5 DEF HeldRef
    <3>2. ~Pushes(c, x)
      BY <2>5 DEF Pushes
    <3>3. \A d \in Callers : Pushes(d, x)' => Pushes(d, x) /\ push'[d] = push[d]
      BY <1>6, <2>2, <2>3
    <3>4. \A d \in Callers : Pushes(d, x) => Pushes(d, x)' /\ push'[d] = push[d]
      BY <1>6, <2>2, <3>2
    <3> QED
      BY <1>1, <2>1, <3>1, <3>3, <3>4 DEF OneIssue
  <2> QED
    BY <2>4, <2>5
<1>12. (\A x \in Issues : OneIssue(x))'
  BY <1>1, <1>11 DEF OneIssue
<1> QED
  BY <1>7, <1>8, <1>9, <1>10, <1>12 DEF RemoteInv

LEMMA RemoteGone ==
  ASSUME RemoteInv, NEW i \in DOMAIN remote, Remote!Deleted(i) PROVE RemoteInv'
<1>1. /\ remote' = [remote EXCEPT ![i].gone = TRUE] /\ faults' = faults + 1 /\ faults < MaxFaults
      /\ UNCHANGED <<place, mapping, push, excused>>
  BY DEF Remote!Deleted, Remote!Fault
<1>2. remote \in Seq(Remote!Object) /\ remote[i] \in Remote!Object
  BY RemoteTyped
<1>3. PICK o : o = [remote[i] EXCEPT !.gone = TRUE]
  OBVIOUS
<1>4. o \in Remote!Object /\ o.of = remote[i].of /\ o.in = remote[i].in /\ o.gone
  BY <1>2, <1>3 DEF Remote!Object
<1>5. remote' = [remote EXCEPT ![i] = o]
  BY <1>1, <1>2, <1>3
<1>6. /\ remote' \in Seq(Remote!Object) /\ DOMAIN remote' = DOMAIN remote
      /\ \A j \in DOMAIN remote : remote'[j] = IF j = i THEN o ELSE remote[j]
  BY <1>2, <1>4, <1>5
<1>7. \A j \in DOMAIN remote : /\ remote'[j].of = remote[j].of /\ remote'[j].in = remote[j].in
                               /\ remote[j].gone => remote'[j].gone
  BY <1>4, <1>6
<1>8. faults' \in 0..MaxFaults
  BY <1>1, RemoteTyped, OneMoreCounts, LimitsAssumption
<1>9. Remote!TypeOK'
  BY <1>1, <1>6, <1>8 DEF RemoteInv, Remote!TypeOK
<1>10. (\A c \in Callers : push[c] # Nobody => PushFits(push[c]))' /\ (\A x \in Remote!Items : RowFits(x))'
  BY <1>1, <1>6 DEF RemoteInv, PushFits, RowFits
<1>11. ASSUME NEW x \in Issues PROVE OneIssue(x)'
  <2>1. OneIssue(x)
    BY DEF RemoteInv
  <2> QED
    BY <1>1, <1>6, <1>7, <2>1 DEF OneIssue, Pushes, HeldRef
<1>12. ASSUME NEW d \in Published PROVE OnePage(d)'
  <2>1. OnePage(d)
    BY DEF RemoteInv
  <2> QED
    BY <1>6, <1>7, <2>1 DEF OnePage
<1>13. (\A x \in Issues : OneIssue(x))' /\ (\A d \in Published : OnePage(d))'
  BY <1>11, <1>12
<1> QED
  BY <1>9, <1>10, <1>13 DEF RemoteInv

\* Nothing but the places and the faults counted.
LEMMA RemoteKeeps ==
  ASSUME RemoteInv, UNCHANGED <<remote, mapping, push, excused>>,
         place' \in [Remote!Places -> {"none", "live", "trash"}], faults' \in 0..MaxFaults
  PROVE  RemoteInv'
<1>1. Remote!TypeOK'
  BY DEF RemoteInv, Remote!TypeOK
<1>2. (\A c \in Callers : push[c] # Nobody => PushFits(push[c]))' /\ (\A x \in Remote!Items : RowFits(x))'
  BY DEF RemoteInv, PushFits, RowFits
<1>3. (\A x \in Issues : OneIssue(x))' /\ (\A d \in Published : OnePage(d))'
  BY DEF RemoteInv, OneIssue, OnePage, Pushes, HeldRef
<1> QED
  BY <1>1, <1>2, <1>3 DEF RemoteInv

LEMMA RemotePlaceGone == ASSUME RemoteInv, NEW k \in Remote!Keys, Remote!PlaceDeleted(k) PROVE RemoteInv'
<1>1. PICK s \in {"trash", "none"} : place' = [place EXCEPT ![k] = s]
  BY DEF Remote!PlaceDeleted
<1>2. faults' = faults + 1 /\ faults < MaxFaults /\ UNCHANGED <<remote, mapping, push, excused>>
  BY DEF Remote!PlaceDeleted, Remote!Fault
<1>3. faults' \in 0..MaxFaults
  BY <1>2, RemoteTyped, OneMoreCounts, LimitsAssumption
<1>4. place' \in [Remote!Places -> {"none", "live", "trash"}]
  BY <1>1, RemoteTyped
<1> QED
  BY <1>2, <1>3, <1>4, RemoteKeeps

LEMMA RemoteBegin ==
  ASSUME RemoteInv, NEW c \in Callers, NEW x \in Remote!Items, NEW at \in KeysFor(x) \cup {Nobody},
         Remote!Begin(c, x, at)
  PROVE  RemoteInv'
<1>1. PICK v : v = [item |-> x, step |-> IF at = Nobody THEN "place" ELSE "object", key |-> at,
             known |-> IF at = Nobody THEN Nobody ELSE HeldRef(x), ref |-> Nobody]
  OBVIOUS
<1>2. /\ push[c] = Nobody /\ push' = [push EXCEPT ![c] = v]
      /\ excused' = IF \E d \in Callers : push[d] # Nobody /\ push[d].item = x THEN excused \cup {x} ELSE excused
      /\ UNCHANGED <<place, remote, mapping, faults>>
  BY <1>1 DEF Remote!Begin, Remote!Set, Remote!Known, HeldRef
<1>3. HeldRef(x) \in Nat \cup {Nobody} /\ (HeldRef(x) # Nobody => HeldRef(x) \in DOMAIN remote)
  <2>1. RowFits(x) /\ DOMAIN remote \subseteq Nat
    BY RemoteTyped DEF RemoteInv
  <2> QED
    BY <2>1 DEF HeldRef, RowFits
<1>4. v \in Remote!Push
  BY <1>1, <1>3, KeysForArePlaces DEF Remote!Push
<1>5. PushFits(v)
  BY <1>1, <1>3, KeysForArePlaces DEF PushFits
<1>6. excused' \subseteq Remote!Items /\ excused \subseteq excused'
  BY <1>2, RemoteTyped
<1>7. /\ v.item = x /\ (v.step = "object" => v.known = HeldRef(x))
      /\ x \notin excused' => \A d \in Callers : d # c => ~Pushes(d, x)
  BY <1>1, <1>2 DEF Pushes
<1>8. place' \in [Remote!Places -> {"none", "live", "trash"}] /\ faults' \in 0..MaxFaults
  BY <1>2, RemoteTyped
<1> QED
  BY <1>2, <1>4, <1>5, <1>6, <1>7, <1>8, PushGoesOn

LEMMA RemoteFinalizes ==
  ASSUME RemoteInv, NEW c \in Callers
  PROVE  /\ \A e \in JiraEpics : Remote!FinalizeEpic(c, e) => RemoteInv'
         /\ \A f \in JiraFeatures : Remote!FinalizeFeature(c, f) => RemoteInv'
         /\ \A d \in Published : Remote!FinalizeDocument(c, d) => RemoteInv'
<1>1. JiraEpics \subseteq Remote!Items /\ JiraFeatures \subseteq Remote!Items /\ Published \subseteq Remote!Items
  BY DEF Remote!Items
<1>2. ASSUME NEW e \in JiraEpics, Remote!FinalizeEpic(c, e) PROVE RemoteInv'
  BY <1>1, <1>2, RemoteBegin DEF Remote!FinalizeEpic
<1>3. ASSUME NEW d \in Published, Remote!FinalizeDocument(c, d) PROVE RemoteInv'
  BY <1>1, <1>3, RemoteBegin DEF Remote!FinalizeDocument
<1>4. ASSUME NEW f \in JiraFeatures, Remote!FinalizeFeature(c, f) PROVE RemoteInv'
  <2>1. EpicOf[f] \in JiraEpics /\ f \notin Published /\ EpicOf[f] \notin Published
    BY ItemsAssumption
  <2>2. RowFits(EpicOf[f]) /\ mapping[EpicOf[f]] # Nobody /\ Remote!Begin(c, f, mapping[EpicOf[f]].key)
    BY <1>1, <1>4, <2>1 DEF RemoteInv, Remote!FinalizeFeature
  <2>3. mapping[EpicOf[f]].key \in KeysFor(f)
    BY <2>1, <2>2 DEF RowFits, KeysFor
  <2> QED
    BY <1>1, <2>2, <2>3, RemoteBegin
<1> QED
  BY <1>2, <1>3, <1>4

\* The push of an item that goes on is still the only one.
LEMMA SamePush ==
  ASSUME RemoteInv, NEW c \in Callers, push[c] # Nobody, push[c].item \in Issues, push[c].item \notin excused
  PROVE  /\ \A d \in Callers : d # c => ~Pushes(d, push[c].item)
         /\ push[c].step = "object" => push[c].known = HeldRef(push[c].item)
<1>1. OneIssue(push[c].item) /\ Pushes(c, push[c].item)
  BY DEF RemoteInv, Pushes
<1> QED
  BY <1>1 DEF OneIssue

LEMMA RemoteOpens == ASSUME RemoteInv, NEW c \in Callers, push[c] # Nobody => push[c].item \in JiraEpics \cup Published, Remote!Opens(c) PROVE RemoteInv'
<1> DEFINE x == push[c].item
<1>1. PICK k : k = Remote!PlaceOf(x)
  OBVIOUS
<1>2. PICK h : h = HeldRef(x)
  OBVIOUS
<1>3. PICK v : v = [push[c] EXCEPT !.step = "object", !.key = k, !.known = h]
  OBVIOUS
<1>4. /\ push[c] # Nobody /\ push[c].step = "place" /\ push' = [push EXCEPT ![c] = v]
      /\ UNCHANGED <<remote, mapping, faults, excused>>
      /\ place' = IF place[k] = "none" THEN [place EXCEPT ![k] = "live"] ELSE place
  BY <1>1, <1>2, <1>3 DEF Remote!Opens, Remote!Set, Remote!Known, HeldRef
<1>5. push[c] \in Remote!Push /\ x \in JiraEpics \cup Published /\ x \in Remote!Items
  BY <1>4, RemoteTyped DEF Remote!Items
<1>6. k \in KeysFor(x)
  BY <1>1, <1>5, ItemsAssumption DEF Remote!PlaceOf, KeysFor, JiraKeys
<1>7. k \in Remote!Places
  BY <1>5, <1>6, KeysForArePlaces
<1>8. h \in Nat \cup {Nobody} /\ (h # Nobody => h \in DOMAIN remote)
  <2>1. RowFits(x) /\ DOMAIN remote \subseteq Nat
    BY <1>5, RemoteTyped DEF RemoteInv
  <2> QED
    BY <1>2, <2>1 DEF HeldRef, RowFits
<1>9. v \in Remote!Push /\ v.item = x /\ v.step = "object" /\ v.key = k /\ v.known = h
  BY <1>3, <1>5, <1>7, <1>8 DEF Remote!Push
<1>10. PushFits(v)
  BY <1>6, <1>8, <1>9 DEF PushFits
<1>11. place' \in [Remote!Places -> {"none", "live", "trash"}] /\ faults' \in 0..MaxFaults
       /\ excused' \subseteq Remote!Items /\ excused \subseteq excused'
  BY <1>4, <1>7, RemoteTyped
<1>12. x \in Issues /\ x \notin excused => \A d \in Callers : d # c => ~Pushes(d, x)
  BY <1>4, SamePush
<1> HIDE DEF x
<1> QED
  BY <1>2, <1>4, <1>9, <1>10, <1>11, <1>12, PushGoesOn

LEMMA RemoteEnds ==
  ASSUME RemoteInv, NEW c \in Callers, push' = [push EXCEPT ![c] = Nobody],
         UNCHANGED <<place, remote, mapping, faults, excused>>, push[c] # Nobody, push[c].step # "record"
  PROVE  RemoteInv'
<1>1. /\ excused' \subseteq Remote!Items /\ place' \in [Remote!Places -> {"none", "live", "trash"}]
      /\ faults' \in 0..MaxFaults
  BY RemoteTyped
<1> QED
  BY <1>1, PushGoesOn

LEMMA RemoteUpdates ==
  ASSUME RemoteInv, NEW c \in Callers, push[c] # Nobody, push[c].step = "object", push[c].known # Nobody,
         push' = [push EXCEPT ![c] = [push[c] EXCEPT !.step = "record", !.ref = push[c].known]],
         UNCHANGED <<place, remote, mapping, faults, excused>>
  PROVE  RemoteInv'
<1>1. PICK h : h = push[c].known
  OBVIOUS
<1>2. PICK v : v = [push[c] EXCEPT !.step = "record", !.ref = h]
  OBVIOUS
<1>3. push[c] \in Remote!Push /\ PushFits(push[c])
  BY RemoteTyped DEF RemoteInv
<1>4. h \in DOMAIN remote /\ h \in Nat
  BY <1>1, <1>3, RemoteTyped DEF PushFits
<1>5. /\ v \in Remote!Push /\ v.item = push[c].item /\ v.step = "record" /\ v.key = push[c].key /\ v.known = h /\ v.ref = h
  BY <1>1, <1>2, <1>3, <1>4 DEF Remote!Push
<1>6. PushFits(v)
  <2>1. push[c].key \in KeysFor(push[c].item)
    BY <1>3 DEF PushFits
  <2>2. v.key \in KeysFor(v.item)
    BY <1>5, <2>1
  <2> QED
    BY <1>4, <1>5, <2>2 DEF PushFits
<1>7. push' = [push EXCEPT ![c] = v]
  BY <1>1, <1>2
<1>8. /\ excused' \subseteq Remote!Items /\ place' \in [Remote!Places -> {"none", "live", "trash"}]
      /\ faults' \in 0..MaxFaults
  BY RemoteTyped
<1>9. v.item \in Issues /\ v.item \notin excused' => \A d \in Callers : d # c => ~Pushes(d, v.item)
  BY <1>5, SamePush
<1> QED
  BY <1>5, <1>6, <1>7, <1>8, <1>9, PushGoesOn

LEMMA RemoteUpdateIssue == ASSUME RemoteInv, NEW c \in Callers, Remote!UpdateIssue(c) PROVE RemoteInv'
<1>1. push[c] # Nobody /\ push[c].step = "object" /\ push[c].known # Nobody /\ UNCHANGED <<mapping, faults, excused>>
  BY DEF Remote!UpdateIssue, Remote!Pushing
<1>2. CASE Remote!Reachable(push[c].known)
  <2>1. /\ push' = [push EXCEPT ![c] = [push[c] EXCEPT !.step = "record", !.ref = push[c].known]]
        /\ UNCHANGED <<place, remote>>
    BY <1>2 DEF Remote!UpdateIssue, Remote!Set
  <2> QED
    BY <1>1, <2>1, RemoteUpdates
<1>3. CASE ~Remote!Reachable(push[c].known)
  <2>1. push' = [push EXCEPT ![c] = Nobody] /\ UNCHANGED <<place, remote>>
    BY <1>3 DEF Remote!UpdateIssue, Remote!Set, Remote!Ends
  <2> QED
    BY <1>1, <2>1, RemoteEnds
<1> QED
  BY <1>2, <1>3

LEMMA RemoteCreates ==
  ASSUME RemoteInv, NEW c \in Callers, push[c] # Nobody, push[c].step = "object", NEW k \in Remote!Places,
         Remote!Creates(c, k), UNCHANGED <<mapping, faults, excused>>,
         place' \in [Remote!Places -> {"none", "live", "trash"}],
         push[c].item \in Issues => push[c].known = Nobody,
         push[c].item \in Published =>
           /\ k = SpaceOf[ProjectOf[push[c].item]]
           /\ \A i \in DOMAIN remote : remote[i].of = push[c].item => remote[i].gone
  PROVE  RemoteInv'
<1>1. PICK n : n = Len(remote) + 1
  OBVIOUS
<1>2. PICK v : v = [push[c] EXCEPT !.step = "record", !.ref = n]
  OBVIOUS
<1>3. PICK o : o = [of |-> push[c].item, in |-> k, gone |-> FALSE]
  OBVIOUS
<1>4. remote' = Append(remote, o) /\ push' = [push EXCEPT ![c] = v]
  BY <1>1, <1>2, <1>3 DEF Remote!Creates, Remote!Set
<1>5. push[c] \in Remote!Push /\ n \in Nat
  BY <1>1, RemoteTyped
<1>6. /\ v \in Remote!Push /\ v.item = push[c].item /\ v.step = "record" /\ v.key = push[c].key /\ v.known = push[c].known
      /\ v.ref = n
  BY <1>2, <1>5 DEF Remote!Push
<1>7. o \in Remote!Object /\ o.of = push[c].item /\ o.in = k
  BY <1>3, <1>5 DEF Remote!Object, Remote!Push
<1> QED
  BY <1>1, <1>4, <1>6, <1>7, PushCreates

\* The key that is tried and accepted is one of the keys there are.
LEMMA RecreatedIsKey ==
  ASSUME NEW k \in JiraKeys, Remote!Recreatable(k) # {} PROVE Remote!Recreated(k) \in Remote!Keys
<1>1. PICK p \in Remote!Projects : k = KeyOf[p]
  BY DEF JiraKeys
<1>2. Spares[k] \in Seq(Remote!Keys) /\ k \in Remote!Keys
  <2>1. Spares[k] \in Seq(Remote!Keys)
    BY <1>1, ItemsAssumption
  <2>2. k \in {KeyOf[p]} \cup {Spares[KeyOf[p]][n] : n \in DOMAIN Spares[KeyOf[p]]}
    BY <1>1
  <2>3. k \in Remote!Keys
    BY <2>2 DEF Remote!Keys
  <2> QED
    BY <2>1, <2>3
<1>3. PICK T : T = Remote!Tried(k)
  OBVIOUS
<1>4. T \in Seq(Remote!Keys)
  BY <1>2, <1>3 DEF Remote!Tried
<1>5. PICK R : R = Remote!Recreatable(k)
  OBVIOUS
<1>6. R \subseteq DOMAIN T /\ DOMAIN T \subseteq Nat
  BY <1>3, <1>4, <1>5 DEF Remote!Recreatable
<1>7. \E n \in R : \A m \in R : n <= m
  BY <1>5, <1>6, LeastMember
<1>8. (CHOOSE n \in R : \A m \in R : n <= m) \in R
  BY <1>7
<1>9. T[CHOOSE n \in R : \A m \in R : n <= m] \in Remote!Keys
  BY <1>4, <1>6, <1>8
<1> QED
  BY <1>3, <1>5, <1>9 DEF Remote!Recreated

LEMMA RemoteCreateIssue == ASSUME RemoteInv, NEW c \in Callers, Remote!CreateIssue(c) PROVE RemoteInv'
<1> DEFINE k == push[c].key
<1>1. /\ push[c] # Nobody /\ push[c].step = "object" /\ push[c].known = Nobody /\ push[c].item \in Issues
      /\ UNCHANGED <<mapping, faults, excused>>
  BY DEF Remote!CreateIssue, Remote!Pushing, Issues
<1>2. push[c] \in Remote!Push /\ PushFits(push[c]) /\ push[c].item \notin Published
  BY <1>1, RemoteTyped, RemoteFacts DEF RemoteInv
<1>3. k \in JiraKeys
  BY <1>1, <1>2 DEF PushFits, KeysFor
<1>4. JiraKeys \subseteq Remote!Places /\ Remote!Keys \subseteq Remote!Places
  BY DEF JiraKeys, Remote!Places, Remote!Keys
<1>5. CASE Remote!Creates(c, k) /\ UNCHANGED place
  <2>1. place' \in [Remote!Places -> {"none", "live", "trash"}] /\ k \in Remote!Places
    BY <1>3, <1>4, <1>5, RemoteTyped
  <2> HIDE DEF k
  <2> QED
    BY <1>1, <1>2, <1>5, <2>1, RemoteCreates
<1>6. CASE /\ Remote!Recreatable(k) # {} /\ Remote!Creates(c, Remote!Recreated(k))
           /\ place' = [place EXCEPT ![Remote!Recreated(k)] = "live"]
  <2>1. PICK q : q = Remote!Recreated(k)
    OBVIOUS
  <2>2. q \in Remote!Places
    BY <1>3, <1>4, <1>6, <2>1, RecreatedIsKey
  <2>3. place' = [place EXCEPT ![q] = "live"] /\ Remote!Creates(c, q)
    BY <1>6, <2>1
  <2>4. place' \in [Remote!Places -> {"none", "live", "trash"}]
    BY <2>2, <2>3, RemoteTyped
  <2> QED
    BY <1>1, <1>2, <2>2, <2>3, <2>4, RemoteCreates
<1>7. CASE Remote!Ends(c)
  <2>1. push' = [push EXCEPT ![c] = Nobody] /\ UNCHANGED <<place, remote>>
    BY <1>7 DEF Remote!Set, Remote!Ends
  <2> QED
    BY <1>1, <2>1, RemoteEnds
<1> QED
  BY <1>5, <1>6, <1>7 DEF Remote!CreateIssue

LEMMA RemoteUpsertPage == ASSUME RemoteInv, NEW c \in Callers, Remote!UpsertPage(c) PROVE RemoteInv'
<1> DEFINE k == push[c].key
           d == push[c].item
<1>1. push[c] # Nobody /\ push[c].step = "object" /\ d \in Published /\ UNCHANGED <<place, mapping, faults, excused>>
  BY DEF Remote!UpsertPage, Remote!Pushing
<1>2. push[c] \in Remote!Push /\ PushFits(push[c]) /\ d \notin Issues /\ OnePage(d)
  BY <1>1, RemoteTyped, RemoteFacts DEF RemoteInv
<1>3. k = SpaceOf[ProjectOf[d]] /\ k \in Remote!Places
  <2>1. k \in KeysFor(d) /\ d \in Remote!Items
    BY <1>1, <1>2, RemoteFacts DEF PushFits
  <2> QED
    BY <1>1, <2>1, KeysForArePlaces DEF KeysFor
<1>4. CASE push[c].known # Nobody /\ ~remote[push[c].known].gone
  <2>1. push' = [push EXCEPT ![c] = [push[c] EXCEPT !.step = "record", !.ref = push[c].known]] /\ UNCHANGED remote
    BY <1>4 DEF Remote!UpsertPage, Remote!Set
  <2> QED
    BY <1>1, <1>4, <2>1, RemoteUpdates
<1>5. CASE push' = [push EXCEPT ![c] = Nobody] /\ UNCHANGED remote
  BY <1>1, <1>5, RemoteEnds
<1>6. CASE ~Remote!TitleTaken(k, d) /\ Remote!Creates(c, k)
  <2>1. ASSUME NEW i \in DOMAIN remote, remote[i].of = d PROVE remote[i].gone
    <3>1. remote[i].in = k
      BY <1>2, <1>3, <2>1 DEF OnePage
    <3>2. remote[i] \in Remote!Object
      BY RemoteTyped
    <3> QED
      BY <1>6, <2>1, <3>1, <3>2 DEF Remote!TitleTaken, Remote!Object
  <2>2. place' \in [Remote!Places -> {"none", "live", "trash"}]
    BY <1>1, RemoteTyped
  <2> HIDE DEF k
  <2> QED
    BY <1>1, <1>2, <1>3, <1>6, <2>1, <2>2, RemoteCreates
<1> QED
  BY <1>4, <1>5, <1>6 DEF Remote!UpsertPage, Remote!Set

LEMMA RemoteLost == ASSUME RemoteInv, NEW c \in Callers, Remote!Lost(c) PROVE RemoteInv'
<1>1. /\ push[c] # Nobody /\ push' = [push EXCEPT ![c] = Nobody] /\ UNCHANGED <<place, remote, mapping>>
      /\ faults' = faults + 1 /\ faults < MaxFaults
      /\ excused' = IF push[c].step = "record" THEN excused \cup {push[c].item} ELSE excused
  BY DEF Remote!Lost, Remote!Fault, Remote!Set
<1>2. push[c].item \in Remote!Items
  BY <1>1, RemoteTyped DEF Remote!Push
<1>3. /\ excused' \subseteq Remote!Items /\ excused \subseteq excused'
      /\ place' \in [Remote!Places -> {"none", "live", "trash"}]
  BY <1>1, <1>2, RemoteTyped
<1>4. faults' \in 0..MaxFaults
  BY <1>1, RemoteTyped, OneMoreCounts, LimitsAssumption
<1> QED
  BY <1>1, <1>3, <1>4, PushGoesOn

LEMMA RemoteNext == ASSUME RemoteInv, [Remote!Next]_Remote!integrationVars PROVE RemoteInv'
<1>1. CASE UNCHANGED Remote!integrationVars
  <2>1. UNCHANGED <<place, remote, mapping, push, faults, excused>>
    BY <1>1 DEF Remote!integrationVars
  <2>2. place' \in [Remote!Places -> {"none", "live", "trash"}] /\ faults' \in 0..MaxFaults
    BY <2>1, RemoteTyped
  <2> QED
    BY <2>1, <2>2, RemoteKeeps
<1>2. ASSUME NEW c \in Callers, Remote!EnsureProject(c) \/ Remote!EnsureSpace(c) PROVE RemoteInv'
  BY <1>2, RemoteOpens DEF Remote!EnsureProject, Remote!EnsureSpace
<1>3. ASSUME NEW c \in Callers,
             \/ Remote!UpdateIssue(c) \/ Remote!CreateIssue(c) \/ Remote!UpsertPage(c) \/ Remote!Record(c) \/ Remote!Lost(c)
      PROVE  RemoteInv'
  BY <1>3, RemoteUpdateIssue, RemoteCreateIssue, RemoteUpsertPage, RemoteRecord, RemoteLost
<1> QED
  BY <1>1, <1>2, <1>3, RemoteFinalizes, RemoteGone, RemotePlaceGone DEF Remote!Next

LEMMA AtMostOne ==
  ASSUME NEW S, \A i, j \in S : i = j PROVE Cardinality(S) <= 1 /\ ~(Cardinality(S) > 1)
<1>1. Cardinality(S) \in {0, 1}
  <2>1. CASE S = {}
    BY <2>1, FS_EmptySet
  <2>2. CASE S # {}
    <3>1. PICK i \in S : TRUE
      BY <2>2
    <3>2. S = {i}
      BY <3>1
    <3> QED
      BY <3>2, FS_Singleton
  <2> QED
    BY <2>1, <2>2
<1> QED
  BY <1>1

LEMMA RemoteHolds == ASSUME RemoteInv PROVE Remote!TypeOK /\ Remote!OneObjectEach
<1>1. Remote!TypeOK
  BY DEF RemoteInv
<1>2. ASSUME NEW d \in Published PROVE Remote!OneLivePage(d)
  <2>1. PICK S : S = {i \in Remote!MadeFor(d) : ~remote[i].gone}
    OBVIOUS
  <2>2. \A i, j \in S : i = j
    BY <2>1 DEF RemoteInv, OnePage, Remote!MadeFor
  <2>3. Cardinality(S) <= 1
    BY <2>2, AtMostOne
  <2>4. Remote!Cardinality(S) = Cardinality(S)
    BY DEF Remote!Cardinality, Cardinality
  <2> QED
    BY <2>1, <2>3, <2>4 DEF Remote!OneLivePage
<1>3. ASSUME NEW x \in Issues, x \notin excused PROVE ~(Remote!Cardinality(Remote!MadeFor(x)) > 1)
  <2>1. PICK S : S = Remote!MadeFor(x)
    OBVIOUS
  <2>2. \A i, j \in S : i = j
    BY <1>3, <2>1 DEF RemoteInv, OneIssue, Remote!MadeFor
  <2>3. ~(Cardinality(S) > 1)
    BY <2>2, AtMostOne
  <2>4. Remote!Cardinality(S) = Cardinality(S)
    BY DEF Remote!Cardinality, Cardinality
  <2> QED
    BY <2>1, <2>3, <2>4
<1>4. Remote!OneObjectEach
  BY <1>2, <1>3 DEF Remote!OneObjectEach, Issues
<1> QED
  BY <1>1, <1>4
================================================================================
