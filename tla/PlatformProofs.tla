---------------------------- MODULE PlatformProofs ----------------------------
(***************************************************************************)
(* What holds of Platform whatever the numbers of requests, deployments,   *)
(* decisions, probes, callers and events: the inductive invariant of the   *)
(* platform's deployment, of a project's, of the ops loop and of the delivery *)
(* of events, and the properties of the parts together.                    *)
(***************************************************************************)
EXTENDS Platform, RequestLifecycleProofs, FiniteSetTheorems, SequenceTheorems, TLAPS

(***************************************************************************)
(* The platform's deployment.  None of its properties is inductive.  The   *)
(* strengthening says which step the supervisor's row is at, that the rows *)
(* still to do are on GitHub and not begun, that nothing is recorded       *)
(* before it is published, and that the host's clone has its reverts in    *)
(* order too.                                                              *)
(***************************************************************************)
\* Requests are numbered from one.
Numbered == Builds \subseteq Nat \ {0}

HostType ==
  [at: {"boot", "mirror", "poll", "next", "sync", "judge", "build", "staging", "dev",
        "failed", "revert", "push", "rebuild"},
   id: Builds \cup {0}, todo: SUBSET Builds]

HostTypes ==
  /\ origin \in Seq(Int) /\ local \in Seq(Int)
  /\ publish \in [Builds -> [at: {"ready", "based", "pushed", "done"}, base: Nat]]
  /\ deployment \in [Builds -> Host!Steps]
  /\ report \in [Builds -> Host!Terminal \cup {"none", "timeout"}]
  /\ host \in HostType

\* The step of the row at hand follows from where the supervisor is.
RowAt(h, dep) ==
  /\ h.id = 0 <=> h.at \in {"boot", "mirror", "poll", "next"}
  /\ h.at = "sync" => dep[h.id] = "syncing"
  /\ h.at = "judge" => dep[h.id] = "judging"
  /\ h.at = "build" => dep[h.id] = "building"
  /\ h.at = "staging" => dep[h.id] = "staging_deploying"
  /\ h.at = "dev" => dep[h.id] = "staging_healthy"
  /\ h.at = "failed" => dep[h.id] = "failed"
  /\ h.at \in {"revert", "push", "rebuild"} => dep[h.id] = "rolling_back"

\* Rows still to do have not been begun, and what is not published is not recorded.
ToDoIsNew == \A r \in host.todo : deployment[r] = "code_committed"
RecordedIsPublished == \A r \in Builds : publish[r].at # "done" => deployment[r] = "none" /\ report[r] = "none"

\* What the supervisor works on is on GitHub.
OnMain(r) == \E i \in 1..Len(origin) : origin[i] = r
WorkedIsOnMain ==
  /\ host.id # 0 => OnMain(host.id)
  /\ \A r \in host.todo : OnMain(r)
  /\ \A r \in Builds \ owned : publish[r].at = "pushed" \/ deployment[r] = "code_committed" => OnMain(r)

\* In a history every revert stands behind its commit.
Reverted == {"rolling_back", "rolled_back", "failed"}
Paired(s, dep) ==
  \A i \in 1..Len(s) : s[i] < 0 =>
    i > 1 /\ s[i - 1] = -s[i] /\ -s[i] \in Builds /\ dep[-s[i]] \in Reverted

HostHolds ==
  /\ HostTypes /\ RowAt(host, deployment) /\ ToDoIsNew /\ RecordedIsPublished /\ WorkedIsOnMain
  /\ Host!ReportHolds /\ Paired(origin, deployment) /\ Paired(local, deployment)

(***************************************************************************)
(* Histories                                                               *)
(***************************************************************************)
LEMMA AppendFacts ==
  ASSUME NEW s \in Seq(Int), NEW e \in Int
  PROVE  /\ Append(s, e) \in Seq(Int) /\ Len(Append(s, e)) = Len(s) + 1
         /\ \A i \in 1..Len(s) : Append(s, e)[i] = s[i]
         /\ Append(s, e)[Len(s) + 1] = e
OBVIOUS

LEMMA SubSeqStart ==
  ASSUME NEW s \in Seq(Int), NEW n \in 0..Len(s)
  PROVE  /\ SubSeq(s, 1, n) \in Seq(Int) /\ Len(SubSeq(s, 1, n)) = n
         /\ \A i \in 1..n : SubSeq(s, 1, n)[i] = s[i]
OBVIOUS

LEMMA AppendIsLonger ==
  ASSUME NEW s \in Seq(Int), NEW e \in Int
  PROVE  Host!IsPrefix(s, Append(s, e))
BY AppendFacts, SubSeqStart DEF Host!IsPrefix

LEMMA PrefixKeepsMembers ==
  ASSUME NEW s \in Seq(Int), NEW t \in Seq(Int), Host!IsPrefix(s, t), NEW i \in 1..Len(s)
  PROVE  i \in 1..Len(t) /\ t[i] = s[i]
<1>1. Len(s) <= Len(t) /\ SubSeq(s, 1, Len(s)) = SubSeq(t, 1, Len(s)) /\ Len(s) \in Nat /\ Len(t) \in Nat
  BY DEF Host!IsPrefix
<1>2. SubSeq(s, 1, Len(s))[i] = s[i] /\ SubSeq(t, 1, Len(s))[i] = t[i]
  BY <1>1, SubSeqStart
<1> QED
  BY <1>1, <1>2

LEMMA PairedStart ==
  ASSUME NEW s \in Seq(Int), NEW dep, Paired(s, dep), NEW n \in 0..Len(s)
  PROVE  Paired(SubSeq(s, 1, n), dep)
<1>1. Len(s) \in Nat
  OBVIOUS
<1>2. ASSUME NEW i \in 1..n, i > 1 PROVE i - 1 \in 1..n
  BY <1>1, <1>2
<1> QED
  BY <1>1, <1>2, SubSeqStart DEF Paired

LEMMA PairedCommit ==
  ASSUME Numbered, NEW s \in Seq(Int), NEW dep, Paired(s, dep), NEW r \in Builds
  PROVE  Paired(Append(s, r), dep)
<1>1. r \in Int /\ ~(r < 0) /\ Len(s) \in Nat
  BY DEF Numbered
<1>2. ASSUME NEW i \in 1..Len(Append(s, r)), Append(s, r)[i] < 0
      PROVE  i \in 1..Len(s) /\ Append(s, r)[i] = s[i] /\ (i > 1 => Append(s, r)[i - 1] = s[i - 1])
  BY <1>1, <1>2, AppendFacts
<1> QED
  BY <1>2 DEF Paired

LEMMA PairedRevert ==
  ASSUME Numbered, NEW s \in Seq(Int), NEW dep, Paired(s, dep), NEW r \in Builds,
         Len(s) > 0, s[Len(s)] = r, dep[r] \in Reverted
  PROVE  Paired(Append(s, -r), dep)
<1>1. r \in Int /\ -r \in Int /\ -(-r) = r /\ Len(s) \in Nat
  BY DEF Numbered
<1>2. ASSUME NEW i \in 1..Len(Append(s, -r)), Append(s, -r)[i] < 0
      PROVE  i > 1 /\ Append(s, -r)[i - 1] = -Append(s, -r)[i] /\ -Append(s, -r)[i] \in Builds
             /\ dep[-Append(s, -r)[i]] \in Reverted
  <2>1. CASE i \in 1..Len(s)
    <3>1. Append(s, -r)[i] = s[i] /\ (i > 1 => Append(s, -r)[i - 1] = s[i - 1])
      BY <1>1, <2>1, AppendFacts
    <3> QED
      BY <1>2, <2>1, <3>1 DEF Paired
  <2>2. CASE i = Len(s) + 1
    <3>1. Append(s, -r)[i] = -r /\ Append(s, -r)[i - 1] = s[Len(s)] /\ i > 1
      BY <1>1, <2>2, AppendFacts
    <3> QED
      BY <1>1, <3>1
  <2> QED
    BY <1>1, <2>1, <2>2, AppendFacts
<1> QED
  BY <1>2 DEF Paired

LEMMA PairedKept ==
  ASSUME NEW s, NEW dep, NEW then, Paired(s, dep),
         \A q \in Builds : dep[q] \in Reverted => then[q] \in Reverted
  PROVE  Paired(s, then)
BY DEF Paired

(***************************************************************************)
(* The supervisor's row changes its step                                   *)
(***************************************************************************)
LEMMA RowInHand ==
  ASSUME Numbered, HostHolds, host.id # 0
  PROVE  /\ host.id \in Builds /\ deployment[host.id] \in Host!InFlight \cup {"failed"}
         /\ host.id \notin host.todo /\ OnMain(host.id)
<1>1. host.id \in Builds
  BY DEF HostHolds, HostTypes, HostType
<1>2. deployment[host.id] \in Host!InFlight \cup {"failed"}
  BY DEF HostHolds, HostTypes, HostType, RowAt, Host!InFlight
<1> QED
  BY <1>1, <1>2 DEF HostHolds, ToDoIsNew, WorkedIsOnMain, Host!InFlight

\* In one case for every step of the loop: what it keeps follows from RowAt.
LEMMA StepKeeps ==
  ASSUME Numbered, HostHolds, host.id # 0, NEW s \in Host!Steps \ {"none", "code_committed"}, Host!Step(s),
         deployment[host.id] \in Reverted => s \in Reverted,
         NEW h \in HostType, host' = h, h.id \in {0, host.id}, h.todo = host.todo, RowAt(h, deployment'),
         UNCHANGED <<origin, local, publish, owned, report>>
  PROVE  HostHolds'
<1>1. /\ host.id \in Builds /\ deployment[host.id] \in Host!InFlight \cup {"failed"} /\ host.id \notin host.todo
  BY RowInHand
<1>2. deployment'[host.id] = s /\ \A q \in Builds \ {host.id} : deployment'[q] = deployment[q]
  BY <1>1 DEF Host!Step, HostHolds, HostTypes
<1>3. HostTypes'
  BY <1>1 DEF HostHolds, HostTypes, Host!Step
<1>4. ToDoIsNew'
  <2>1. host.todo \subseteq Builds
    BY DEF HostHolds, HostTypes, HostType
  <2> QED
    BY <1>1, <1>2, <2>1 DEF HostHolds, ToDoIsNew
<1>5. RecordedIsPublished'
  BY <1>1, <1>2 DEF HostHolds, RecordedIsPublished, Host!InFlight
<1>6. WorkedIsOnMain'
  BY <1>2 DEF HostHolds, WorkedIsOnMain, OnMain
<1>7. Host!ReportHolds'
  BY <1>1, <1>2 DEF HostHolds, Host!ReportHolds, Host!InFlight, Host!Terminal
<1>8. Paired(origin, deployment)' /\ Paired(local, deployment)'
  <2>1. \A q \in Builds : deployment[q] \in Reverted => deployment'[q] \in Reverted
    BY <1>2
  <2> QED
    BY <2>1, PairedKept DEF HostHolds
<1> QED
  BY <1>3, <1>4, <1>5, <1>6, <1>7, <1>8 DEF HostHolds

LEMMA HostEdits ==
  ASSUME HostTypes, NEW at \in {"mirror", "poll", "next", "sync", "judge", "build", "staging", "dev",
                              "failed", "revert", "push", "rebuild"}
  PROVE  /\ [host EXCEPT !.at = at] \in HostType /\ [host EXCEPT !.at = at].at = at
         /\ [host EXCEPT !.at = at].id = host.id /\ [host EXCEPT !.at = at].todo = host.todo
         /\ [host EXCEPT !.at = at, !.id = 0] \in HostType /\ [host EXCEPT !.at = at, !.id = 0].at = at
         /\ [host EXCEPT !.at = at, !.id = 0].id = 0 /\ [host EXCEPT !.at = at, !.id = 0].todo = host.todo
BY DEF HostTypes, HostType

LEMMA EndsKeeps ==
  ASSUME Numbered, HostHolds, host.id # 0, NEW s \in Host!Terminal, Host!Ends(s),
         deployment[host.id] \in Reverted => s \in Reverted,
         UNCHANGED <<origin, local, publish, owned, report>>
  PROVE  HostHolds'
<1> DEFINE h == [host EXCEPT !.at = "next", !.id = 0]
<1>1. h \in HostType /\ h.at = "next" /\ h.id = 0 /\ h.todo = host.todo
  BY HostEdits DEF HostHolds
<1>2. host' = h /\ Host!Step(s)
  BY DEF Host!Ends
<1> HIDE DEF h
<1>3. RowAt(h, deployment')
  BY <1>1 DEF RowAt
<1>4. s \in Host!Steps \ {"none", "code_committed"}
  BY DEF Host!Terminal, Host!Steps
<1> QED
  BY <1>1, <1>2, <1>3, <1>4, StepKeeps

Follows(at, s) ==
  <<at, s>> \in {<<"judge", "judging">>, <<"build", "building">>, <<"staging", "staging_deploying">>,
                <<"dev", "staging_healthy">>, <<"failed", "failed">>, <<"revert", "rolling_back">>}

LEMMA GoesKeeps ==
  ASSUME Numbered, HostHolds, host.id # 0, NEW at, NEW s, Follows(at, s), Host!Step(s), Host!Goes(at),
         deployment[host.id] \in Reverted => s \in Reverted,
         UNCHANGED <<origin, local, publish, owned, report>>
  PROVE  HostHolds'
<1> DEFINE h == [host EXCEPT !.at = at]
<1>1. h \in HostType /\ h.at = at /\ h.id = host.id /\ h.todo = host.todo
  BY HostEdits DEF HostHolds, Follows
<1>2. host' = h
  BY DEF Host!Goes
<1> HIDE DEF h
<1>3. deployment'[host.id] = s
  BY RowInHand DEF Host!Step, HostHolds, HostTypes
<1>4. RowAt(h, deployment')
  BY <1>1, <1>3 DEF RowAt, Follows
<1>5. s \in Host!Steps \ {"none", "code_committed"}
  BY DEF Follows, Host!Steps, Host!InFlight, Host!Terminal
<1> QED
  BY <1>1, <1>2, <1>4, <1>5, StepKeeps

LEMMA AtWork ==
  ASSUME HostHolds, host.at \in {"sync", "judge", "build", "staging", "dev", "failed", "revert", "push", "rebuild"}
  PROVE  host.id # 0
BY DEF HostHolds, RowAt

LEMMA ForwardKeeps ==
  ASSUME Numbered, HostHolds, Host!Sync \/ Host!Judge \/ Host!Build \/ Host!Staging \/ Host!Dev \/ Host!Rollback \/ Host!Rebuild
  PROVE  HostHolds'
<1>1. CASE Host!Sync
  <2>1. host.id # 0 /\ deployment[host.id] \notin Reverted
    BY <1>1, AtWork DEF Host!Sync, Host!At, HostHolds, RowAt, Reverted
  <2>2. CASE Host!Ends("failed")
    BY <1>1, <2>1, <2>2, EndsKeeps DEF Host!Sync, Host!Terminal
  <2>3. CASE Host!Step("judging") /\ Host!Goes("judge")
    BY <1>1, <2>1, <2>3, GoesKeeps DEF Host!Sync, Follows
  <2> QED
    BY <1>1, <2>2, <2>3 DEF Host!Sync
<1>2. CASE Host!Judge
  <2>1. host.id # 0 /\ deployment[host.id] \notin Reverted
    BY <1>2, AtWork DEF Host!Judge, Host!At, HostHolds, RowAt, Reverted
  <2>2. CASE Host!Ends("completed") \/ Host!Ends("on_hold")
    BY <1>2, <2>1, <2>2, EndsKeeps DEF Host!Judge, Host!Terminal
  <2>3. CASE Host!Step("building") /\ Host!Goes("build")
    BY <1>2, <2>1, <2>3, GoesKeeps DEF Host!Judge, Follows
  <2> QED
    BY <1>2, <2>2, <2>3 DEF Host!Judge
<1>3. CASE Host!Build
  <2>1. host.id # 0 /\ deployment[host.id] \notin Reverted
    BY <1>3, AtWork DEF Host!Build, Host!At, HostHolds, RowAt, Reverted
  <2>2. CASE Host!Ends("failed")
    BY <1>3, <2>1, <2>2, EndsKeeps DEF Host!Build, Host!Terminal
  <2>3. CASE Host!Step("staging_deploying") /\ Host!Goes("staging")
    BY <1>3, <2>1, <2>3, GoesKeeps DEF Host!Build, Follows
  <2> QED
    BY <1>3, <2>2, <2>3 DEF Host!Build
<1>4. CASE Host!Staging
  <2>1. host.id # 0 /\ deployment[host.id] \notin Reverted
    BY <1>4, AtWork DEF Host!Staging, Host!At, HostHolds, RowAt, Reverted
  <2>2. CASE Host!Step("failed") /\ Host!Goes("failed")
    BY <1>4, <2>1, <2>2, GoesKeeps DEF Host!Staging, Follows
  <2>3. CASE Host!Step("staging_healthy") /\ Host!Goes("dev")
    BY <1>4, <2>1, <2>3, GoesKeeps DEF Host!Staging, Follows
  <2> QED
    BY <1>4, <2>2, <2>3 DEF Host!Staging
<1>5. CASE Host!Dev
  <2>1. host.id # 0 /\ deployment[host.id] \notin Reverted
    BY <1>5, AtWork DEF Host!Dev, Host!At, HostHolds, RowAt, Reverted
  <2> QED
    BY <1>5, <2>1, EndsKeeps DEF Host!Dev, Host!Terminal
<1>6. CASE Host!Rollback
  <2>1. host.id # 0
    BY <1>6, AtWork DEF Host!Rollback, Host!At
  <2> QED
    BY <1>6, <2>1, GoesKeeps DEF Host!Rollback, Follows, Reverted
<1>7. CASE Host!Rebuild
  <2>1. host.id # 0
    BY <1>7, AtWork DEF Host!Rebuild, Host!At
  <2> QED
    BY <1>7, <2>1, EndsKeeps DEF Host!Rebuild, Host!Terminal, Reverted
<1> QED
  BY <1>1, <1>2, <1>3, <1>4, <1>5, <1>6, <1>7

(***************************************************************************)
(* The rollback rewrites the clone and pushes it                           *)
(***************************************************************************)
LEMMA ShippedIsPaired ==
  ASSUME Numbered, HostHolds, host.id # 0, NEW shipped,
         shipped = IF local # <<>> /\ Host!Last(local) = host.id THEN local ELSE Host!History(host.id)
  PROVE  /\ shipped \in Seq(Int) /\ Paired(shipped, deployment)
         /\ Len(shipped) > 0 /\ shipped[Len(shipped)] = host.id
<1>1. origin \in Seq(Int) /\ local \in Seq(Int)
  BY DEF HostHolds, HostTypes
<1>2. CASE local # <<>> /\ Host!Last(local) = host.id
  BY <1>1, <1>2 DEF HostHolds, Host!Last
<1>3. CASE ~(local # <<>> /\ Host!Last(local) = host.id)
  <2> DEFINE n == CHOOSE i \in 1..Len(origin) : origin[i] = host.id
  <2>1. n \in 1..Len(origin) /\ origin[n] = host.id
    BY RowInHand DEF OnMain
  <2>2. shipped = SubSeq(origin, 1, n)
    BY <1>3 DEF Host!History
  <2> HIDE DEF n
  <2>3. Len(origin) \in Nat /\ n \in 0..Len(origin) /\ n \in 1..n /\ n > 0
    BY <1>1, <2>1
  <2>4. shipped \in Seq(Int) /\ Len(shipped) = n /\ shipped[n] = origin[n]
    BY <1>1, <2>2, <2>3, SubSeqStart
  <2>5. Paired(shipped, deployment)
    BY <1>1, <2>2, <2>3, PairedStart DEF HostHolds
  <2> QED
    BY <2>1, <2>3, <2>4, <2>5
<1> QED
  BY <1>2, <1>3

\* Another history for the clone changes nothing else.
LEMMA LocalKeeps ==
  ASSUME HostHolds, local' \in Seq(Int), Paired(local', deployment),
         UNCHANGED <<origin, publish, owned, deployment, host, report>>
  PROVE  HostHolds'
BY DEF HostHolds, HostTypes, ToDoIsNew, RecordedIsPublished, WorkedIsOnMain, OnMain, Host!ReportHolds

LEMMA RevertKeeps == ASSUME Numbered, HostHolds, Host!Revert PROVE HostHolds'
<1> DEFINE shipped == IF local # <<>> /\ Host!Last(local) = host.id THEN local ELSE Host!History(host.id)
<1>1. host.at = "revert" /\ host.id # 0
  BY AtWork DEF Host!Revert, Host!At
<1>2. /\ shipped \in Seq(Int) /\ Paired(shipped, deployment)
      /\ Len(shipped) > 0 /\ shipped[Len(shipped)] = host.id
  BY <1>1, ShippedIsPaired
<1>3. host.id \in Builds /\ -host.id \in Int
  <2>1. host.id \in Builds
    BY <1>1, RowInHand
  <2>2. \A i \in Builds : -i \in Int
    BY DEF Numbered
  <2> QED
    BY <2>1, <2>2
<1>4. deployment[host.id] = "rolling_back"
  BY <1>1 DEF HostHolds, RowAt
<1>5. UNCHANGED <<origin, publish, owned, report>>
  BY DEF Host!Revert
<1>6. CASE local' = Append(shipped, -host.id) /\ Host!Goes("push") /\ UNCHANGED deployment
  <2> HIDE DEF shipped
  <2>1. local' \in Seq(Int) /\ Paired(local', deployment)
    BY <1>2, <1>3, <1>4, <1>6, AppendFacts, PairedRevert DEF Reverted
  <2> DEFINE h == [host EXCEPT !.at = "push"]
  <2>2. h \in HostType /\ h.at = "push" /\ h.id = host.id /\ h.todo = host.todo
    BY HostEdits DEF HostHolds
  <2>3. host' = h
    BY <1>6 DEF Host!Goes
  <2> HIDE DEF h
  <2>4. RowAt(h, deployment)
    BY <1>1, <1>4, <2>2 DEF RowAt
  <2> QED
    BY <1>5, <1>6, <2>1, <2>2, <2>3, <2>4
       DEF HostHolds, HostTypes, ToDoIsNew, RecordedIsPublished, WorkedIsOnMain, OnMain, Host!ReportHolds
<1>7. CASE local' = shipped /\ Host!Ends("failed")
  <2> HIDE DEF shipped
  <2> DEFINE h == [host EXCEPT !.at = "next", !.id = 0]
  <2>1. h \in HostType /\ h.at = "next" /\ h.id = 0 /\ h.todo = host.todo
    BY HostEdits DEF HostHolds
  <2>2. host' = h /\ deployment' = [deployment EXCEPT ![host.id] = "failed"]
    BY <1>7 DEF Host!Ends, Host!Step
  <2> HIDE DEF h
  <2>3. deployment'[host.id] = "failed" /\ \A q \in Builds \ {host.id} : deployment'[q] = deployment[q]
    BY <1>3, <2>2 DEF HostHolds, HostTypes
  <2>4. \A q \in Builds : deployment[q] \in Reverted => deployment'[q] \in Reverted
    BY <2>3 DEF Reverted
  <2>5. Paired(local', deployment') /\ Paired(origin', deployment')
    BY <1>2, <1>5, <1>7, <2>4, PairedKept DEF HostHolds
  <2>6. HostTypes'
    BY <1>2, <1>3, <1>5, <1>7, <2>1, <2>2 DEF HostHolds, HostTypes, Host!Steps, Host!Terminal
  <2>7. RowAt(host', deployment')
    BY <2>1, <2>2 DEF RowAt
  <2>8. ToDoIsNew' /\ RecordedIsPublished'
    <3>1. host.id \notin host.todo /\ host.todo \subseteq Builds
      BY <1>1, RowInHand DEF HostHolds, HostTypes, HostType
    <3> QED
      BY <1>4, <1>5, <2>1, <2>2, <2>3, <3>1 DEF HostHolds, ToDoIsNew, RecordedIsPublished
  <2>9. WorkedIsOnMain'
    BY <1>5, <2>1, <2>2, <2>3 DEF HostHolds, WorkedIsOnMain, OnMain
  <2>10. Host!ReportHolds'
    BY <1>4, <1>5, <2>3 DEF HostHolds, Host!ReportHolds, Host!Terminal
  <2> QED
    BY <2>5, <2>6, <2>7, <2>8, <2>9, <2>10 DEF HostHolds
<1> QED
  BY <1>6, <1>7 DEF Host!Revert

LEMMA PushKeeps == ASSUME Numbered, HostHolds, Host!Push PROVE HostHolds'
<1>1. host.at = "push" /\ host.id # 0 /\ deployment[host.id] = "rolling_back"
  BY AtWork DEF Host!Push, Host!At, HostHolds, RowAt
<1>2. CASE Host!IsPrefix(origin, local) /\ origin' = local /\ Host!Goes("rebuild") /\ UNCHANGED deployment
  <2> DEFINE h == [host EXCEPT !.at = "rebuild"]
  <2>1. h \in HostType /\ h.at = "rebuild" /\ h.id = host.id /\ h.todo = host.todo
    BY HostEdits DEF HostHolds
  <2>2. host' = h /\ UNCHANGED <<local, publish, owned, deployment, report>>
    BY <1>2 DEF Host!Goes, Host!Push
  <2> HIDE DEF h
  <2>3. RowAt(h, deployment)
    BY <1>1, <2>1 DEF RowAt
  <2>4. \A r : OnMain(r) => OnMain(r)'
    <3>1. origin \in Seq(Int) /\ local \in Seq(Int)
      BY DEF HostHolds, HostTypes
    <3> QED
      BY <1>2, <3>1, PrefixKeepsMembers DEF OnMain
  <2>5. WorkedIsOnMain'
    BY <2>1, <2>2, <2>4 DEF HostHolds, WorkedIsOnMain
  <2> QED
    BY <1>2, <2>1, <2>2, <2>3, <2>5 DEF HostHolds, HostTypes, ToDoIsNew, RecordedIsPublished, Host!ReportHolds
<1>3. CASE Host!Ends("failed") /\ UNCHANGED origin
  BY <1>1, <1>3, EndsKeeps DEF Host!Push, Host!Terminal, Reverted
<1> QED
  BY <1>2, <1>3 DEF Host!Push

(***************************************************************************)
(* The supervisor between two rows                                         *)
(***************************************************************************)
\* It has no row at hand and none has become one.
LEMMA LetsGo ==
  ASSUME HostHolds, NEW h \in HostType, host' = h, h.id = 0, h.at \in {"boot", "mirror", "poll", "next"},
         h.todo \subseteq host.todo, UNCHANGED <<origin, publish, owned, deployment, report>>,
         local' \in Seq(Int), Paired(local', deployment)
  PROVE  HostHolds'
<1>1. RowAt(h, deployment)
  BY DEF RowAt
<1>2. HostTypes' /\ ToDoIsNew' /\ RecordedIsPublished' /\ Host!ReportHolds'
  BY DEF HostHolds, HostTypes, ToDoIsNew, RecordedIsPublished, Host!ReportHolds
<1>3. WorkedIsOnMain'
  BY DEF HostHolds, WorkedIsOnMain, OnMain
<1> QED
  BY <1>1, <1>2, <1>3 DEF HostHolds

LEMMA BetweenKeeps == ASSUME HostHolds, Host!Mirror \/ Host!Rest \/ Host!Raise \/ Host!Kill PROVE HostHolds'
<1>1. CASE Host!Mirror \/ Host!Rest
  <2>1. host.id = 0
    BY <1>1 DEF Host!Mirror, Host!Rest, Host!At, HostHolds, RowAt
  <2>2. PICK at \in {"mirror", "poll"} : Host!Goes(at)
    BY <1>1 DEF Host!Mirror, Host!Rest
  <2> DEFINE h == [host EXCEPT !.at = at]
  <2>3. h \in HostType /\ h.at = at /\ h.id = host.id /\ h.todo = host.todo
    BY HostEdits DEF HostHolds
  <2>4. host' = h
    BY <2>2 DEF Host!Goes
  <2> HIDE DEF h
  <2>5. local' \in {local, origin} /\ UNCHANGED <<origin, publish, owned, deployment, report>>
    BY <1>1 DEF Host!Mirror, Host!Rest
  <2>6. local' \in Seq(Int) /\ Paired(local', deployment)
    BY <2>5 DEF HostHolds, HostTypes
  <2> QED
    BY <2>1, <2>3, <2>4, <2>5, <2>6, LetsGo
<1>2. CASE Host!Raise \/ Host!Kill
  <2>1. PICK at \in {"mirror", "boot"} : host' = [at |-> at, id |-> 0, todo |-> {}]
    BY <1>2 DEF Host!Raise, Host!Kill
  <2> DEFINE h == [at |-> at, id |-> 0, todo |-> {}]
  <2>2. h \in HostType /\ h.at = at /\ h.id = 0 /\ h.todo = {}
    BY DEF HostType
  <2>3. UNCHANGED <<origin, local, publish, owned, deployment, report>>
    BY <1>2 DEF Host!Raise, Host!Kill
  <2>4. local' \in Seq(Int) /\ Paired(local', deployment)
    BY <2>3 DEF HostHolds, HostTypes
  <2> HIDE DEF h
  <2> QED
    BY <2>1, <2>2, <2>3, <2>4, LetsGo DEF h
<1> QED
  BY <1>1, <1>2

LEMMA BootKeeps == ASSUME HostHolds, Host!Boot PROVE HostHolds'
<1> DEFINE h == [host EXCEPT !.at = "mirror"]
           dep == [r \in Builds |-> IF deployment[r] \in Host!InFlight THEN "failed" ELSE deployment[r]]
<1>1. h \in HostType /\ h.at = "mirror" /\ h.id = host.id /\ h.todo = host.todo
  BY HostEdits DEF HostHolds
<1>2. host' = h /\ deployment' = dep /\ UNCHANGED <<origin, local, publish, owned, report>>
  BY DEF Host!Boot, Host!Goes
<1>3. host.id = 0
  BY DEF Host!Boot, Host!At, HostHolds, RowAt
<1>4. \A r \in Builds :
        /\ deployment'[r] \in {deployment[r], "failed"}
        /\ deployment'[r] # deployment[r] => deployment[r] \in Host!InFlight
  BY <1>2
<1>5. deployment' \in [Builds -> Host!Steps]
  BY <1>2 DEF HostHolds, HostTypes, Host!Steps, Host!Terminal
<1> HIDE DEF h, dep
<1>6. RowAt(h, deployment')
  BY <1>1, <1>3 DEF RowAt
<1>7. HostTypes'
  BY <1>1, <1>2, <1>5 DEF HostHolds, HostTypes
<1>8. host.todo \subseteq Builds
  BY DEF HostHolds, HostTypes, HostType
<1>9. ToDoIsNew' /\ RecordedIsPublished'
  BY <1>1, <1>2, <1>4, <1>8 DEF HostHolds, ToDoIsNew, RecordedIsPublished, Host!InFlight
<1>10. WorkedIsOnMain'
  BY <1>1, <1>2, <1>4 DEF HostHolds, WorkedIsOnMain, OnMain
<1>11. Host!ReportHolds'
  BY <1>2, <1>4 DEF HostHolds, Host!ReportHolds, Host!InFlight, Host!Terminal
<1>12. Paired(origin, deployment)' /\ Paired(local, deployment)'
  <2>1. \A q \in Builds : deployment[q] \in Reverted => deployment'[q] \in Reverted
    BY <1>4 DEF Reverted
  <2> QED
    BY <1>2, <2>1, PairedKept DEF HostHolds
<1> QED
  BY <1>2, <1>6, <1>7, <1>9, <1>10, <1>11, <1>12 DEF HostHolds

LEMMA PollKeeps == ASSUME HostHolds, Host!Poll PROVE HostHolds'
<1> DEFINE found == {r \in Builds : deployment[r] = "code_committed"}
           h == [at |-> "next", id |-> 0, todo |-> found \ owned]
<1>1. h \in HostType /\ h.at = "next" /\ h.id = 0 /\ h.todo = found \ owned
  BY DEF HostType
<1>2. host' = h /\ UNCHANGED <<origin, local, publish, owned, report>>
      /\ deployment' = [r \in Builds |-> IF r \in found \cap owned THEN "skipped" ELSE deployment[r]]
  BY DEF Host!Poll
<1>3. \A r \in Builds : IF r \in found \cap owned THEN deployment'[r] = "skipped"
                                                  ELSE deployment'[r] = deployment[r]
  BY <1>2
<1>4. deployment' \in [Builds -> Host!Steps]
  BY <1>2 DEF HostHolds, HostTypes, Host!Steps
<1> HIDE DEF h
<1>5. RowAt(h, deployment')
  BY <1>1 DEF RowAt
<1>6. HostTypes'
  BY <1>1, <1>2, <1>4 DEF HostHolds, HostTypes
<1>7. ToDoIsNew' /\ RecordedIsPublished'
  BY <1>1, <1>2, <1>3 DEF HostHolds, ToDoIsNew, RecordedIsPublished
<1>8. WorkedIsOnMain'
  BY <1>1, <1>2, <1>3 DEF HostHolds, WorkedIsOnMain, OnMain
<1>9. Host!ReportHolds'
  BY <1>2, <1>3 DEF HostHolds, Host!ReportHolds, Host!Terminal
<1>10. Paired(origin, deployment)' /\ Paired(local, deployment)'
  <2>1. \A q \in Builds : deployment[q] \in Reverted => deployment'[q] \in Reverted
    BY <1>3 DEF Reverted
  <2> QED
    BY <1>2, <2>1, PairedKept DEF HostHolds
<1> QED
  BY <1>2, <1>5, <1>6, <1>7, <1>8, <1>9, <1>10 DEF HostHolds

LEMMA BeginKeeps == ASSUME Numbered, HostHolds, Host!Begin PROVE HostHolds'
<1>1. PICK r \in host.todo :
        /\ deployment' = [deployment EXCEPT ![r] = "syncing"]
        /\ host' = [at |-> "sync", id |-> r, todo |-> host.todo \ {r}]
  BY DEF Host!Begin
<1> DEFINE h == [at |-> "sync", id |-> r, todo |-> host.todo \ {r}]
<1>2. r \in Builds /\ host.todo \subseteq Builds
  BY DEF HostHolds, HostTypes, HostType
<1>3. r # 0
  BY <1>2 DEF Numbered
<1>4. h \in HostType /\ h.at = "sync" /\ h.id = r /\ h.todo = host.todo \ {r}
  BY <1>2 DEF HostType
<1>5. UNCHANGED <<origin, local, publish, owned, report>> /\ deployment[r] = "code_committed"
  BY DEF Host!Begin, HostHolds, ToDoIsNew
<1>6. deployment'[r] = "syncing" /\ \A q \in Builds \ {r} : deployment'[q] = deployment[q]
  BY <1>1, <1>2 DEF HostHolds, HostTypes
<1> HIDE DEF h
<1>7. RowAt(h, deployment')
  BY <1>3, <1>4, <1>6 DEF RowAt
<1>8. HostTypes'
  BY <1>1, <1>4, <1>5 DEF HostHolds, HostTypes, Host!Steps, Host!InFlight, h
<1>9. ToDoIsNew' /\ RecordedIsPublished'
  BY <1>1, <1>2, <1>5, <1>6 DEF HostHolds, ToDoIsNew, RecordedIsPublished
<1>10. WorkedIsOnMain'
  BY <1>1, <1>2, <1>5, <1>6 DEF HostHolds, WorkedIsOnMain, OnMain
<1>11. Host!ReportHolds'
  BY <1>5, <1>6 DEF HostHolds, Host!ReportHolds, Host!Terminal
<1>12. Paired(origin, deployment)' /\ Paired(local, deployment)'
  <2>1. \A q \in Builds : deployment[q] \in Reverted => deployment'[q] \in Reverted
    BY <1>5, <1>6 DEF Reverted
  <2> QED
    BY <1>5, <2>1, PairedKept DEF HostHolds
<1> QED
  BY <1>1, <1>7, <1>8, <1>9, <1>10, <1>11, <1>12 DEF HostHolds, h

(***************************************************************************)
(* Publishing and waiting                                                  *)
(***************************************************************************)
LEMMA PublishKeeps ==
  ASSUME Numbered, HostHolds, NEW r \in Builds, Host!ReadRef(r) \/ Host!PatchRef(r)
  PROVE  HostHolds' /\ Host!IsPrefix(origin, origin')
<1>0. publish[r].at \in {"ready", "based"} /\ UNCHANGED <<local, owned, deployment, host, report>>
  BY DEF Host!ReadRef, Host!PatchRef
<1>1. origin \in Seq(Int) /\ r \in Int /\ Len(origin) \in Nat
  BY DEF HostHolds, HostTypes, Numbered
<1>2. PICK p \in [at: {"ready", "based", "pushed", "done"}, base: Nat] :
        /\ publish' = [publish EXCEPT ![r] = p]
        /\ \/ UNCHANGED origin /\ (p.at # "pushed" \/ r \in owned)
           \/ origin' = Append(origin, r)
  <2>1. publish[r] \in [at: {"ready", "based", "pushed", "done"}, base: Nat]
    BY DEF HostHolds, HostTypes
  <2>2. CASE Host!ReadRef(r)
    <3> DEFINE p == [at |-> "based", base |-> Len(origin)]
    <3>1. p \in [at: {"ready", "based", "pushed", "done"}, base: Nat] /\ p.at # "pushed"
      BY <1>1
    <3> QED
      BY <2>2, <3>1 DEF Host!ReadRef
  <2>3. CASE Host!PatchRef(r)
    <3>1. ASSUME NEW at \in {"pushed", "done"}
          PROVE  /\ [publish[r] EXCEPT !.at = at] \in [at: {"ready", "based", "pushed", "done"}, base: Nat]
                 /\ [publish[r] EXCEPT !.at = at].at = at
      BY <2>1
    <3>2. \/ publish' = [publish EXCEPT ![r] = [publish[r] EXCEPT !.at = "pushed"]]
             /\ ((r \in owned /\ UNCHANGED origin) \/ origin' = Append(origin, r))
          \/ publish' = [publish EXCEPT ![r] = [publish[r] EXCEPT !.at = "done"]] /\ UNCHANGED origin
      BY <2>3 DEF Host!PatchRef
    <3> QED
      BY <3>1, <3>2
  <2> QED
    BY <2>2, <2>3
<1>3. publish'[r] = p /\ \A q \in Builds \ {r} : publish'[q] = publish[q]
  BY <1>2 DEF HostHolds, HostTypes
<1>4. deployment[r] = "none" /\ report[r] = "none"
  BY <1>0 DEF HostHolds, RecordedIsPublished
<1>5. Host!IsPrefix(origin, origin') /\ origin' \in Seq(Int)
  <2>1. CASE UNCHANGED origin
    BY <1>1, <2>1 DEF Host!IsPrefix
  <2>2. CASE origin' = Append(origin, r)
    BY <1>1, <2>2, AppendIsLonger, AppendFacts
  <2> QED
    BY <1>2, <2>1, <2>2
<1>6. Paired(origin', deployment)
  BY <1>1, <1>2, PairedCommit DEF HostHolds
<1>7. \A q : OnMain(q) => OnMain(q)'
  BY <1>1, <1>5, PrefixKeepsMembers DEF OnMain
<1>8. p.at = "pushed" /\ r \notin owned => OnMain(r)'
  BY <1>1, <1>2, AppendFacts DEF OnMain
<1>9. HostTypes'
  BY <1>0, <1>2, <1>5 DEF HostHolds, HostTypes
<1>10. WorkedIsOnMain'
  BY <1>0, <1>3, <1>4, <1>7, <1>8 DEF HostHolds, WorkedIsOnMain
<1>11. RecordedIsPublished'
  BY <1>0, <1>3, <1>4 DEF HostHolds, RecordedIsPublished
<1> QED
  BY <1>0, <1>5, <1>6, <1>9, <1>10, <1>11 DEF HostHolds, ToDoIsNew, Host!ReportHolds

LEMMA RecordKeeps == ASSUME Numbered, HostHolds, NEW r \in Builds, Host!Record(r) PROVE HostHolds'
<1>1. PICK s \in {"code_committed", "failed", "none"} : deployment' = [deployment EXCEPT ![r] = s]
  BY DEF Host!Record
<1>2. publish[r].at = "pushed" /\ publish' = [publish EXCEPT ![r].at = "done"]
      /\ UNCHANGED <<origin, local, owned, host, report>>
  BY DEF Host!Record
<1>3. deployment[r] = "none" /\ report[r] = "none"
  BY <1>2 DEF HostHolds, RecordedIsPublished
<1>4. deployment'[r] = s /\ \A q \in Builds \ {r} : deployment'[q] = deployment[q]
  BY <1>1 DEF HostHolds, HostTypes
<1>5. publish'[r].at = "done" /\ \A q \in Builds \ {r} : publish'[q] = publish[q]
  BY <1>2 DEF HostHolds, HostTypes
<1>6. host.todo \subseteq Builds /\ r \notin host.todo /\ host.id \in Builds \cup {0}
  BY <1>3 DEF HostHolds, HostTypes, HostType, ToDoIsNew
<1>7. HostTypes'
  <2>1. publish' \in [Builds -> [at: {"ready", "based", "pushed", "done"}, base: Nat]]
    BY <1>2 DEF HostHolds, HostTypes
  <2>2. deployment' \in [Builds -> Host!Steps]
    BY <1>1 DEF HostHolds, HostTypes, Host!Steps, Host!Terminal
  <2> QED
    BY <1>2, <2>1, <2>2 DEF HostHolds, HostTypes
<1>8. RowAt(host, deployment')
  <2>1. host.id # r
    <3>1. host.id # 0 => deployment[host.id] \in Host!InFlight \cup {"failed"}
      BY RowInHand
    <3>2. r # 0
      BY DEF Numbered
    <3> QED
      BY <1>3, <3>1, <3>2 DEF Host!InFlight
  <2> QED
    BY <1>4, <1>6, <2>1 DEF HostHolds, RowAt
<1>9. ToDoIsNew' /\ RecordedIsPublished'
  BY <1>2, <1>4, <1>5, <1>6 DEF HostHolds, ToDoIsNew, RecordedIsPublished
<1>10. WorkedIsOnMain'
  BY <1>2, <1>4, <1>5 DEF HostHolds, WorkedIsOnMain, OnMain
<1>11. Host!ReportHolds'
  BY <1>2, <1>3, <1>4 DEF HostHolds, Host!ReportHolds, Host!Terminal
<1>12. Paired(origin, deployment)' /\ Paired(local, deployment)'
  <2>1. \A q \in Builds : deployment[q] \in Reverted => deployment'[q] \in Reverted
    BY <1>3, <1>4 DEF Reverted
  <2> QED
    BY <1>2, <2>1, PairedKept DEF HostHolds
<1> QED
  BY <1>2, <1>7, <1>8, <1>9, <1>10, <1>11, <1>12 DEF HostHolds

LEMMA WaitKeeps == ASSUME HostHolds, NEW r \in Builds, Host!Wait(r) PROVE HostHolds'
<1>1. /\ publish[r].at = "done" /\ UNCHANGED <<origin, local, publish, owned, deployment, host>>
      /\ report' = [report EXCEPT ![r] = IF deployment[r] \in Host!Terminal THEN deployment[r] ELSE "timeout"]
  BY DEF Host!Wait
<1>2. /\ report'[r] = (IF deployment[r] \in Host!Terminal THEN deployment[r] ELSE "timeout")
      /\ \A q \in Builds \ {r} : report'[q] = report[q]
  BY <1>1 DEF HostHolds, HostTypes
<1>3. HostTypes'
  BY <1>1 DEF HostHolds, HostTypes
<1>4. RecordedIsPublished'
  BY <1>1, <1>2 DEF HostHolds, RecordedIsPublished
<1>5. Host!ReportHolds'
  BY <1>1, <1>2 DEF HostHolds, Host!ReportHolds, Host!Terminal
<1> QED
  BY <1>1, <1>3, <1>4, <1>5 DEF HostHolds, ToDoIsNew, WorkedIsOnMain, OnMain

LEMMA HostInit == ASSUME Numbered, Host!Init PROVE HostHolds
<1>1. HostTypes
  BY DEF Host!Init, HostTypes, HostType, Host!Steps, Host!Terminal
<1> QED
  BY <1>1 DEF Host!Init, HostHolds, RowAt, ToDoIsNew, RecordedIsPublished, WorkedIsOnMain, OnMain, Host!ReportHolds,
              Paired, Host!Terminal

LEMMA HostNext == ASSUME Numbered, HostHolds, [Host!Next]_Host!platformVars PROVE HostHolds'
<1>1. CASE UNCHANGED Host!platformVars
  BY <1>1 DEF Host!platformVars, HostHolds, HostTypes, ToDoIsNew, RecordedIsPublished, WorkedIsOnMain, OnMain, Host!ReportHolds
<1>2. CASE Host!Supervises
  BY <1>2, BootKeeps, BetweenKeeps, PollKeeps, BeginKeeps, ForwardKeeps, RevertKeeps, PushKeeps DEF Host!Supervises
<1>3. CASE Host!Raise \/ Host!Kill
  BY <1>3, BetweenKeeps
<1>4. ASSUME NEW r \in Builds, Host!ReadRef(r) \/ Host!PatchRef(r) \/ Host!Record(r) \/ Host!Wait(r) PROVE HostHolds'
  BY <1>4, PublishKeeps, RecordKeeps, WaitKeeps
<1> QED
  BY <1>1, <1>2, <1>3, <1>4 DEF Host!Next

\* The rest of the types: who owns what, what was let go, how often it failed.
Faults == [kills: 0..MaxKills, errors: 0..MaxErrors, losses: 0..MaxLosses]
HostCounts == owned \subseteq Builds /\ released \subseteq Builds /\ faults \in Faults
HostInv == HostHolds /\ HostCounts

LEMMA CountsMove ==
  ASSUME MaxKills \in Nat, MaxErrors \in Nat, MaxLosses \in Nat, faults \in Faults
  PROVE  /\ faults.kills < MaxKills => [faults EXCEPT !.kills = @ + 1] \in Faults
         /\ faults.errors < MaxErrors => [faults EXCEPT !.errors = @ + 1] \in Faults
         /\ faults.losses < MaxLosses => [faults EXCEPT !.losses = @ + 1] \in Faults
<1>1. /\ faults.kills < MaxKills => faults.kills + 1 \in 0..MaxKills
      /\ faults.errors < MaxErrors => faults.errors + 1 \in 0..MaxErrors
      /\ faults.losses < MaxLosses => faults.losses + 1 \in 0..MaxLosses
  BY DEF Faults
<1> QED
  BY <1>1 DEF Faults

LEMMA CountsNext == ASSUME HostHolds, HostCounts, [Host!Next]_Host!platformVars PROVE HostCounts'
<1>1. faults' \in Faults
  <2>1. UNCHANGED faults \/ (faults.kills < MaxKills /\ faults' = [faults EXCEPT !.kills = @ + 1])
        \/ (faults.errors < MaxErrors /\ faults' = [faults EXCEPT !.errors = @ + 1])
        \/ (faults.losses < MaxLosses /\ faults' = [faults EXCEPT !.losses = @ + 1])
    <3>1. ASSUME NEW r \in Builds, Host!ReadRef(r) \/ Host!PatchRef(r) \/ Host!Wait(r) PROVE UNCHANGED faults
      BY <3>1 DEF Host!ReadRef, Host!PatchRef, Host!Wait
    <3>2. ASSUME NEW r \in Builds, Host!Record(r) PROVE UNCHANGED faults \/ Host!Loses
      BY <3>2 DEF Host!Record
    <3>3. Host!Mirror => UNCHANGED faults \/ Host!Loses
      BY DEF Host!Mirror
    <3>4. Host!Supervises => UNCHANGED faults \/ Host!Loses
      BY <3>3 DEF Host!Supervises, Host!Boot, Host!Poll, Host!Rest, Host!Begin, Host!Sync, Host!Judge, Host!Build,
                  Host!Staging, Host!Dev, Host!Rollback, Host!Revert, Host!Push, Host!Rebuild
    <3> QED
      BY <3>1, <3>2, <3>4 DEF Host!Next, Host!platformVars, Host!Loses, Host!Raise, Host!Kill
  <2> QED
    BY <2>1, CountsMove, PlatformBounds DEF HostCounts
<1>2. UNCHANGED owned
  <2>1. ASSUME NEW r \in Builds, Host!ReadRef(r) \/ Host!PatchRef(r) \/ Host!Wait(r) \/ Host!Record(r) PROVE UNCHANGED owned
    BY <2>1 DEF Host!ReadRef, Host!PatchRef, Host!Wait, Host!Record
  <2>2. Host!Supervises \/ Host!Raise \/ Host!Kill => UNCHANGED owned
    BY DEF Host!Supervises, Host!Boot, Host!Mirror, Host!Poll, Host!Rest, Host!Begin, Host!Sync, Host!Judge, Host!Build,
           Host!Staging, Host!Dev, Host!Rollback, Host!Revert, Host!Push, Host!Rebuild, Host!Raise, Host!Kill
  <2> QED
    BY <2>1, <2>2 DEF Host!Next, Host!platformVars
<1>3. released' \subseteq Builds
  <2>1. ASSUME NEW r \in Builds, Host!ReadRef(r) \/ Host!PatchRef(r) \/ Host!Wait(r) \/ Host!Record(r) PROVE UNCHANGED released
    BY <2>1 DEF Host!ReadRef, Host!PatchRef, Host!Wait, Host!Record
  <2>2. Host!Supervises \/ Host!Kill => UNCHANGED released
    BY DEF Host!Supervises, Host!Boot, Host!Mirror, Host!Poll, Host!Rest, Host!Begin, Host!Sync, Host!Judge, Host!Build,
           Host!Staging, Host!Dev, Host!Rollback, Host!Revert, Host!Push, Host!Rebuild, Host!Kill
  <2>3. Host!Raise => released' = released \cup {host.id} /\ host.id \in Builds
    BY DEF Host!Raise, HostHolds, HostTypes, HostType
  <2> QED
    BY <2>1, <2>2, <2>3 DEF Host!Next, Host!platformVars, HostCounts
<1> QED
  BY <1>1, <1>2, <1>3 DEF HostCounts

LEMMA HostInvInit == ASSUME Host!Init PROVE HostInv
<1>0. Numbered
  BY BuildsAssumption DEF Numbered
<1>1. 0 \in 0..MaxKills /\ 0 \in 0..MaxErrors /\ 0 \in 0..MaxLosses
  BY PlatformBounds
<1>2. HostCounts
  BY <1>1 DEF Host!Init, HostCounts, Faults
<1> QED
  BY <1>0, <1>2, HostInit DEF HostInv

LEMMA HostInvNext == ASSUME HostInv, [Host!Next]_Host!platformVars PROVE HostInv'
BY HostNext, CountsNext, BuildsAssumption DEF HostInv, Numbered

LEMMA HostFacts == ASSUME HostInv PROVE Host!TypeOK /\ Host!ReportHolds /\ Host!RevertsItsOwn
<1>1. Host!TypeOK
  BY DEF HostInv, HostHolds, HostCounts, HostTypes, HostType, Faults, Host!TypeOK
<1>2. Host!RevertsItsOwn
  BY DEF HostInv, HostHolds, Paired, Reverted, Host!RevertsItsOwn
<1> QED
  BY <1>1, <1>2 DEF HostInv, HostHolds

\* No step rewrites main on GitHub.
LEMMA HistoryStep == ASSUME HostHolds, [Host!Next]_Host!platformVars PROVE Host!IsPrefix(origin, origin')
<1>1. CASE UNCHANGED origin
  <2>1. origin \in Seq(Int)
    BY DEF HostHolds, HostTypes
  <2> QED
    BY <1>1, <2>1 DEF Host!IsPrefix
<1>2. CASE Host!Push
  <2>1. UNCHANGED origin \/ (Host!IsPrefix(origin, local) /\ origin' = local)
    BY <1>2 DEF Host!Push
  <2> QED
    BY <1>1, <2>1
<1>3. ASSUME NEW r \in Builds, Host!PatchRef(r) PROVE Host!IsPrefix(origin, origin')
  BY <1>3, PublishKeeps, BuildsAssumption DEF Numbered
<1> QED
  BY <1>1, <1>2, <1>3
     DEF Host!Next, Host!platformVars, Host!Supervises, Host!Boot, Host!Mirror, Host!Poll, Host!Rest, Host!Begin, Host!Sync, Host!Judge, Host!Build, Host!Staging, Host!Dev,
         Host!Rollback, Host!Revert, Host!Rebuild, Host!Raise, Host!Kill, Host!ReadRef, Host!Record, Host!Wait

(***************************************************************************)
(* A project's deployment                                                  *)
(***************************************************************************)
\* A judgement, a call of the routes, and what it may go on to write.
Judgement == [status: {"none", "pending", "applied", "overridden", "superseded"},
              action: Project!Actions, to: 0..MaxCommits]
RouteCall == [at: {"idle", "supersede", "ask", "apply", "override", "write"},
              id: Project!Decisions \cup {Null}, to: 0..MaxCommits,
              choice: Project!Actions \cup {"deploy", "stop", "refused", Null}]
Choosing(a) ==
  /\ a.at = "apply" => a.choice \in Project!Docker \cup {"skip"}
  /\ a.at = "override" => a.choice \in Project!Actions \cup {"refused"}
  /\ a.at = "write" => a.choice \in Project!Docker \cup {"skip", "deploy", "stop"}

ProjectInv == Project!TypeOK /\ \A u \in Users : Choosing(judge[u])

\* The row the supervisor and the routes meet in, and what the supervisor is at.
DeployRow == [status: Project!DeployStatus, action: Project!Docker \cup {Null}, since: 0..MaxCommits]
Supervising == [at: {"poll", "deploy", "up", "stop", "down"}, action: Project!Docker \cup {Null}]

LEMMA ProjectParts ==
  ProjectInv <=>
    /\ deploy \in DeployRow
    /\ commits \in 0..MaxCommits /\ decision \in [Project!Decisions -> Judgement]
    /\ judge \in [Users -> RouteCall] /\ \A u \in Users : Choosing(judge[u])
    /\ compose \in BOOLEAN /\ kills \in 0..MaxKills /\ asked \in 0..MaxCalls
    /\ supervisor \in Supervising
BY DEF ProjectInv, Project!TypeOK, DeployRow, Supervising, Judgement, RouteCall

\* A step that changes one call, and one that changes none.
LEMMA JudgeMoves ==
  ASSUME ProjectInv, NEW u \in Users, NEW a \in RouteCall, Choosing(a), judge' = [judge EXCEPT ![u] = a],
         decision' \in [Project!Decisions -> Judgement], asked' \in 0..MaxCalls,
         deploy' \in DeployRow,
         UNCHANGED <<commits, compose, kills, supervisor>>
  PROVE  ProjectInv'
<1>1. judge \in [Users -> RouteCall] /\ \A v \in Users : Choosing(judge[v])
  BY ProjectParts
<1>2. judge' \in [Users -> RouteCall] /\ \A v \in Users : Choosing(judge'[v])
  BY <1>1
<1>3. /\ commits' \in 0..MaxCommits /\ compose' \in BOOLEAN /\ kills' \in 0..MaxKills
      /\ supervisor' \in Supervising
  BY ProjectParts
<1> HIDE DEF ProjectInv
<1> QED
  BY <1>2, <1>3 DEF ProjectInv, Project!TypeOK, DeployRow, Supervising, Judgement, RouteCall, Choosing

LEMMA NoCallIs ==
  /\ Project!NoCall \in RouteCall /\ Choosing(Project!NoCall)
  /\ Project!NoDecision \in Judgement
BY PlatformBounds DEF Project!NoCall, Project!NoDecision, RouteCall, Judgement, Choosing, Project!Actions

LEMMA WritingCall ==
  ASSUME NEW at, NEW c
  PROVE  [Project!NoCall EXCEPT !.at = at, !.choice = c] = [at |-> at, id |-> Null, to |-> 0, choice |-> c]
<1> PICK w, n, z, m : w = "idle" /\ n = Null /\ z = 0 /\ m = Null
  OBVIOUS
<1>1. PICK r : r = [at |-> w, id |-> n, to |-> z, choice |-> m]
  OBVIOUS
<1>2. Project!NoCall = r
  BY <1>1 DEF Project!NoCall
<1>3. PICK h : h = [r EXCEPT !.at = at]
  OBVIOUS
<1>4. h = [at |-> at, id |-> n, to |-> z, choice |-> m]
  BY <1>1, <1>3
<1>5. [h EXCEPT !.choice = c] = [at |-> at, id |-> n, to |-> z, choice |-> c]
  BY <1>4
<1>6. [r EXCEPT !.at = at, !.choice = c] = [h EXCEPT !.choice = c]
  BY <1>3
<1> QED
  BY <1>2, <1>5, <1>6

LEMMA ProjectInit == ASSUME Project!Init PROVE ProjectInv
<1>1. 0 \in 0..MaxCommits /\ 0 \in 0..MaxKills /\ 0 \in 0..MaxCalls
  BY PlatformBounds
<1> QED
  BY <1>1, NoCallIs, ProjectParts DEF Project!Init, DeployRow, Supervising, Project!DeployStatus, Project!Active

LEMMA AskedCounts == ASSUME ProjectInv, NEW u, Project!Starts(u) PROVE asked' \in 0..MaxCalls
BY PlatformBounds, ProjectParts DEF Project!Starts

\* The judge's calls.
LEMMA GetJudgeKeeps == ASSUME ProjectInv, NEW u \in Users, Project!GetJudge(u) PROVE ProjectInv'
<1> DEFINE a == [Project!NoCall EXCEPT !.at = "supersede", !.to = commits]
<1>1. a \in RouteCall /\ Choosing(a)
  BY NoCallIs, ProjectParts DEF Project!NoCall, RouteCall, Choosing
<1>2. judge' = [judge EXCEPT ![u] = a] /\ UNCHANGED <<deploy, commits, decision, compose, supervisor, kills>>
  BY DEF Project!GetJudge
<1>3. asked' \in 0..MaxCalls
  BY AskedCounts DEF Project!GetJudge
<1> QED
  BY <1>1, <1>2, <1>3, JudgeMoves, ProjectParts

LEMMA SupersedeKeeps == ASSUME ProjectInv, NEW u \in Users, Project!Supersede(u) PROVE ProjectInv'
<1> DEFINE a == [judge[u] EXCEPT !.at = "ask"]
<1>1. a \in RouteCall /\ Choosing(a)
  BY ProjectParts DEF RouteCall, Choosing
<1>2. judge' = [judge EXCEPT ![u] = a] /\ UNCHANGED <<deploy, commits, compose, supervisor, kills, asked>>
  BY DEF Project!Supersede
<1>3. decision' \in [Project!Decisions -> Judgement]
  BY ProjectParts DEF Project!Supersede, Judgement
<1> QED
  BY <1>1, <1>2, <1>3, JudgeMoves, ProjectParts

LEMMA DecideKeeps == ASSUME ProjectInv, NEW u \in Users, Project!Decide(u) PROVE ProjectInv'
<1>1. judge' = [judge EXCEPT ![u] = Project!NoCall] /\ UNCHANGED <<deploy, commits, compose, supervisor, kills, asked>>
  BY DEF Project!Decide, Project!Returns
<1>2. judge[u].to \in 0..MaxCommits /\ decision \in [Project!Decisions -> Judgement]
  BY ProjectParts DEF RouteCall
<1>3. PICK d \in Project!Decisions, act \in Project!JudgeMay(judge[u].to) :
        decision' = [decision EXCEPT ![d] = [status |-> "pending", action |-> act, to |-> judge[u].to]]
  BY DEF Project!Decide
<1>4. act \in Project!Actions
  BY <1>3 DEF Project!JudgeMay, Project!Actions, Project!Docker
<1>5. decision' \in [Project!Decisions -> Judgement]
  BY <1>2, <1>3, <1>4 DEF Judgement
<1> QED
  BY <1>1, <1>5, NoCallIs, JudgeMoves, ProjectParts

LEMMA ApplyKeeps == ASSUME ProjectInv, NEW u \in Users, Project!Apply(u) PROVE ProjectInv'
<1>1. PICK d \in Project!Decisions :
        /\ decision[d].action # "hold"
        /\ judge' = [judge EXCEPT ![u] = [at |-> "apply", id |-> d, to |-> 0, choice |-> decision[d].action]]
  BY DEF Project!Apply
<1> DEFINE a == [at |-> "apply", id |-> d, to |-> 0, choice |-> decision[d].action]
<1>2. decision[d].action \in Project!Actions
  BY ProjectParts DEF Judgement
<1>3. 0 \in 0..MaxCommits
  BY PlatformBounds
<1>5. a \in RouteCall
  BY <1>2, <1>3 DEF RouteCall
<1>6. a.at = "apply" /\ a.choice \in Project!Docker \cup {"skip"}
  BY <1>1, <1>2 DEF Project!Actions
<1>7. Choosing(a)
  BY <1>6 DEF Choosing
<1>4. asked' \in 0..MaxCalls /\ UNCHANGED <<deploy, commits, decision, compose, supervisor, kills>>
  BY AskedCounts DEF Project!Apply
<1> QED
  BY <1>1, <1>4, <1>5, <1>7, JudgeMoves, ProjectParts

LEMMA OverrideKeeps == ASSUME ProjectInv, NEW u \in Users, Project!Override(u) PROVE ProjectInv'
<1>1. PICK d \in Project!Decisions, act \in Project!Actions \cup {"refused"} :
        judge' = [judge EXCEPT ![u] = [at |-> "override", id |-> d, to |-> 0, choice |-> act]]
  BY DEF Project!Override
<1> DEFINE a == [at |-> "override", id |-> d, to |-> 0, choice |-> act]
<1>2. a \in RouteCall /\ Choosing(a)
  BY <1>1, PlatformBounds DEF RouteCall, Choosing
<1>3. asked' \in 0..MaxCalls /\ UNCHANGED <<deploy, commits, decision, compose, supervisor, kills>>
  BY AskedCounts DEF Project!Override
<1> QED
  BY <1>1, <1>2, <1>3, JudgeMoves, ProjectParts

\* A decision that is marked: nothing but its status, and that once.
LEMMA MarkKeeps ==
  ASSUME ProjectInv, NEW u, NEW s \in {"applied", "overridden"}, Project!MarkDecision(u, s)
  PROVE  decision' \in [Project!Decisions -> Judgement]
<1> DEFINE j == judge[u].id
           st == IF decision[j].status = "pending" THEN s ELSE decision[j].status
<1>1. decision \in [Project!Decisions -> Judgement] /\ decision' = [decision EXCEPT ![j].status = st]
  BY ProjectParts DEF Project!MarkDecision
<1>2. j \in Project!Decisions => st \in {"none", "pending", "applied", "overridden", "superseded"}
  BY <1>1 DEF Judgement
<1> HIDE DEF j, st
<1>3. j \in Project!Decisions => [decision[j] EXCEPT !.status = st] \in Judgement
  BY <1>1, <1>2 DEF Judgement
<1> QED
  BY <1>1, <1>3

LEMMA MarkedKeeps ==
  ASSUME ProjectInv, NEW u \in Users, Project!MarkApplied(u) \/ Project!MarkOverridden(u) PROVE ProjectInv'
<1> DEFINE a == [Project!NoCall EXCEPT !.at = "write", !.choice = judge[u].choice]
<1>1. judge[u] \in RouteCall /\ Choosing(judge[u])
  BY ProjectParts
<1>2. a = [at |-> "write", id |-> Null, to |-> 0, choice |-> judge[u].choice]
  BY WritingCall
<1>3. judge[u].choice \in Project!Docker \cup {"skip"} => a \in RouteCall /\ Choosing(a)
  <2>1. 0 \in 0..MaxCommits
    BY PlatformBounds
  <2>2. judge[u].choice \in Project!Actions \cup {"deploy", "stop", "refused", Null}
    BY <1>1 DEF RouteCall
  <2>3. a \in RouteCall
    BY <1>2, <2>1, <2>2 DEF RouteCall
  <2>4. a.at = "write" /\ a.choice = judge[u].choice
    BY <1>2
  <2> QED
    BY <2>3, <2>4 DEF Choosing
<1>4. UNCHANGED <<deploy, commits, compose, supervisor, kills, asked>>
  BY DEF Project!MarkApplied, Project!MarkOverridden
<1>5. decision' \in [Project!Decisions -> Judgement]
  BY MarkKeeps DEF Project!MarkApplied, Project!MarkOverridden
<1>6. \/ judge' = [judge EXCEPT ![u] = Project!NoCall]
      \/ judge' = [judge EXCEPT ![u] = a] /\ judge[u].choice \in Project!Docker \cup {"skip"}
  BY <1>1 DEF Project!MarkApplied, Project!MarkOverridden, Project!Writes, Project!Returns, Choosing, Project!Actions
<1> HIDE DEF a
<1> QED
  BY <1>3, <1>4, <1>5, <1>6, NoCallIs, JudgeMoves, ProjectParts

LEMMA CallsKeep == ASSUME ProjectInv, NEW u \in Users, Project!Deploy(u) \/ Project!Stop(u) PROVE ProjectInv'
<1>1. PICK act \in {"deploy", "stop"} :
        judge' = [judge EXCEPT ![u] = [Project!NoCall EXCEPT !.at = "write", !.choice = act]]
  BY DEF Project!Deploy, Project!Stop
<1> DEFINE a == [Project!NoCall EXCEPT !.at = "write", !.choice = act]
<1>2. a = [at |-> "write", id |-> Null, to |-> 0, choice |-> act]
  BY WritingCall
<1>3. a \in RouteCall /\ Choosing(a)
  <2>1. 0 \in 0..MaxCommits
    BY PlatformBounds
  <2> QED
    BY <1>2, <2>1 DEF RouteCall, Choosing
<1>4. asked' \in 0..MaxCalls /\ UNCHANGED <<deploy, commits, decision, compose, supervisor, kills>>
  BY AskedCounts DEF Project!Deploy, Project!Stop
<1> QED
  BY <1>1, <1>3, <1>4, JudgeMoves, ProjectParts

LEMMA WriteKeeps == ASSUME ProjectInv, NEW u \in Users, Project!WriteDeploy(u) PROVE ProjectInv'
<1>1. judge' = [judge EXCEPT ![u] = Project!NoCall] /\ UNCHANGED <<commits, decision, compose, supervisor, kills, asked>>
  BY DEF Project!WriteDeploy, Project!Returns
<1>2. judge[u].choice \in Project!Docker \cup {"skip", "deploy", "stop"} /\ deploy \in DeployRow /\ commits \in 0..MaxCommits
  BY ProjectParts DEF Project!WriteDeploy, Choosing
<1>3. deploy' \in DeployRow
  BY <1>2 DEF Project!WriteDeploy, DeployRow, Project!DeployStatus, Project!Active
<1> QED
  BY <1>1, <1>3, NoCallIs, JudgeMoves, ProjectParts

LEMMA SupervisorKeeps ==
  ASSUME ProjectInv, Project!Commit \/ Project!Kill \/ Project!Supervises PROVE ProjectInv'
<1>1. deploy \in DeployRow /\ supervisor \in Supervising
  BY ProjectParts
<1>2. UNCHANGED <<decision, judge, compose, asked>>
  BY DEF Project!Commit, Project!Kill, Project!Supervises, Project!Poll, Project!StartDeploy, Project!EndDeploy,
         Project!StartStop, Project!EndStop
<1>3. commits' \in 0..MaxCommits /\ kills' \in 0..MaxKills
  <2>1. Project!Supervises => UNCHANGED <<commits, kills>>
    BY DEF Project!Supervises, Project!Poll, Project!StartDeploy, Project!EndDeploy, Project!StartStop, Project!EndStop
  <2>2. Project!Commit => commits < MaxCommits /\ commits' = commits + 1 /\ UNCHANGED kills
    BY DEF Project!Commit
  <2>3. Project!Kill => kills < MaxKills /\ kills' = kills + 1 /\ UNCHANGED commits
    BY DEF Project!Kill
  <2>4. commits \in 0..MaxCommits /\ kills \in 0..MaxKills
    BY ProjectParts
  <2> QED
    BY <2>1, <2>2, <2>3, <2>4, PlatformBounds
<1>4. deploy' \in DeployRow
  BY <1>1 DEF Project!Commit, Project!Kill, Project!Supervises, Project!Poll, Project!StartDeploy, Project!EndDeploy,
         Project!StartStop, Project!EndStop, Project!Sets, DeployRow, Project!DeployStatus, Project!Active
<1>5. supervisor' \in Supervising
  <2>1. ASSUME NEW at \in {"poll", "deploy", "up", "stop", "down"}, NEW act \in Project!Docker \cup {Null}
        PROVE  [at |-> at, action |-> act] \in Supervising
    BY DEF Supervising
  <2>2. deploy.action \in Project!Docker \cup {Null} /\ supervisor.action \in Project!Docker \cup {Null}
    BY <1>1 DEF DeployRow, Supervising
  <2>3. CASE Project!Kill \/ Project!EndDeploy \/ Project!EndStop
    BY <2>1, <2>3 DEF Project!Kill, Project!EndDeploy, Project!EndStop
  <2>4. CASE Project!Poll
    BY <2>1, <2>2, <2>4 DEF Project!Poll
  <2>5. CASE Project!StartDeploy \/ Project!StartStop
    <3>1. PICK at \in {"up", "down"} :
            supervisor' = [supervisor EXCEPT !.at = at] \/ supervisor' = [at |-> "poll", action |-> Null]
      BY <2>5 DEF Project!StartDeploy, Project!StartStop
    <3>2. [supervisor EXCEPT !.at = at] \in Supervising
      BY <1>1 DEF Supervising
    <3> QED
      BY <2>1, <3>1, <3>2
  <2>6. Project!Commit => UNCHANGED supervisor
    BY DEF Project!Commit
  <2> QED
    BY <1>1, <2>3, <2>4, <2>5, <2>6 DEF Project!Supervises
<1>6. /\ decision' \in [Project!Decisions -> Judgement] /\ judge' \in [Users -> RouteCall]
      /\ \A u \in Users : Choosing(judge'[u])
      /\ compose' \in BOOLEAN /\ asked' \in 0..MaxCalls
  BY <1>2, ProjectParts
<1> QED
  BY <1>3, <1>4, <1>5, <1>6 DEF ProjectInv, Project!TypeOK, DeployRow, Supervising, Judgement, RouteCall, Choosing

LEMMA ProjectNext == ASSUME ProjectInv, [Project!Next]_Project!deployVars PROVE ProjectInv'
<1>1. CASE UNCHANGED Project!deployVars
  BY <1>1 DEF Project!deployVars, ProjectInv, Project!TypeOK, Choosing
<1>2. ASSUME NEW u \in Users,
             \/ Project!GetJudge(u) \/ Project!Supersede(u) \/ Project!Decide(u) \/ Project!Apply(u) \/ Project!Override(u)
             \/ Project!MarkApplied(u) \/ Project!MarkOverridden(u) \/ Project!Deploy(u) \/ Project!Stop(u)
             \/ Project!WriteDeploy(u)
      PROVE ProjectInv'
  BY <1>2, GetJudgeKeeps, SupersedeKeeps, DecideKeeps, ApplyKeeps, OverrideKeeps, MarkedKeeps, CallsKeep, WriteKeeps
<1> QED
  BY <1>1, <1>2, SupervisorKeeps DEF Project!Next

\* What became of a decision stays, and what it was about.
DecisionStays(d) ==
  decision[d].status # "none" =>
    /\ decision[d].status # "pending" => decision'[d] = decision[d]
    /\ decision'[d].to = decision[d].to

LEMMA DecisionStep ==
  ASSUME ProjectInv, [Project!Next]_Project!deployVars, NEW d \in Project!Decisions PROVE DecisionStays(d)
<1>1. decision \in [Project!Decisions -> Judgement] /\ decision[d] \in Judgement
  BY ProjectParts
<1>2. CASE UNCHANGED decision
  BY <1>2 DEF DecisionStays
<1>3. ASSUME NEW u \in Users, Project!Supersede(u) PROVE DecisionStays(d)
  BY <1>1, <1>3 DEF Project!Supersede, DecisionStays, Judgement
<1>4. ASSUME NEW u \in Users, Project!Decide(u) PROVE DecisionStays(d)
  <2>1. PICK e \in Project!Decisions :
          /\ \A x \in Project!Decisions : x < e <=> decision[x].status # "none"
          /\ \E act, to : decision' = [decision EXCEPT ![e] = [status |-> "pending", action |-> act, to |-> to]]
    BY <1>4 DEF Project!Decide
  <2>2. decision[e].status = "none"
    BY <2>1 DEF Project!Decisions
  <2>3. d # e => decision'[d] = decision[d]
    BY <1>1, <2>1
  <2> QED
    BY <2>2, <2>3 DEF DecisionStays
<1>5. ASSUME NEW u \in Users, NEW s, Project!MarkDecision(u, s) PROVE DecisionStays(d)
  BY <1>1, <1>5 DEF Project!MarkDecision, DecisionStays, Judgement
<1>6. ASSUME NEW u \in Users,
             \/ Project!GetJudge(u) \/ Project!Supersede(u) \/ Project!Decide(u) \/ Project!Apply(u) \/ Project!Override(u)
             \/ Project!MarkApplied(u) \/ Project!MarkOverridden(u) \/ Project!Deploy(u) \/ Project!Stop(u)
             \/ Project!WriteDeploy(u)
      PROVE DecisionStays(d)
  BY <1>2, <1>3, <1>4, <1>5, <1>6
     DEF Project!GetJudge, Project!Apply, Project!Override, Project!MarkApplied, Project!MarkOverridden,
         Project!Deploy, Project!Stop, Project!WriteDeploy
<1>7. Project!Commit \/ Project!Kill \/ Project!Supervises \/ UNCHANGED Project!deployVars => UNCHANGED decision
  BY DEF Project!Commit, Project!Kill, Project!Supervises, Project!Poll, Project!StartDeploy, Project!EndDeploy,
         Project!StartStop, Project!EndStop, Project!deployVars
<1> QED
  BY <1>2, <1>6, <1>7 DEF Project!Next

(***************************************************************************)
(* The ops loop                                                            *)
(***************************************************************************)
Probing == {"ok", "slow", "down", "none"}
ToolStep == {"idle", "look", "verify", "insert"}

\* The callers that have looked for a pending rollback and found none.
Trying == {c \in Ops!Callers : tool[c] \in {"verify", "insert"}}

\* Each of them will leave one rollback at most; without an overlap there is one
\* of them or one rollback, not both.
CrowdInv ==
  /\ rollbacks + Ops!Cardinality(Trying) <= Ops!Cardinality(Ops!Callers)
  /\ ~overlapped => /\ \A c, d \in Trying : c = d
                    /\ rollbacks > 0 => Trying = {}
                    /\ rollbacks <= 1

OpsRest ==
  /\ writer \in Writers /\ governed \in BOOLEAN /\ env \in Probing \ {"none"}
  /\ turns \in 0..MaxTurns /\ pauses \in 0..MaxPauses /\ restarts \in 0..MaxRestarts
  /\ probes \in Seq(Probing) /\ Len(probes) <= Window /\ unswept \in 0..SweepEvery
  /\ heal \in {"idle", "slo", "gate", "tool"} /\ proposal \in {"none", "pending", "settled"}
  /\ told \in BOOLEAN /\ overlapped \in BOOLEAN

OpsInv == OpsRest /\ tool \in [Ops!Callers -> ToolStep] /\ rollbacks \in Nat /\ CrowdInv

LEMMA CallersAreFinite ==
  /\ IsFiniteSet(Ops!Callers) /\ \A S : Ops!Cardinality(S) = Cardinality(S) 
<1>1. \A S : Ops!Cardinality(S) = Cardinality(S) /\ (Ops!IsFiniteSet(S) <=> IsFiniteSet(S))
  BY DEF Ops!Cardinality, Cardinality, Ops!IsFiniteSet, IsFiniteSet
<1>2. IsFiniteSet({"handler", "agent"})
  <2>1. {"handler", "agent"} = ({} \cup {"handler"}) \cup {"agent"}
    OBVIOUS
  <2>2. IsFiniteSet({} \cup {"handler"})
    BY FS_EmptySet, FS_AddElement
  <2>3. IsFiniteSet(({} \cup {"handler"}) \cup {"agent"})
    BY <2>2, FS_AddElement
  <2> QED
    BY <2>1, <2>3
<1>3. IsFiniteSet(Operators)
  BY <1>1, OperatorsAssumption
<1> QED
  BY <1>1, <1>2, <1>3, FS_Union DEF Ops!Callers

LEMMA Bounded == ASSUME NEW S, NEW n \in Nat, NEW s
                 PROVE  s \in Ops!BoundedSeq(S, n) <=> (s \in Seq(S) /\ Len(s) <= n)
<1>1. ASSUME s \in Seq(S), Len(s) <= n PROVE s \in UNION {[1..m -> S] : m \in 0..n}
  <2>1. Len(s) \in 0..n /\ s \in [1..Len(s) -> S]
    BY <1>1
  <2> QED
    BY <2>1
<1>2. ASSUME NEW m \in 0..n, s \in [1..m -> S] PROVE s \in Seq(S) /\ Len(s) <= n
  BY <1>2
<1> QED
  BY <1>1, <1>2 DEF Ops!BoundedSeq, Ops!SeqOf

\* No one begins to try; one does, with no rollback pending; one has tried.
LEMMA CrowdMoves ==
  ASSUME OpsInv, tool' \in [Ops!Callers -> ToolStep],
         \/ UNCHANGED rollbacks /\ Trying' \subseteq Trying /\ (overlapped => overlapped')
         \/ /\ UNCHANGED rollbacks /\ rollbacks = 0 /\ overlapped \in BOOLEAN
            /\ \E c \in Ops!Callers :
                 /\ Trying' \subseteq Trying \cup {c}
                 /\ overlapped' = (overlapped \/ \E d \in Ops!Callers \ {c} : d \in Trying)
         \/ rollbacks' = rollbacks + 1 /\ UNCHANGED overlapped /\ \E c \in Trying : Trying' = Trying \ {c}
  PROVE  CrowdInv' /\ rollbacks' \in Nat
<1>1. /\ IsFiniteSet(Trying) /\ Trying \subseteq Ops!Callers /\ Trying' \subseteq Ops!Callers /\ rollbacks \in Nat
      /\ Cardinality(Ops!Callers) \in Nat /\ Cardinality(Trying) \in Nat
  BY CallersAreFinite, FS_Subset, FS_CardinalityType DEF Trying, OpsInv
<1>2. /\ rollbacks + Cardinality(Trying) <= Cardinality(Ops!Callers)
      /\ ~overlapped => (\A c, d \in Trying : c = d) /\ (rollbacks > 0 => Trying = {}) /\ rollbacks <= 1
  BY CallersAreFinite DEF OpsInv, CrowdInv
<1>3. /\ IsFiniteSet(Trying') /\ Cardinality(Trying') \in Nat /\ Cardinality(Trying') <= Cardinality(Ops!Callers)
      /\ Trying' \subseteq Trying => Cardinality(Trying') <= Cardinality(Trying)
  BY <1>1, CallersAreFinite, FS_Subset, FS_CardinalityType
<1>4. ASSUME UNCHANGED rollbacks, Trying' \subseteq Trying, overlapped => overlapped' PROVE CrowdInv' /\ rollbacks' \in Nat
  <2>1. rollbacks' + Cardinality(Trying') <= Cardinality(Ops!Callers)
    BY <1>1, <1>2, <1>3, <1>4
  <2>2. ~overlapped' => (\A c, d \in Trying' : c = d) /\ (rollbacks' > 0 => Trying' = {}) /\ rollbacks' <= 1
    BY <1>2, <1>4
  <2> QED
    BY <1>1, <1>4, <2>1, <2>2, CallersAreFinite DEF CrowdInv
<1>5. ASSUME UNCHANGED rollbacks, rollbacks = 0, overlapped \in BOOLEAN, NEW c \in Ops!Callers, Trying' \subseteq Trying \cup {c},
             overlapped' = (overlapped \/ \E d \in Ops!Callers \ {c} : d \in Trying)
      PROVE  CrowdInv' /\ rollbacks' \in Nat
  <2>1. rollbacks' + Cardinality(Trying') <= Cardinality(Ops!Callers)
    BY <1>1, <1>3, <1>5
  <2>2. ~overlapped' => ~overlapped /\ Trying \subseteq {c}
    BY <1>1, <1>5
  <2>3. ~overlapped' => (\A x, y \in Trying' : x = y)
    BY <1>5, <2>2
  <2> QED
    BY <1>1, <1>5, <2>1, <2>3, CallersAreFinite DEF CrowdInv
<1>6. ASSUME rollbacks' = rollbacks + 1, UNCHANGED overlapped, NEW c \in Trying, Trying' = Trying \ {c}
      PROVE  CrowdInv' /\ rollbacks' \in Nat
  <2>1. Cardinality(Trying') = Cardinality(Trying) - 1
    BY <1>1, <1>6, FS_RemoveElement
  <2>2. rollbacks' + Cardinality(Trying') <= Cardinality(Ops!Callers) /\ rollbacks' \in Nat
    BY <1>1, <1>2, <1>6, <2>1
  <2>3. ~overlapped' => Trying = {c} /\ ~(rollbacks > 0)
    BY <1>2, <1>6
  <2>4. ~overlapped' => Trying' = {} /\ rollbacks' <= 1
    BY <1>1, <1>6, <2>3
  <2> QED
    BY <2>2, <2>4, CallersAreFinite DEF CrowdInv
<1> QED
  BY <1>4, <1>5, <1>6

LEMMA OpsInit == ASSUME Ops!Init PROVE OpsInv
<1>1. /\ 0 \in 0..MaxTurns /\ 0 \in 0..MaxPauses /\ 0 \in 0..MaxRestarts /\ 0 \in 0..SweepEvery
      /\ Len(<<>>) <= Window /\ <<>> \in Seq(Probing)
  BY PlatformBounds
<1>2. OpsRest
  BY <1>1 DEF Ops!Init, OpsRest, Probing
<1>3. tool \in [Ops!Callers -> ToolStep] /\ Trying = {} /\ rollbacks = 0 /\ ~overlapped
  BY DEF Ops!Init, ToolStep, Trying
<1>4. CrowdInv
  BY <1>3, CallersAreFinite, FS_EmptySet, FS_CardinalityType DEF CrowdInv
<1> QED
  BY <1>2, <1>3, <1>4 DEF OpsInv

\* One caller goes on; whether it tries afterwards follows from where it goes.
LEMMA ToolGoes ==
  ASSUME tool \in [Ops!Callers -> ToolStep], NEW c, NEW at \in ToolStep, tool' = [tool EXCEPT ![c] = at]
  PROVE  /\ tool' \in [Ops!Callers -> ToolStep]
         /\ Trying' \subseteq Trying \cup {c}
         /\ at \in {"idle", "look"} => Trying' \subseteq Trying /\ Trying' = Trying \ {c}
         /\ c \in Trying => Trying' \subseteq Trying
BY DEF Trying

\* What the tools end with.
LEMMA EndsFacts ==
  ASSUME OpsRest, NEW c, Ops!Ends(c) \/ (\E at \in ToolStep : Ops!Steps(c, at))
  PROVE  heal' \in {"idle", "slo", "gate", "tool"} /\ told' \in BOOLEAN /\ \E at \in ToolStep : tool' = [tool EXCEPT ![c] = at]
<1>1. ASSUME Ops!Ends(c) PROVE heal' \in {"idle", "slo", "gate", "tool"} /\ told' \in BOOLEAN /\ tool' = [tool EXCEPT ![c] = "idle"]
  BY <1>1 DEF Ops!Ends, OpsRest
<1>2. ASSUME NEW at \in ToolStep, Ops!Steps(c, at)
      PROVE heal' \in {"idle", "slo", "gate", "tool"} /\ told' \in BOOLEAN /\ tool' = [tool EXCEPT ![c] = at]
  BY <1>2 DEF Ops!Steps, OpsRest
<1> QED
  BY <1>1, <1>2 DEF ToolStep

LEMMA OpsMinute ==
  ASSUME OpsRest, NEW result \in Probing, Ops!Minute(result) PROVE probes' \in Seq(Probing) /\ Len(probes') <= Window
<1>1. probes \in Seq(Probing) /\ Len(probes) \in Nat /\ Window \in Nat \ {0} /\ Len(probes) <= Window
  BY PlatformBounds DEF OpsRest
<1>2. PICK s \in Seq(Probing) : probes' = s \o <<result>> /\ Len(s) + 1 <= Window
  <2>1. CASE Len(probes) = Window
    <3>1. probes # <<>>
      BY <1>1, <2>1
    <3>2. Tail(probes) \in Seq(Probing) /\ Len(Tail(probes)) = Len(probes) - 1
      BY <1>1, <3>1
    <3>3. probes' = Tail(probes) \o <<result>>
      BY <2>1 DEF Ops!Minute
    <3>4. Len(Tail(probes)) + 1 <= Window
      BY <1>1, <3>2
    <3> QED
      BY <3>2, <3>3, <3>4
  <2>2. CASE Len(probes) # Window
    <3>1. probes' = probes \o <<result>>
      BY <2>2 DEF Ops!Minute
    <3>2. Len(probes) + 1 <= Window
      BY <1>1, <2>2
    <3> QED
      BY <1>1, <3>1, <3>2
  <2> QED
    BY <2>1, <2>2
<1>3. s \o <<result>> \in Seq(Probing) /\ Len(s \o <<result>>) = Len(s) + 1
  BY <1>1
<1> QED
  BY <1>1, <1>2, <1>3

\* A step that leaves the callers alone, or takes all of them back.
LEMMA OthersCrowd ==
  ASSUME OpsInv, UNCHANGED <<rollbacks, overlapped>>, tool' = tool \/ tool' = [c \in Ops!Callers |-> "idle"], OpsRest'
  PROVE  OpsInv'
<1>1. tool' \in [Ops!Callers -> ToolStep] /\ Trying' \subseteq Trying
  BY DEF OpsInv, ToolStep, Trying
<1> QED
  BY <1>1, CrowdMoves DEF OpsInv

LEMMA OpsPlain ==
  ASSUME OpsInv, Ops!Turn \/ Ops!Probe \/ Ops!Pause \/ Ops!Sweep \/ Ops!Propose \/ Ops!Reject \/ Ops!Crash
  PROVE  OpsInv'
<1>0. OpsRest /\ turns \in 0..MaxTurns /\ pauses \in 0..MaxPauses /\ restarts \in 0..MaxRestarts /\ unswept \in 0..SweepEvery
      /\ MaxTurns \in Nat /\ MaxPauses \in Nat /\ MaxRestarts \in Nat /\ SweepEvery \in Nat
  BY PlatformBounds DEF OpsInv, OpsRest
<1>1. ASSUME Ops!Turn PROVE OpsInv'
  <2>1. turns' \in 0..MaxTurns
    BY <1>0, <1>1 DEF Ops!Turn
  <2>2. OpsRest'
    BY <1>0, <1>1, <2>1 DEF Ops!Turn, OpsRest, Probing
  <2> QED
    BY <1>1, <2>2, OthersCrowd DEF Ops!Turn
<1>2. ASSUME Ops!Probe PROVE OpsInv'
  <2>1. unswept' \in 0..SweepEvery
    BY <1>0, <1>2 DEF Ops!Probe
  <2>2. probes' \in Seq(Probing) /\ Len(probes') <= Window
    BY <1>0, <1>2, OpsMinute DEF Ops!Probe, OpsRest
  <2>3. OpsRest'
    BY <1>0, <1>2, <2>1, <2>2 DEF Ops!Probe, OpsRest
  <2> QED
    BY <1>2, <2>3, OthersCrowd DEF Ops!Probe
<1>3. ASSUME Ops!Pause PROVE OpsInv'
  <2>1. pauses' \in 0..MaxPauses
    BY <1>0, <1>3 DEF Ops!Pause
  <2>2. probes' \in Seq(Probing) /\ Len(probes') <= Window
    BY <1>0, <1>3, OpsMinute DEF Ops!Pause, Probing
  <2>3. OpsRest'
    BY <1>0, <1>3, <2>1, <2>2 DEF Ops!Pause, OpsRest
  <2> QED
    BY <1>3, <2>3, OthersCrowd DEF Ops!Pause
<1>4. ASSUME Ops!Sweep PROVE OpsInv'
  <2>1. OpsRest'
    BY <1>0, <1>4 DEF Ops!Sweep, OpsRest
  <2> QED
    BY <1>4, <2>1, OthersCrowd DEF Ops!Sweep
<1>5. ASSUME Ops!Propose \/ Ops!Reject PROVE OpsInv'
  <2>1. OpsRest'
    BY <1>0, <1>5 DEF Ops!Propose, Ops!Reject, OpsRest
  <2> QED
    BY <1>5, <2>1, OthersCrowd DEF Ops!Propose, Ops!Reject
<1>6. ASSUME Ops!Crash PROVE OpsInv'
  <2>1. restarts' \in 0..MaxRestarts
    BY <1>0, <1>6 DEF Ops!Crash
  <2>2. OpsRest'
    BY <1>0, <1>6, <2>1 DEF Ops!Crash, OpsRest
  <2> QED
    BY <1>6, <2>2, OthersCrowd DEF Ops!Crash
<1> QED
  BY <1>1, <1>2, <1>3, <1>4, <1>5, <1>6

\* A caller is sent to look: it does not try yet.
LEMMA SentToLook ==
  ASSUME OpsInv, NEW c, tool' = [tool EXCEPT ![c] = "look"], UNCHANGED <<rollbacks, overlapped>>, OpsRest' PROVE OpsInv'
<1>1. tool' \in [Ops!Callers -> ToolStep] /\ Trying' \subseteq Trying
  BY ToolGoes DEF OpsInv, ToolStep
<1> QED
  BY <1>1, CrowdMoves DEF OpsInv

LEMMA OpsSends ==
  ASSUME OpsInv, Ops!JudgeSlo \/ Ops!AgentCalls \/ \E c \in Operators : Ops!Confirm(c) PROVE OpsInv'
<1>1. ASSUME Ops!JudgeSlo PROVE OpsInv'
  <2>1. OpsRest'
    <3>1. told' \in BOOLEAN
      BY <1>1 DEF Ops!JudgeSlo, OpsInv, OpsRest
    <3>2. heal' \in {"idle", "gate", "tool"}
      BY <1>1 DEF Ops!JudgeSlo
    <3> QED
      BY <1>1, <3>1, <3>2 DEF Ops!JudgeSlo, OpsInv, OpsRest
  <2>2. tool' = [tool EXCEPT !["handler"] = "look"] \/ tool' = tool
    BY <1>1 DEF Ops!JudgeSlo, OpsInv
  <2> QED
    BY <1>1, <2>1, <2>2, SentToLook, OthersCrowd DEF Ops!JudgeSlo
<1>2. ASSUME Ops!AgentCalls PROVE OpsInv'
  <2>1. OpsRest'
    BY <1>2 DEF Ops!AgentCalls, OpsInv, OpsRest
  <2> QED
    BY <1>2, <2>1, SentToLook DEF Ops!AgentCalls
<1>3. ASSUME NEW c \in Operators, Ops!Confirm(c) PROVE OpsInv'
  <2>1. OpsRest'
    BY <1>3 DEF Ops!Confirm, OpsInv, OpsRest
  <2> QED
    BY <1>3, <2>1, SentToLook DEF Ops!Confirm
<1> QED
  BY <1>1, <1>2, <1>3

LEMMA OpsLook == ASSUME OpsInv, NEW c \in Ops!Callers, Ops!Look(c) PROVE OpsInv'
<1>1. UNCHANGED <<writer, governed, env, turns, probes, pauses, unswept, proposal, rollbacks, restarts>>
      /\ overlapped' = (overlapped \/ \E d \in Ops!Callers \ {c} : d \in Trying)
  BY DEF Ops!Look, Trying
<1>2. Ops!Ends(c) \/ (rollbacks = 0 /\ \E at \in {"insert", "verify"} : Ops!Steps(c, at))
  BY DEF Ops!Look, OpsInv
<1>3. heal' \in {"idle", "slo", "gate", "tool"} /\ told' \in BOOLEAN
  BY <1>2, EndsFacts DEF OpsInv, ToolStep
<1>4. OpsRest'
  <2>1. overlapped' \in BOOLEAN
    BY <1>1
  <2> QED
    BY <1>1, <1>3, <2>1 DEF OpsInv, OpsRest
<1>5. CASE Ops!Ends(c)
  <2>1. tool' \in [Ops!Callers -> ToolStep] /\ Trying' \subseteq Trying
    BY <1>5, ToolGoes DEF OpsInv, ToolStep, Ops!Ends
  <2> QED
    BY <1>1, <1>4, <2>1, CrowdMoves DEF OpsInv
<1>6. CASE rollbacks = 0 /\ \E at \in {"insert", "verify"} : Ops!Steps(c, at)
  <2>1. tool' \in [Ops!Callers -> ToolStep] /\ Trying' \subseteq Trying \cup {c}
    BY <1>6, ToolGoes DEF OpsInv, ToolStep, Ops!Steps
  <2>2. overlapped \in BOOLEAN
    BY DEF OpsInv, OpsRest
  <2> QED
    BY <1>1, <1>4, <1>6, <2>1, <2>2, CrowdMoves DEF OpsInv
<1> QED
  BY <1>2, <1>5, <1>6

LEMMA OpsVerify == ASSUME OpsInv, NEW c \in Ops!Callers, Ops!Verify(c) PROVE OpsInv'
<1>1. UNCHANGED <<writer, governed, env, turns, probes, pauses, unswept, proposal, rollbacks, restarts, overlapped>>
      /\ c \in Trying
  BY DEF Ops!Verify, Trying
<1>2. /\ heal' \in {"idle", "slo", "gate", "tool"} /\ told' \in BOOLEAN
      /\ \E at \in ToolStep : tool' = [tool EXCEPT ![c] = at]
  <2>1. \/ Ops!Ends(c) \/ Ops!Steps(c, "insert")
        \/ /\ tool' = [tool EXCEPT ![c] = "idle"] /\ UNCHANGED told
           /\ heal' = IF c = "handler" THEN "idle" ELSE heal
    BY DEF Ops!Verify
  <2>2. CASE Ops!Ends(c) \/ Ops!Steps(c, "insert")
    BY <2>2, EndsFacts DEF OpsInv, ToolStep
  <2> QED
    BY <2>1, <2>2 DEF OpsInv, OpsRest, ToolStep
<1>3. OpsRest'
  BY <1>1, <1>2 DEF OpsInv, OpsRest
<1>4. tool' \in [Ops!Callers -> ToolStep] /\ Trying' \subseteq Trying
  BY <1>1, <1>2, ToolGoes DEF OpsInv
<1> QED
  BY <1>1, <1>3, <1>4, CrowdMoves DEF OpsInv

LEMMA OpsQueue == ASSUME OpsInv, NEW c \in Ops!Callers, Ops!Queue(c) PROVE OpsInv'
<1>1. UNCHANGED <<writer, governed, env, turns, probes, pauses, unswept, proposal, restarts, overlapped>>
      /\ c \in Trying /\ rollbacks' = rollbacks + 1 /\ tool' = [tool EXCEPT ![c] = "idle"]
  BY DEF Ops!Queue, Ops!Ends, Trying
<1>2. heal' \in {"idle", "slo", "gate", "tool"} /\ told' \in BOOLEAN
  BY EndsFacts DEF Ops!Queue, OpsInv
<1>3. OpsRest'
  BY <1>1, <1>2 DEF OpsInv, OpsRest
<1>4. tool' \in [Ops!Callers -> ToolStep] /\ Trying' = Trying \ {c}
  BY <1>1, ToolGoes DEF OpsInv, ToolStep
<1> QED
  BY <1>1, <1>3, <1>4, CrowdMoves DEF OpsInv

LEMMA OpsNext == ASSUME OpsInv, [Ops!Next]_Ops!opsVars PROVE OpsInv'
<1>1. CASE UNCHANGED Ops!opsVars
  <2>1. OpsRest'
    BY <1>1 DEF Ops!opsVars, OpsInv, OpsRest
  <2> QED
    BY <1>1, <2>1, OthersCrowd DEF Ops!opsVars
<1>2. ASSUME NEW c \in Ops!Callers, Ops!Look(c) \/ Ops!Verify(c) \/ Ops!Queue(c) PROVE OpsInv'
  BY <1>2, OpsLook, OpsVerify, OpsQueue
<1> QED
  BY <1>1, <1>2, OpsPlain, OpsSends DEF Ops!Next

LEMMA OpsFacts == ASSUME OpsInv PROVE Ops!TypeOK /\ Ops!OneRollbackPerEnv
<1>1. rollbacks \in 0..Ops!Cardinality(Ops!Callers)
  <2>1. IsFiniteSet(Trying) /\ Cardinality(Trying) \in Nat /\ Cardinality(Ops!Callers) \in Nat
    BY CallersAreFinite, FS_Subset, FS_CardinalityType DEF Trying
  <2>2. rollbacks \in Nat /\ rollbacks + Cardinality(Trying) <= Cardinality(Ops!Callers)
    BY CallersAreFinite DEF OpsInv, CrowdInv
  <2>3. rollbacks \in 0..Cardinality(Ops!Callers)
    BY <2>1, <2>2
  <2> QED
    BY <2>3, CallersAreFinite
<1>2. probes \in Ops!BoundedSeq({"ok", "slow", "down", "none"}, Window)
  BY Bounded, PlatformBounds DEF OpsInv, OpsRest, Probing
<1>3. Ops!TypeOK
  BY <1>1, <1>2 DEF OpsInv, OpsRest, Probing, ToolStep, Ops!TypeOK
<1>4. Ops!OneRollbackPerEnv
  BY DEF OpsInv, CrowdInv, Ops!OneRollbackPerEnv
<1> QED
  BY <1>3, <1>4

(***************************************************************************)
(* The delivery of events                                                  *)
(***************************************************************************)
LEMMA EventsParts ==
  Events!TypeOK <=>
    /\ emits \in Seq(0..(Handlers + 1)) /\ Len(emits) <= MaxEvents
    /\ inbox \in [Listeners -> Seq(Events!Events) \cup {Null}]
    /\ buffer \in Seq(Events!Events) /\ Len(buffer) <= MaxBuffer
    /\ sent \subseteq Events!Events /\ dropped \subseteq Events!Events /\ vanished \subseteq Events!Events
    /\ worker \in Events!Payload \cup {Null} /\ up \in BOOLEAN
BY DEF Events!TypeOK

LEMMA EventsInit == ASSUME Events!Init PROVE Events!TypeOK
<1>1. /\ <<>> \in Seq(0..(Handlers + 1)) /\ <<>> \in Seq(Events!Events) /\ Len(<<>>) <= MaxEvents /\ Len(<<>>) <= MaxBuffer
  BY PlatformBounds
<1> QED
  BY <1>1, EventsParts DEF Events!Init

\* A payload that is taken is an event, as what stays behind is.
LEMMA FirstAndRest ==
  ASSUME NEW T, NEW s \in Seq(T), s # <<>>
  PROVE  Head(s) \in T /\ Tail(s) \in Seq(T) /\ Len(Tail(s)) <= Len(s)
OBVIOUS

LEMMA EventsEmit == ASSUME Events!TypeOK, Events!Emit PROVE Events!TypeOK'
<1>1. /\ emits \in Seq(0..(Handlers + 1)) /\ Len(emits) < MaxEvents /\ Handlers + 1 \in 0..(Handlers + 1)
      /\ emits' = Append(emits, Handlers + 1) /\ MaxEvents \in Nat
  BY EventsParts, PlatformBounds DEF Events!Emit
<1>2. emits' \in Seq(0..(Handlers + 1)) /\ Len(emits') <= MaxEvents
  BY <1>1
<1>3. Len(emits) + 1 \in Events!Events
  BY <1>1 DEF Events!Events
<1>4. inbox' \in [Listeners -> Seq(Events!Events) \cup {Null}]
  <2>1. inbox \in [Listeners -> Seq(Events!Events) \cup {Null}]
    BY EventsParts
  <2>2. inbox' = [c \in Listeners |-> IF inbox[c] = Null THEN Null ELSE Append(inbox[c], Len(emits) + 1)]
    BY DEF Events!Emit
  <2>3. ASSUME NEW s \in Seq(Events!Events) PROVE Append(s, Len(emits) + 1) \in Seq(Events!Events)
    BY <1>3
  <2> QED
    BY <2>1, <2>2, <2>3
<1> QED
  BY <1>2, <1>4, EventsParts DEF Events!Emit, Events!TypeOK

LEMMA EventsHandle ==
  ASSUME Events!TypeOK, NEW k \in DOMAIN emits, Events!Handle(k) \/ Events!Cancelled(k) PROVE Events!TypeOK'
<1>1. /\ emits \in Seq(0..(Handlers + 1)) /\ Len(emits) <= MaxEvents /\ Len(emits) \in Nat /\ MaxEvents \in Nat
      /\ k \in 1..Len(emits) /\ emits[k] \in 0..(Handlers + 1) /\ Handlers \in Nat
  BY EventsParts, PlatformBounds
<1>2. k \in Events!Events
  BY <1>1 DEF Events!Events
<1>3. PICK n \in 0..(Handlers + 1) : emits' = [emits EXCEPT ![k] = n]
  <2>1. emits[k] > 0 => emits[k] - 1 \in 0..(Handlers + 1)
    BY <1>1
  <2>2. 0 \in 0..(Handlers + 1)
    BY <1>1
  <2> QED
    BY <2>1, <2>2 DEF Events!Handle, Events!Cancelled
<1>4. emits' \in Seq(0..(Handlers + 1)) /\ Len(emits') <= MaxEvents
  BY <1>1, <1>3
<1>5. buffer' \in Seq(Events!Events) /\ Len(buffer') <= MaxBuffer
  <2>1. buffer \in Seq(Events!Events) /\ Len(buffer) <= MaxBuffer /\ MaxBuffer \in Nat /\ Len(buffer) \in Nat
    BY EventsParts, PlatformBounds
  <2>2. UNCHANGED buffer \/ (Len(buffer) < MaxBuffer /\ buffer' = Append(buffer, k))
    BY DEF Events!Handle, Events!Cancelled
  <2> QED
    BY <1>2, <2>1, <2>2
<1>6. dropped' \subseteq Events!Events /\ vanished' \subseteq Events!Events
  BY <1>2, EventsParts DEF Events!Handle, Events!Cancelled
<1>7. UNCHANGED <<inbox, worker, sent, up>>
  BY DEF Events!Handle, Events!Cancelled
<1> QED
  BY <1>4, <1>5, <1>6, <1>7, EventsParts DEF Events!TypeOK

LEMMA EventsListen ==
  ASSUME Events!TypeOK, NEW c \in Listeners, Events!Connect(c) \/ Events!Receive(c) \/ Events!Disconnect(c)
  PROVE  Events!TypeOK'
<1>1. inbox \in [Listeners -> Seq(Events!Events) \cup {Null}] /\ <<>> \in Seq(Events!Events)
  BY EventsParts
<1>2. PICK s \in Seq(Events!Events) \cup {Null} : inbox' = [inbox EXCEPT ![c] = s]
  <2>1. inbox[c] # Null /\ inbox[c] # <<>> => Tail(inbox[c]) \in Seq(Events!Events)
    BY <1>1, FirstAndRest
  <2> QED
    BY <1>1, <2>1 DEF Events!Connect, Events!Receive, Events!Disconnect
<1>3. inbox' \in [Listeners -> Seq(Events!Events) \cup {Null}]
  BY <1>1, <1>2
<1> QED
  BY <1>3, EventsParts DEF Events!TypeOK, Events!Connect, Events!Receive, Events!Disconnect

LEMMA EventsPost ==
  ASSUME Events!TypeOK, Events!Take \/ Events!Posts \/ Events!Stop PROVE Events!TypeOK'
<1>0. /\ buffer \in Seq(Events!Events) /\ Len(buffer) <= MaxBuffer /\ worker \in Events!Payload \cup {Null}
      /\ sent \subseteq Events!Events /\ dropped \subseteq Events!Events /\ vanished \subseteq Events!Events
      /\ MaxBuffer \in Nat /\ MaxRetries \in Nat /\ Len(buffer) \in Nat /\ MaxEvents \in Nat
      /\ emits \in Seq(0..(Handlers + 1)) /\ Len(emits) <= MaxEvents /\ Handlers \in Nat
  BY EventsParts, PlatformBounds
<1>1. ASSUME Events!Take PROVE Events!TypeOK'
  <2>1. Head(buffer) \in Events!Events /\ Tail(buffer) \in Seq(Events!Events) /\ Len(Tail(buffer)) <= Len(buffer)
    BY <1>0, <1>1, FirstAndRest DEF Events!Take
  <2>2. Len(Tail(buffer)) <= MaxBuffer
    BY <1>0, <2>1
  <2>3. [event |-> Head(buffer), attempt |-> 0] \in Events!Payload
    BY <1>0, <2>1 DEF Events!Payload
  <2> QED
    BY <1>1, <2>1, <2>2, <2>3, EventsParts DEF Events!Take, Events!TypeOK
<1>2. ASSUME Events!Accepted PROVE Events!TypeOK'
  <2>1. worker.event \in Events!Events
    BY <1>0, <1>2 DEF Events!Accepted, Events!Payload
  <2> QED
    BY <1>0, <1>2, <2>1, EventsParts DEF Events!Accepted, Events!TypeOK
<1>3. ASSUME NEW got \in BOOLEAN, Events!Refused(got) PROVE Events!TypeOK'
  <2>1. worker \in Events!Payload /\ worker.event \in Events!Events /\ worker.attempt \in 0..MaxRetries
    BY <1>0, <1>3 DEF Events!Refused, Events!Payload
  <2>2. worker.attempt < MaxRetries => [worker EXCEPT !.attempt = @ + 1] \in Events!Payload
    <3>1. worker.attempt < MaxRetries => worker.attempt + 1 \in 0..MaxRetries
      BY <1>0, <2>1
    <3> QED
      BY <2>1, <3>1 DEF Events!Payload
  <2>3. worker' \in Events!Payload \cup {Null} /\ dropped' \subseteq Events!Events /\ sent' \subseteq Events!Events
    BY <1>0, <1>3, <2>1, <2>2 DEF Events!Refused, Events!AfterLast
  <2> QED
    BY <1>0, <1>3, <2>3, EventsParts DEF Events!Refused, Events!TypeOK
<1>4. ASSUME Events!Stop PROVE Events!TypeOK'
  <2>1. emits' \in Seq(0..(Handlers + 1)) /\ Len(emits') <= MaxEvents
    <3>1. emits' = [k \in 1..Len(emits) |-> 0] /\ Len(emits) \in Nat /\ 0 \in 0..(Handlers + 1)
      BY <1>0, <1>4 DEF Events!Stop
    <3> QED
      BY <1>0, <3>1
  <2>2. Events!ToSet(buffer) \subseteq Events!Events
    BY <1>0 DEF Events!ToSet
  <2>3. (IF worker = Null THEN {} ELSE {worker.event}) \subseteq Events!Events
    BY <1>0 DEF Events!Payload
  <2>4. vanished' \subseteq Events!Events
    BY <1>0, <1>4, <2>2, <2>3 DEF Events!Stop
  <2>5. <<>> \in Seq(Events!Events) /\ Len(<<>>) <= MaxBuffer
    BY <1>0
  <2> QED
    BY <1>0, <1>4, <2>1, <2>4, <2>5, EventsParts DEF Events!Stop, Events!TypeOK
<1> QED
  BY <1>1, <1>2, <1>3, <1>4 DEF Events!Posts

LEMMA EventsNext == ASSUME Events!TypeOK, [Events!Next]_Events!eventVars PROVE Events!TypeOK'
<1>1. CASE UNCHANGED Events!eventVars
  BY <1>1 DEF Events!eventVars, Events!TypeOK
<1>2. ASSUME NEW k \in DOMAIN emits, Events!Handle(k) \/ Events!Cancelled(k) PROVE Events!TypeOK'
  BY <1>2, EventsHandle
<1>3. ASSUME NEW c \in Listeners, Events!Connect(c) \/ Events!Receive(c) \/ Events!Disconnect(c) PROVE Events!TypeOK'
  BY <1>3, EventsListen
<1> QED
  BY <1>1, <1>2, <1>3, EventsEmit, EventsPost DEF Events!Next

(***************************************************************************)
(* The parts together                                                      *)
(***************************************************************************)
\* What a step is for each part: one of its own, or none.
LEMMA PlatformSteps ==
  ASSUME [PlatformNext]_platformVars
  PROVE  /\ [Next]_vars
         /\ [Project!Next]_Project!deployVars
         /\ [Host!Next]_Host!platformVars
         /\ [Ops!Next]_Ops!opsVars
         /\ [Events!Next]_Events!eventVars
<1>1. [Next]_vars
  BY DEF PlatformNext, platformVars
<1>2. [Project!Next]_Project!deployVars
  BY DEF PlatformNext, platformVars, projectVars, Project!deployVars
<1>3. [Host!Next]_Host!platformVars
  BY DEF PlatformNext, platformVars, hostVars, Host!platformVars
<1>4. [Ops!Next]_Ops!opsVars
  BY DEF PlatformNext, platformVars, opsVars, Ops!opsVars
<1>5. [Events!Next]_Events!eventVars
  BY DEF PlatformNext, platformVars, eventVars, Events!eventVars
<1> QED
  BY <1>1, <1>2, <1>3, <1>4, <1>5

\* Requests live on the platform as RequestLifecycle has it.
LEMMA RequestsLive == PlatformSafety => Spec
<1>1. PlatformInit => Init
  BY DEF PlatformInit
<1>2. [PlatformNext]_platformVars => [Next]_vars
  BY PlatformSteps
<1> QED
  BY <1>1, <1>2, PTL DEF PlatformSafety, Spec

\* The types of every part of the platform, for any number of requests, clients,
\* deployments, decisions, probes, callers of the rollback tools and events.
THEOREM PlatformTypesHold == PlatformSafety => []PlatformTypeOK
<1> DEFINE Parts == ProjectInv /\ HostInv /\ OpsInv /\ Events!TypeOK
<1>1. PlatformInit => Parts
  BY ProjectInit, HostInvInit, OpsInit, EventsInit DEF PlatformInit
<1>2. Parts /\ [PlatformNext]_platformVars => Parts'
  BY PlatformSteps, ProjectNext, HostInvNext, OpsNext, EventsNext
<1>3. Parts /\ TypeOK => PlatformTypeOK
  BY HostFacts, OpsFacts DEF PlatformTypeOK, ProjectInv
<1>4. PlatformSafety => []TypeOK
  BY RequestsLive, TypeCorrectness, PTL
<1> QED
  BY <1>1, <1>2, <1>3, <1>4, PTL DEF PlatformSafety

\* However deployments, restarts, raised exceptions, lost calls and confirmations
\* interleave: a reported outcome stays true of everything but a failure, a revert
\* stands right behind the commit it takes back, of a deployment that failed, and
\* two rollbacks are queued only by callers that overlapped
\* (WaitForDeploymentTool, rollback, AutoRollbackTool).
THEOREM RollbacksAreSoundHolds == PlatformSafety => []RollbacksAreSound
<1> DEFINE Parts == HostInv /\ OpsInv
<1>1. PlatformInit => Parts
  BY HostInvInit, OpsInit DEF PlatformInit
<1>2. Parts /\ [PlatformNext]_platformVars => Parts'
  BY PlatformSteps, HostInvNext, OpsNext
<1>3. Parts => RollbacksAreSound
  BY HostFacts, OpsFacts DEF RollbacksAreSound
<1> QED
  BY <1>1, <1>2, <1>3, PTL DEF PlatformSafety

\* The record of what a supervisor was asked stays: a settled recommendation is
\* never rewritten, none is ever said to reach further than it was judged, and main
\* on GitHub only grows, whoever pushes (mark_decision_applied, update_ref,
\* rollback_executor).  These are the halves of DeploysEnd that are no liveness.
THEOREM RecordsStay == PlatformSafety => Project!DecisionsAreFinal /\ Host!HistoryIsKept
<1> DEFINE Parts == ProjectInv /\ HostInv
<1>1. PlatformInit => Parts
  BY ProjectInit, HostInvInit DEF PlatformInit
<1>2. Parts /\ [PlatformNext]_platformVars => Parts'
  BY PlatformSteps, ProjectNext, HostInvNext
<1>3. Parts /\ [PlatformNext]_platformVars =>
        [\A d \in Project!Decisions : decision[d].status # "none" =>
           /\ decision[d].status # "pending" => decision'[d] = decision[d]
           /\ decision'[d].to = decision[d].to]_Project!deployVars
  BY PlatformSteps, DecisionStep DEF DecisionStays
<1>4. Parts /\ [PlatformNext]_platformVars => [Host!IsPrefix(origin, origin')]_Host!platformVars
  BY PlatformSteps, HistoryStep DEF HostInv
<1> QED
  BY <1>1, <1>2, <1>3, <1>4, PTL DEF PlatformSafety, Project!DecisionsAreFinal, Host!HistoryIsKept

\* What is proved of the life of a request holds beside the other parts: with one
\* worker, and clients that know a request only from the answer to its submission
\* (cancel_request, delete_request, _sync_task_status).
THEOREM RequestsAreKept ==
  ASSUME OneWorkerCalm
  PROVE  PlatformSafety => [](NoWorkAfterDelete /\ RecordMatches /\ TaskAgrees /\ NothingSpins) /\ CancelledStays
BY RequestsLive, NoWorkAfterDeleteHolds, RecordMatchesHolds, TaskAgreesHolds, NothingSpinsHolds, CancelledStaysHolds, PTL
================================================================================
