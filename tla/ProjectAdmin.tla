---------------------------- MODULE ProjectAdmin ----------------------------
(***************************************************************************)
(* The projects themselves: create, update, archive, delete, and the two   *)
(* ways of giving one a repository.                                        *)
(*                                                                         *)
(* Every route reads first, then awaits GitHub or the database, and writes *)
(* the row it read.  Ports are taken from the rows there are and the row   *)
(* is inserted later; the working tree and the repository are named after  *)
(* the project, not after its id.                                          *)
(***************************************************************************)
EXTENDS Naturals, FiniteSets

CONSTANTS
  MaxProjects, \* bound on the rows ever inserted, which number their ids
  Names,       \* names that differ in more than case
  MaxCalls,    \* bound on the calls ever made
  Callers,     \* concurrent calls of the routes
  MaxPort,     \* 65535 in the code, counted from the base port as 1
  Nobody

Projects == 1..MaxProjects

VARIABLES
  project,  \* the rows
  admin,    \* where each call is, and the row it has read
  repos,    \* GitHub: the names this platform has made a repository of
  typed,    \* history: addresses of repositories that users pasted or patched in
    \* GitHub: repositories a scaffold was committed to
  tree,     \* working tree of each name: the project whose ports are baked in
  requests, \* projects that own requests
  judged,   \* projects a deploy decision row refers to
  calls     \* calls made so far

adminVars == <<project, admin, repos, typed, tree, requests, judged, calls>>

Stages == {"idle", "repo", "ports", "insert", "scaffold", "check", "write", "backfill",
           "requests", "row", "tree"}

NoRow == [status |-> "unused", name |-> Nobody, port |-> 0, repo |-> Nobody]
RowType == [status: {"unused", "active", "archived", "deleted"}, name: Names \cup {Nobody},
            port: 0..MaxPort, repo: Names \cup {Nobody}]
Idle == [at |-> "idle", id |-> Nobody, row |-> NoRow]

TypeOK ==
  /\ project \in [Projects -> RowType]
  /\ admin \in [Callers -> [at: Stages, id: Projects \cup {Nobody}, row: RowType]]
  /\ repos \subseteq Names /\ typed \subseteq Names
  /\ tree \in [Names -> Projects \cup {Nobody}]
  /\ requests \subseteq Projects /\ judged \subseteq Projects /\ calls \in 0..MaxCalls

Init ==
  /\ project = [p \in Projects |-> NoRow]
  /\ admin = [c \in Callers |-> Idle]
  /\ repos = {} /\ typed = {} /\ tree = [n \in Names |-> Nobody]
  /\ requests = {} /\ judged = {} /\ calls = 0

Rows == {p \in Projects : project[p].status \in {"active", "archived"}}

Fresh(p) == \A q \in Projects : q < p <=> project[q].status # "unused"

\* find_project_by_name, active_only.
Taken(n) == \E p \in Rows : project[p].status = "active" /\ project[p].name = n

Starts(c) == admin[c].at = "idle" /\ calls < MaxCalls /\ calls' = calls + 1
Returns(c) == admin' = [admin EXCEPT ![c] = Idle]
Goes(c, at) == admin' = [admin EXCEPT ![c].at = at]

(***************************************************************************)
(* Creation                                                                *)
(***************************************************************************)
\* A repository's address, as it stands in the body of a call: nobody looks
\* whether it is another project's.
Types(link) == typed' = typed \cup ({link} \ {Nobody})

\* The name is free now.  The body pastes a repository's address, or says
\* whether one is to be made.
Create(c) ==
  /\ Starts(c)
  /\ \E n \in Names, at \in {"repo", "ports"}, link \in Names \cup {Nobody} :
       /\ ~Taken(n) /\ (at = "repo" => link = Nobody)
       /\ Types(link)
       /\ admin' = [admin EXCEPT ![c] = [at |-> at, id |-> Nobody,
                                         row |-> [NoRow EXCEPT !.status = "active", !.name = n, !.repo = link]]]
  /\ UNCHANGED <<project, repos, tree, requests, judged>>

\* GitHub makes the repository, has one of that name, refuses, or has no token:
\* only the last lets the creation go on without one.
CreateRepo(c) ==
  LET n == admin[c].row.name IN
  /\ admin[c].at = "repo"
  /\ \/ /\ n \notin repos /\ repos' = repos \cup {n}
        /\ admin' = [admin EXCEPT ![c].at = "ports", ![c].row.repo = n]
     \/ Returns(c) /\ UNCHANGED repos
     \/ Goes(c, "ports") /\ UNCHANGED repos
  /\ UNCHANGED <<project, typed, tree, requests, judged, calls>>

\* MAX + 1 over the rows there are; both ports move together.
AllocatePorts(c) ==
  LET port == 1 + IF Rows = {} THEN 0 ELSE CHOOSE m \in {project[p].port : p \in Rows} :
                                             \A p \in Rows : project[p].port <= m IN
  /\ admin[c].at = "ports"
  /\ IF port > MaxPort THEN Returns(c)
     ELSE admin' = [admin EXCEPT ![c].at = "insert", ![c].row.port = port]
  /\ UNCHANGED <<project, repos, typed, tree, requests, judged, calls>>

\* Mutant: without the unique index on the ports.
InsertAnyPort(c) ==
  /\ admin[c].at = "insert"
  /\ \E p \in Projects :
       /\ Fresh(p)
       /\ project' = [project EXCEPT ![p] = admin[c].row]
       /\ admin' = [admin EXCEPT ![c].at = "scaffold", ![c].id = p]
  /\ UNCHANGED <<repos, typed, tree, requests, judged, calls>>

\* The unique index turns the slower of two overlapping creations into a 500.
Insert(c) ==
  /\ admin[c].at = "insert"
  /\ IF \E q \in Rows : project[q].port = admin[c].row.port
     THEN Returns(c) /\ UNCHANGED project
     ELSE \E p \in Projects :
            /\ Fresh(p)
            /\ project' = [project EXCEPT ![p] = admin[c].row]
            /\ admin' = [admin EXCEPT ![c].at = "scaffold", ![c].id = p]
  /\ UNCHANGED <<repos, typed, tree, requests, judged, calls>>

\* Existing files are skipped, then the template is committed to whatever
\* repository the row has; a failure of either is only reported.
Scaffold(c) ==
  LET n == admin[c].row.name IN
  /\ admin[c].at = "scaffold"
  /\ tree' \in {tree, [tree EXCEPT ![n] = IF @ = Nobody THEN admin[c].id ELSE @]}
  /\ Returns(c)
  /\ UNCHANGED <<project, repos, typed, requests, judged, calls>>

(***************************************************************************)
(* PATCH and the repository backfill: the whole row goes back              *)
(***************************************************************************)
\* A rename is checked against the active names; archiving, unarchiving and
\* another repository, or none, are taken as they come.  One change a call.
Update(c) ==
  /\ Starts(c)
  /\ \E p \in Rows :
       LET read == [project[p] EXCEPT !.port = 0] IN
       \E row \in {[read EXCEPT !.name = n] : n \in Names}
                   \cup {[read EXCEPT !.status = s] : s \in {"active", "archived"}}
                   \cup {[read EXCEPT !.repo = link] : link \in Names \cup {Nobody}} :
         /\ IF row.repo = read.repo THEN UNCHANGED typed ELSE Types(row.repo)
         /\ admin' = [admin EXCEPT ![c] = [at |-> IF row.name = read.name THEN "write" ELSE "check",
                                           id |-> p, row |-> row]]
  /\ UNCHANGED <<project, repos, tree, requests, judged>>

CheckName(c) ==
  /\ admin[c].at = "check"
  /\ IF \E q \in Rows \ {admin[c].id} : project[q].status = "active" /\ project[q].name = admin[c].row.name
     THEN Returns(c) ELSE Goes(c, "write")
  /\ UNCHANGED <<project, repos, typed, tree, requests, judged, calls>>

\* Mutant: the row is put back with INSERT OR REPLACE.
ReplaceRow(c) ==
  /\ admin[c].at = "write"
  /\ project' = [project EXCEPT ![admin[c].id] = admin[c].row]
  /\ Returns(c)
  /\ UNCHANGED <<repos, typed, tree, requests, judged, calls>>

\* update_project writes neither ports nor deploy state, and finds no deleted row.
WriteRow(c) ==
  LET p == admin[c].id IN
  /\ admin[c].at = "write"
  /\ project' = IF p \in Rows
                THEN [project EXCEPT ![p] = [admin[c].row EXCEPT !.port = project[p].port]]
                ELSE project
  /\ Returns(c)
  /\ UNCHANGED <<repos, typed, tree, requests, judged, calls>>

Backfill(c) ==
  /\ Starts(c)
  /\ \E p \in Rows : /\ project[p].repo = Nobody
                     /\ admin' = [admin EXCEPT ![c] = [at |-> "backfill", id |-> p,
                                                         row |-> [project[p] EXCEPT !.port = 0]]]
  /\ UNCHANGED <<project, repos, typed, tree, requests, judged>>

\* Mutant: GitHub's 422 for a name that is taken counts as success.
BackfillAnyRepo(c) ==
  LET n == admin[c].row.name IN
  /\ admin[c].at = "backfill"
  /\ repos' = repos \cup {n}
  /\ admin' = [admin EXCEPT ![c].at = "write", ![c].row.repo = n]
  /\ UNCHANGED <<project, typed, tree, requests, judged, calls>>

BackfillRepo(c) ==
  LET n == admin[c].row.name IN
  /\ admin[c].at = "backfill"
  /\ \/ /\ n \notin repos /\ repos' = repos \cup {n}
        /\ admin' = [admin EXCEPT ![c].at = "write", ![c].row.repo = n]
     \/ Returns(c) /\ UNCHANGED repos
  /\ UNCHANGED <<project, typed, tree, requests, judged, calls>>

(***************************************************************************)
(* Deletion                                                                *)
(***************************************************************************)
\* Without cascade a project that owns requests is refused.
Delete(c) ==
  /\ Starts(c)
  /\ \E p \in Rows, cascade \in BOOLEAN :
       /\ p \in requests => cascade
       /\ admin' = [admin EXCEPT ![c] = [at |-> IF p \in requests THEN "requests" ELSE "row",
                                         id |-> p, row |-> [NoRow EXCEPT !.name = project[p].name]]]
  /\ UNCHANGED <<project, repos, typed, tree, requests, judged>>

\* One request after the other; one that cannot be deleted is left an orphan.
DeleteRequests(c) ==
  /\ admin[c].at = "requests"
  /\ requests' \in {requests, requests \ {admin[c].id}}
  /\ Goes(c, "row")
  /\ UNCHANGED <<project, repos, typed, tree, judged, calls>>

\* Foreign keys are on and deploy decisions refer to the row: then it raises.
DeleteRow(c) ==
  LET p == admin[c].id IN
  /\ admin[c].at = "row"
  /\ IF p \in judged THEN Returns(c) /\ UNCHANGED project
     ELSE /\ project' = [project EXCEPT ![p].status = "deleted"]
          /\ Goes(c, "tree")
  /\ UNCHANGED <<repos, typed, tree, requests, judged, calls>>

\* By the name that was read, after the event, whatever else bears it by now.
DeleteTree(c) ==
  /\ admin[c].at = "tree"
  /\ tree' \in {tree, [tree EXCEPT ![admin[c].row.name] = Nobody]}
  /\ Returns(c)
  /\ UNCHANGED <<project, repos, typed, requests, judged, calls>>

\* Elsewhere a request is submitted for the project, or its drift is judged.
Used(p) ==
  /\ p \in Rows
  /\ \/ p \notin requests /\ requests' = requests \cup {p} /\ UNCHANGED judged
     \/ p \notin judged /\ judged' = judged \cup {p} /\ UNCHANGED requests
  /\ UNCHANGED <<project, admin, repos, typed, tree, calls>>

Next ==
  \/ \E c \in Callers :
       \/ Create(c) \/ CreateRepo(c) \/ AllocatePorts(c) \/ Insert(c) \/ Scaffold(c)
       \/ Update(c) \/ CheckName(c) \/ WriteRow(c) \/ Backfill(c) \/ BackfillRepo(c)
       \/ Delete(c) \/ DeleteRequests(c) \/ DeleteRow(c) \/ DeleteTree(c)
  \/ \E p \in Projects : Used(p)

Spec == Init /\ [][Next]_adminVars

(***************************************************************************)
(* Properties                                                              *)
(***************************************************************************)
\* However creations, updates and backfills overlap, no two projects are given
\* the same ports, and a repository that was made for one is linked from another
\* only after a user typed its address: an address pasted into a creation or
\* patched into a row is taken as it comes.
ProjectsAreApart ==
  \A p, q \in Rows : p # q =>
    /\ project[p].port # project[q].port
    /\ project[p].repo = project[q].repo => project[p].repo \in typed \cup {Nobody}

\* The first push is "skipped ... when: No repo was created (user pasted their
\* own URL, or token unset)": the template is committed to no repository but one
\* that this platform has made.  The code does not keep it: a pasted address is the
\* row's repository (projects.py:269, 412).  No run checks it.
PastedRepoIsSkipped ==
  \A c \in Callers : admin[c].at = "scaffold" => admin[c].row.repo \in repos \cup {Nobody}

\* A deleted project stays deleted, whichever late write of an older reading
\* arrives, and nothing ever gives a row other ports.
DeletedStays ==
  [][\A p \in Projects : project[p].status # "unused" =>
       /\ project'[p].port = project[p].port
       /\ project[p].status = "deleted" => project'[p].status = "deleted"]_adminVars

\* delete_project ("Hard-delete a project. With ?cascade=true ... this also
\* wipes every Request the project owns"): a deletion that has come to the row
\* removes it, so that no requests were wiped for nothing.  The code does not keep
\* it: deploy decisions refer to the row.  No run checks it.
DeleteIsWhole ==
  [][\A c \in Callers : admin[c].at = "row" /\ admin'[c].at # "row"
       => project'[admin[c].id].status = "deleted"]_adminVars

=============================================================================
