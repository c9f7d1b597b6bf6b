--------------------------- MODULE MCTaskDispatch ---------------------------
(***************************************************************************)
(* Small instances of TaskDispatch for TLC: a task that joins two others,  *)
(* one of which depends on the third.                                      *)
(***************************************************************************)
EXTENDS TaskDispatch, TLC

CONSTANTS a, b, c, r1, r2, u, w

ThreeTasks == {a, b, c}
Triangle == (a :> {}) @@ (b :> {a}) @@ (c :> {a, b})
TwoRequests == {r1, r2}
OneUser == {u}
TwoUsers == {u, w}
OneOrAll == {{a}, {a, b, c}}

=============================================================================
