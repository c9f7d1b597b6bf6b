------------------------- MODULE MCRequestLifecycle -------------------------
(***************************************************************************)
(* Small instances of RequestLifecycle for TLC.                            *)
(***************************************************************************)
EXTENDS RequestLifecycle, TLC

CONSTANTS r1, c1, c2, w1, w2

OneRequest == {r1}
TwoClients == {c1, c2}
OneWorker == {w1}
TwoWorkers == {w1, w2}

=============================================================================
