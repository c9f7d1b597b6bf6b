--------------------------- MODULE MCProposalGate ---------------------------
(***************************************************************************)
(* Instances of the approval gate for TLC.                                 *)
(***************************************************************************)
EXTENDS ProposalGate, TLC

CONSTANTS p1, p2, w1, w2, s1, s2, k1, dispatch, generate

\* Requests, proposals and workers are interchangeable.
Symmetry == Permutations(Proposals) \cup Permutations(Slots) \cup Permutations(Workers)

=============================================================================
