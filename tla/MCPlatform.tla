------------------------------- MODULE MCPlatform ------------------------------
(***************************************************************************)
(* The small instance of Platform that TLC explores, part by part.         *)
(***************************************************************************)
EXTENDS Platform, MCRequestLifecycle

CONSTANTS u1, u2, o1

TwoUsers == {u1, u2}
OneOperator == {o1}
================================================================================
