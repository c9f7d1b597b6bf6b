----------------------------- MODULE MCAgentLoop -------------------------------
(***************************************************************************)
(* Two invocations of one agent, for projects or for the platform.         *)
(***************************************************************************)
EXTENDS AgentLoop, TLC

CONSTANTS c1, c2

TwoCalls == {c1, c2}
TwoModels == {"opus", "gpt"}

Sym == Permutations(TwoCalls)

================================================================================
