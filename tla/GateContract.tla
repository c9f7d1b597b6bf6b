---------------------------- MODULE GateContract ----------------------------
(***************************************************************************)
(* What the approval gate promises, without requests, tokens, sweepers or  *)
(* crashes: an item is proposed, then refused or approved; its action may  *)
(* take effect once, while the item is approved; a closed item is closed   *)
(* for good.                                                               *)
(***************************************************************************)
EXTENDS Naturals

CONSTANT Items

VARIABLES
  stage,  \* "none", "open", "approved" or "closed"
  ran     \* how often the item's action has taken effect

vars == <<stage, ran>>

Init ==
  /\ stage = [i \in Items |-> "none"]
  /\ ran = [i \in Items |-> 0]

Move(i, from, to) ==
  /\ stage[i] = from
  /\ stage' = [stage EXCEPT ![i] = to]
  /\ UNCHANGED ran

Propose(i) == Move(i, "none", "open")
Refuse(i) == Move(i, "open", "closed")
Approve(i) == Move(i, "open", "approved")
Settle(i) == Move(i, "approved", "closed")

TakeEffect(i) ==
  /\ stage[i] = "approved"
  /\ ran[i] = 0
  /\ ran' = [ran EXCEPT ![i] = 1]
  /\ UNCHANGED stage

Next == \E i \in Items : Propose(i) \/ Refuse(i) \/ Approve(i) \/ Settle(i) \/ TakeEffect(i)

Spec == Init /\ [][Next]_vars

=============================================================================
