----------------------------- MODULE MCReceiver -----------------------------
(* A small instance of Receiver: two processes, and an owner who approves a *)
(* single call or an analysis of two calls with its design.                 *)
EXTENDS Receiver, TLC

Calls(stage, n) == [stage |-> stage, attempts |-> n]
MCPlans == {<<Calls(Analysis, 1)>>, <<Calls(Design, 1)>>,
            <<Calls(Analysis, 1), Calls(Design, 2)>>}
Symmetric == Permutations(Requests) \cup Permutations(Keys)
=============================================================================
