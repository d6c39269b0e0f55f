--------------------------- MODULE MCClarification ---------------------------
(* Small instances of Clarification. *)
EXTENDS Clarification

CONSTANTS owner

MCOwner == {owner}
NoExperts == {}
TwoSettings == <<"a", "a">>
TwoLimits == <<[cycle |-> 1, overall |-> 2, enabled |-> TRUE],
               [cycle |-> 2, overall |-> 2, enabled |-> TRUE]>>

Symmetric == Permutations(EventCommands) \cup Permutations(CycleCommands)
=============================================================================
