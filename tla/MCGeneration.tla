----------------------------- MODULE MCGeneration -----------------------------
(* Small instances of Generation. *)
EXTENDS Generation, TLC

CONSTANTS owner, expert

MCMembers == {owner, expert}
MCOwner == {owner}
MCExperts == {expert}
NoExperts == {}
OneSettings == <<"a">>
TwoSettings == <<"a", "b">>

Symmetric == Permutations(Workers) \cup Permutations(BuildCommands)
=============================================================================
