--------------------------- MODULE MCReportingCase ---------------------------
(* Small instances of ReportingCase. *)
EXTENDS ReportingCase, TLC

CONSTANTS owner, expert

MCMembers == {owner, expert}
MCExperts == {expert}
OneSettings == <<"a">>
ThreeSettings == <<"a", "a", "b">>
Symmetric == Permutations(Items)
=============================================================================
