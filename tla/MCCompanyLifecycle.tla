------------------------- MODULE MCCompanyLifecycle -------------------------
(* A small instance of CompanyLifecycle: a founder, a person who is invited *)
(* or founds a company, and a namesake of that person at another provider.  *)
EXTENDS CompanyLifecycle, TLC

CONSTANTS s1, s2, s3

Person(profile, subject) == [profile |-> profile, subject |-> subject]
MCFounder == Person("entra", "ann")
MCIdentities == {MCFounder, Person("entra", "bob"), Person("other", "bob")}
MCSessions == {s1, s2, s3}
MCSessionOf == s1 :> MCFounder @@ s2 :> Person("entra", "bob") @@ s3 :> Person("other", "bob")
MCRoles == {"COMPANY_ADMIN"}
Symmetric == Permutations(Requests) \cup Permutations(Invitations)
=============================================================================
