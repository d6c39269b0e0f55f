--------------------------- MODULE MCTenantSettings ---------------------------
(* A small instance of TenantSettings: two profiles with credentials, the   *)
(* Foundry profile and a keyring that may lose its first key.               *)
EXTENDS TenantSettings, TLC

Symmetric == Permutations(Profiles)
=============================================================================
