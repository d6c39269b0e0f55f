------------------------------ MODULE MCSignIn ------------------------------
(***************************************************************************)
(* Two browsers, two people, two logins, two callbacks and a logout: a     *)
(* person may sign in again in a browser that has a session, two people    *)
(* may use one browser, a callback may be repeated or opened in the other  *)
(* browser, and a logout may be answered after a later sign-in.            *)
(***************************************************************************)
EXTENDS SignIn, TLC

CONSTANTS b1, b2, ann, bob, t1, t2, k1, k2, l1, v0, v1, v2

Configured == {[profile |-> "local-test", version |-> v0],
               [profile |-> "entra", version |-> v1],
               [profile |-> "entra", version |-> v2]}

Symmetric ==
    Permutations(Browsers) \cup Permutations(People)
    \cup Permutations(Transactions) \cup Permutations(Callbacks)
    \cup Permutations({v1, v2})
=============================================================================
