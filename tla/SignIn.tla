------------------------------- MODULE SignIn -------------------------------
(***************************************************************************)
(* Sign-in through an OpenID provider.  A login leaves a transaction in    *)
(* the database and a binding cookie in the browser; the provider sends    *)
(* the browser back with a code; the callback consumes the transaction and *)
(* commits, and only then exchanges the code, binds the person to an       *)
(* identity and makes a session, in a second transaction of the database.  *)
(*                                                                         *)
(* A browser may send a callback twice, have several logins open, open the *)
(* answer of a login that another browser began, sign out meanwhile, or    *)
(* lose a response.  A request carries the cookies the browser had when it *)
(* sent it, and its response changes whatever cookies the browser has when *)
(* it arrives: between the two the request commits, and others may too.  A *)
(* code and the token it is exchanged for name the transaction by its PKCE *)
(* challenge and its nonce, so here by the transaction itself.             *)
(*                                                                         *)
(* With the profile LocalProfile the API is its own provider               *)
(* (development and test): its codes are rows of the same database, and    *)
(* the consumption of one commits with the session.                        *)
(***************************************************************************)
EXTENDS Integers, FiniteSets

CONSTANTS
    Browsers,
    People,        \* subjects of the provider
    Transactions,  \* bound: logins
    Callbacks,     \* bound: callback requests; each names the session it makes
    Logouts,       \* bound: logout requests
    Deployments,   \* records [profile, version]: configurations of the provider
    LocalProfile,  \* the profile of development and test
    Legacy,        \* the profile of identities older than profiles
    MaxFaults,     \* bound: exchanges, responses and processes lost, deployments
                   \* and changes of the provider's signing key
    None

ASSUME SignInAssumption ==
    /\ Legacy \notin {d.profile : d \in Deployments}
    /\ None \notin Transactions \cup Callbacks \cup Browsers
    /\ MaxFaults \in Nat

VARIABLES
    deployed,     \* the configuration the API runs with
    transaction,  \* auth_transactions
    code,         \* what the provider has answered to each transaction
    identities,   \* external_identities; the callback that inserted each, or None
    session,      \* application_sessions, by the callback that made each
    binding,      \* binding cookie of each browser
    cookie,       \* session cookie of each browser
    callback,     \* the callback requests
    logout,       \* the logout requests
    signingKey,   \* the key the provider signs with, the only one it publishes
    jwks,         \* the key in the cache of the API; 0 when empty or out of date
    faults        \* number of faults

signInVars == <<deployed, transaction, code, identities, session, binding, cookie,
                callback, logout, signingKey, jwks, faults>>

Profiles == {d.profile : d \in Deployments} \cup {Legacy}

AuthTransaction ==
    [browser: Browsers, deployment: Deployments, consumed: BOOLEAN, expired: BOOLEAN]
Code == [person: People, used: BOOLEAN]
Identity ==
    [profile: Profiles, person: People, active: BOOLEAN, by: Callbacks \cup {None}]
Session == [identity: Identity, profile: Profiles, revoked: BOOLEAN]

\* The stages of a callback: sent by the browser, the transaction consumed,
\* the code exchanged, the identity found or inserted, the session committed,
\* its response at the browser; or the provider's error is committed.
Stage == {"sent", "burned", "authenticated", "resolved", "committed", "answered",
          "cancelled", "refused", "lost"}
InDatabase == {"authenticated", "resolved"}
Running == {"burned", "committed"} \cup InDatabase
InFlight == {"sent"} \cup Running

\* bound: it carries the binding cookie of its transaction.  prior: the session
\* it was sent with.  No code: the provider answered with an error.  crossed:
\* the other requests of the browser in flight when its response arrived.
Callback ==
    [stage: Stage, browser: Browsers, transaction: Transactions,
     code: Transactions \cup {None}, bound: BOOLEAN, person: People \cup {None},
     identity: Identity \cup {None}, prior: Callbacks \cup {None},
     crossed: SUBSET (Callbacks \cup Logouts)]

\* A logout is sent with a session, ends it, and is answered.
Logout == [stage: {"sent", "done", "answered"}, browser: Browsers, session: Callbacks]

SignInTypeOK ==
    /\ deployed \in Deployments
    /\ transaction \in [Transactions -> AuthTransaction \cup {None}]
    /\ code \in [Transactions -> Code \cup {None}]
    /\ identities \subseteq Identity
    /\ session \in [Callbacks -> Session \cup {None}]
    /\ binding \in [Browsers -> Transactions \cup {None}]
    /\ cookie \in [Browsers -> Callbacks \cup {None}]
    /\ callback \in [Callbacks -> Callback \cup {None}]
    /\ logout \in [Logouts -> Logout \cup {None}]
    /\ signingKey \in Nat \ {0}
    /\ jwks \in Nat
    /\ faults \in 0..MaxFaults

ASSUME NoneAssumption ==
    None \notin AuthTransaction \cup Code \cup Identity \cup Session \cup Callback \cup Logout

\* Identities may be left from before profiles, and one may be inactive.
SignInInit ==
    /\ deployed \in Deployments
    /\ transaction = [t \in Transactions |-> None]
    /\ code = [t \in Transactions |-> None]
    /\ identities \in {{}} \cup
         {{[profile |-> p, person |-> s, active |-> a, by |-> None]} :
            p \in {Legacy, deployed.profile}, s \in People, a \in BOOLEAN}
    /\ session = [k \in Callbacks |-> None]
    /\ binding = [b \in Browsers |-> None]
    /\ cookie = [b \in Browsers |-> None]
    /\ callback = [k \in Callbacks |-> None]
    /\ logout = [l \in Logouts |-> None]
    /\ signingKey = 1 /\ jwks = 0
    /\ faults = 0

-----------------------------------------------------------------------------
(* The login and the provider's answer.                                     *)

\* The binding cookie of a login replaces that of the one before.
Login(b, t) ==
    /\ transaction[t] = None
    /\ transaction' = [transaction EXCEPT ![t] =
            [browser |-> b, deployment |-> deployed, consumed |-> FALSE,
             expired |-> FALSE]]
    /\ binding' = [binding EXCEPT ![b] = t]
    /\ UNCHANGED <<deployed, code, identities, session, cookie, callback, logout,
                   signingKey, jwks, faults>>

Authorize(t, s) ==
    /\ transaction[t] # None
    /\ code[t] = None
    /\ code' = [code EXCEPT ![t] = [person |-> s, used |-> FALSE]]
    /\ UNCHANGED <<deployed, transaction, identities, session, binding, cookie,
                   callback, logout, signingKey, jwks, faults>>

-----------------------------------------------------------------------------
(* The callback: its first transaction.                                     *)

\* A wrong variant of IsBound, as those that follow, which no specification
\* uses: any login of the browser will do.
BindingPresent(b, t) == binding[b] # None

IsBound(b, t) == binding[b] = t

\* Browser b opens an answer to transaction t, with the code of transaction c
\* or with an error.
Send(k, b, t, c) ==
    /\ callback[k] = None
    /\ transaction[t] # None
    /\ \/ c # None /\ code[c] # None
       \/ c = None /\ code[t] = None
    /\ callback' = [callback EXCEPT ![k] =
            [stage |-> "sent", browser |-> b, transaction |-> t, code |-> c,
             bound |-> IsBound(b, t), person |-> None, identity |-> None,
             prior |-> cookie[b], crossed |-> {}]]
    /\ UNCHANGED <<deployed, transaction, code, identities, session, binding, cookie,
                   logout, signingKey, jwks, faults>>

At(k, stage) == callback[k] # None /\ callback[k].stage = stage

\* The reasons to refuse: the binding, a use before, the expiry, a
\* configuration of the provider that changed.
Admissible(k) ==
    LET t == transaction[callback[k].transaction] IN
    /\ callback[k].bound
    /\ ~t.consumed
    /\ ~t.expired
    /\ t.deployment = deployed

Consume(k) ==
    transaction' = [transaction EXCEPT ![callback[k].transaction].consumed = TRUE]

\* A callback that is refused consumes the transaction as well.
RefuseCallback(k) ==
    /\ At(k, "sent")
    /\ ~Admissible(k)
    /\ Consume(k)
    /\ callback' = [callback EXCEPT ![k].stage = "refused"]
    /\ UNCHANGED <<deployed, code, identities, session, binding, cookie, logout,
                   signingKey, jwks, faults>>

ProviderError(k) ==
    /\ At(k, "sent")
    /\ callback[k].code = None
    /\ Admissible(k)
    /\ Consume(k)
    /\ callback' = [callback EXCEPT ![k].stage = "cancelled"]
    /\ UNCHANGED <<deployed, code, identities, session, binding, cookie, logout,
                   signingKey, jwks, faults>>

\* The response to an error deletes the binding cookie, of whatever login.
RespondError(k) ==
    /\ At(k, "cancelled")
    /\ binding' = [binding EXCEPT ![callback[k].browser] = None]
    /\ callback' = [callback EXCEPT ![k].stage = "refused"]
    /\ UNCHANGED <<deployed, transaction, code, identities, session, cookie, logout,
                   signingKey, jwks, faults>>

BurnState(k) ==
    /\ At(k, "sent")
    /\ callback[k].code # None
    /\ Admissible(k)
    /\ Consume(k)
    /\ callback' = [callback EXCEPT ![k].stage = "burned"]
    /\ UNCHANGED <<deployed, code, identities, session, binding, cookie, logout,
                   signingKey, jwks, faults>>

-----------------------------------------------------------------------------
(* The callback: the exchange, and its second transaction.                  *)

ProfileOf(k) == transaction[callback[k].transaction].deployment.profile

IsLocal(k) == ProfileOf(k) = LocalProfile

\* The cache after _key has looked for the key that signed a token: it is
\* read again when the key is not in it.
KeysFor(k) == IF IsLocal(k) \/ jwks = signingKey THEN jwks ELSE signingKey

Verifies(k) == IsLocal(k) \/ KeysFor(k) = signingKey

\* The code is good if it and its token are of this login and it is unused.
GoodCode(k) ==
    /\ callback[k].code = callback[k].transaction
    /\ ~code[callback[k].code].used

Spend(k) ==
    code' = IF GoodCode(k) THEN [code EXCEPT ![callback[k].code].used = TRUE] ELSE code

Exchange(k) ==
    /\ At(k, "burned")
    /\ GoodCode(k)
    /\ Verifies(k)
    /\ Spend(k)
    /\ jwks' = KeysFor(k)
    /\ callback' = [callback EXCEPT ![k].stage = "authenticated",
                                    ![k].person = code[callback[k].code].person]
    /\ UNCHANGED <<deployed, transaction, identities, session, binding, cookie,
                   logout, signingKey, faults>>

\* A code that is not good, or a token that does not verify.
RefuseExchange(k) ==
    /\ At(k, "burned")
    /\ ~(GoodCode(k) /\ Verifies(k))
    /\ Spend(k)
    /\ jwks' = jwks
    /\ callback' = [callback EXCEPT ![k].stage = "refused"]
    /\ UNCHANGED <<deployed, transaction, identities, session, binding, cookie,
                   logout, signingKey, faults>>

\* The provider or its answer does not arrive, whether or not it has spent
\* the code, which is never sent again.
ExchangeFails(k) ==
    /\ At(k, "burned")
    /\ ~IsLocal(k)
    /\ faults < MaxFaults
    /\ code' \in {code, [code EXCEPT ![callback[k].code].used = TRUE]}
    /\ callback' = [callback EXCEPT ![k].stage = "lost"]
    /\ faults' = faults + 1
    /\ UNCHANGED <<deployed, transaction, identities, session, binding, cookie,
                   logout, signingKey, jwks>>

\* The committed row of the person, which for the local profile may be an
\* identity older than profiles.
RowsOf(profile, person) ==
    {i \in identities : i.profile = profile /\ i.person = person}

Known(k) ==
    LET own == RowsOf(ProfileOf(k), callback[k].person) IN
    IF own = {} /\ IsLocal(k) THEN RowsOf(Legacy, callback[k].person) ELSE own

\* Another callback has inserted the row and not committed: ON CONFLICT DO
\* NOTHING waits for its transaction to end.
InsertWaits(k) ==
    \E j \in Callbacks \ {k} :
        /\ At(j, "resolved")
        /\ callback[j].identity.by = j
        /\ callback[j].identity.profile = ProfileOf(k)
        /\ callback[j].identity.person = callback[k].person

\* A wrong variant of NewIdentity: the row is written before its subject.
NewIdentityWithoutSubject(k) ==
    [profile |-> ProfileOf(k), person |-> None, active |-> TRUE, by |-> k]

NewIdentity(k) ==
    [profile |-> ProfileOf(k), person |-> callback[k].person, active |-> TRUE, by |-> k]

\* The rows that resolve_external_identity may return.
Resolution(k) == IF Known(k) # {} THEN Known(k) ELSE {NewIdentity(k)}

CanResolve(k) == Known(k) # {} \/ ~InsertWaits(k)

Resolve(k) ==
    /\ At(k, "authenticated")
    /\ CanResolve(k)
    /\ \E i \in Resolution(k) :
         /\ i.active
         /\ callback' = [callback EXCEPT ![k].stage = "resolved", ![k].identity = i]
    /\ UNCHANGED <<deployed, transaction, code, identities, session, binding,
                   cookie, logout, signingKey, jwks, faults>>

RefuseIdentity(k) ==
    /\ At(k, "authenticated")
    /\ \E i \in Known(k) : ~i.active
    /\ callback' = [callback EXCEPT ![k].stage = "refused"]
    /\ UNCHANGED <<deployed, transaction, code, identities, session, binding,
                   cookie, logout, signingKey, jwks, faults>>

\* A wrong variant of Rotated: a sign-in replaces only sessions of its own
\* identity.
RotatesOwnIdentity(k) ==
    {j \in Callbacks : /\ callback[k].prior = j
                       /\ session[j] # None
                       /\ ~session[j].revoked
                       /\ session[j].identity = callback[k].identity}

\* The session the browser sent with the callback, if it is not revoked yet.
Rotated(k) ==
    {j \in Callbacks : callback[k].prior = j /\ session[j] # None /\ ~session[j].revoked}

CommitSession(k) ==
    /\ At(k, "resolved")
    /\ identities' = identities \cup {callback[k].identity}
    /\ session' = [j \in Callbacks |->
            IF j = k
            THEN [identity |-> callback[k].identity, profile |-> ProfileOf(k),
                  revoked |-> FALSE]
            ELSE IF j \in Rotated(k) THEN [session[j] EXCEPT !.revoked = TRUE]
            ELSE session[j]]
    /\ callback' = [callback EXCEPT ![k].stage = "committed"]
    /\ UNCHANGED <<deployed, transaction, code, binding, cookie, logout,
                   signingKey, jwks, faults>>

\* The other requests of browser b that it has sent and that are not answered.
InFlightOf(b, k) ==
    {j \in Callbacks \ {k} : /\ callback[j] # None
                             /\ callback[j].browser = b
                             /\ callback[j].stage \in InFlight}
    \cup {l \in Logouts : /\ logout[l] # None
                          /\ logout[l].browser = b
                          /\ logout[l].stage # "answered"}

\* The response sets the session cookie and deletes the binding cookie, also
\* one that a later login has set.
Respond(k) ==
    LET b == callback[k].browser IN
    /\ At(k, "committed")
    /\ cookie' = [cookie EXCEPT ![b] = k]
    /\ binding' = [binding EXCEPT ![b] = None]
    /\ callback' = [callback EXCEPT ![k].stage = "answered",
                                    ![k].crossed = InFlightOf(b, k)]
    /\ UNCHANGED <<deployed, transaction, code, identities, session, logout, signingKey,
                   jwks, faults>>

\* The process stops or the response is lost.  What the second transaction
\* has written before its commit is gone, a local code's use included.
Stops(k) ==
    /\ callback[k] # None
    /\ callback[k].stage \in Running
    /\ faults < MaxFaults
    /\ faults' = faults + 1
    /\ code' = IF IsLocal(k) /\ callback[k].stage \in InDatabase
               THEN [code EXCEPT ![callback[k].code].used = FALSE]
               ELSE code
    /\ callback' = [callback EXCEPT ![k].stage = "lost"]
    /\ UNCHANGED <<deployed, transaction, identities, session, binding, cookie,
                   logout, signingKey, jwks>>

-----------------------------------------------------------------------------
(* The logout.  A request or a response that is lost stays where it is.     *)

SendLogout(l, b) ==
    /\ logout[l] = None
    /\ cookie[b] # None
    /\ logout' = [logout EXCEPT ![l] =
            [stage |-> "sent", browser |-> b, session |-> cookie[b]]]
    /\ UNCHANGED <<deployed, transaction, code, identities, session, binding, cookie,
                   callback, signingKey, jwks, faults>>

LogoutAt(l, stage) == logout[l] # None /\ logout[l].stage = stage

\* A session that another request has ended is let be.
CommitLogout(l) ==
    /\ LogoutAt(l, "sent")
    /\ session' = [session EXCEPT ![logout[l].session].revoked = TRUE]
    /\ logout' = [logout EXCEPT ![l].stage = "done"]
    /\ UNCHANGED <<deployed, transaction, code, identities, binding, cookie, callback,
                   signingKey, jwks, faults>>

\* The response deletes the session cookie, whichever session it names by now.
AnswerLogout(l) ==
    /\ LogoutAt(l, "done")
    /\ cookie' = [cookie EXCEPT ![logout[l].browser] = None]
    /\ logout' = [logout EXCEPT ![l].stage = "answered"]
    /\ UNCHANGED <<deployed, transaction, code, identities, session, binding, callback,
                   signingKey, jwks, faults>>

-----------------------------------------------------------------------------
(* What happens besides.                                                    *)

TransactionExpires(t) ==
    /\ transaction[t] # None
    /\ ~transaction[t].expired
    /\ transaction' = [transaction EXCEPT ![t].expired = TRUE]
    /\ UNCHANGED <<deployed, code, identities, session, binding, cookie, callback,
                   logout, signingKey, jwks, faults>>

\* Callbacks in flight are finished by the processes of the old deployment.
Deploy(d) ==
    /\ d # deployed
    /\ (d.profile = LocalProfile) = (deployed.profile = LocalProfile)
    /\ faults < MaxFaults
    /\ faults' = faults + 1
    /\ deployed' = d
    /\ jwks' = 0
    /\ UNCHANGED <<transaction, code, identities, session, binding, cookie,
                   callback, logout, signingKey>>

ProviderRotatesKey ==
    /\ faults < MaxFaults
    /\ faults' = faults + 1
    /\ signingKey' = signingKey + 1
    /\ UNCHANGED <<deployed, transaction, code, identities, session, binding,
                   cookie, callback, logout, jwks>>

\* Five minutes after it was read.
CacheExpires ==
    /\ jwks # 0
    /\ jwks' = 0
    /\ UNCHANGED <<deployed, transaction, code, identities, session, binding,
                   cookie, callback, logout, signingKey, faults>>

CallbackStep(k) ==
    \/ \E b \in Browsers, t \in Transactions, c \in Transactions \cup {None} :
         Send(k, b, t, c)
    \/ RefuseCallback(k)
    \/ ProviderError(k)
    \/ RespondError(k)
    \/ BurnState(k)
    \/ Exchange(k)
    \/ RefuseExchange(k)
    \/ ExchangeFails(k)
    \/ Resolve(k)
    \/ RefuseIdentity(k)
    \/ CommitSession(k)
    \/ Respond(k)
    \/ Stops(k)

LogoutStep(l) ==
    \/ \E b \in Browsers : SendLogout(l, b)
    \/ CommitLogout(l)
    \/ AnswerLogout(l)

SignInNext ==
    \/ \E b \in Browsers, t \in Transactions : Login(b, t)
    \/ \E t \in Transactions : TransactionExpires(t) \/ \E s \in People : Authorize(t, s)
    \/ \E k \in Callbacks : CallbackStep(k)
    \/ \E l \in Logouts : LogoutStep(l)
    \/ \E d \in Deployments : Deploy(d)
    \/ ProviderRotatesKey
    \/ CacheExpires

-----------------------------------------------------------------------------

\* A session comes from one login only, of the browser that began it, and is
\* of the person whom the provider named in its answer to that login, under
\* the profile it began with, whatever callbacks are repeated, mixed up or
\* opened elsewhere; and concurrent first sign-ins of a person bind one
\* identity, which is committed before a session speaks for it.
SessionsAnswerTheirLogin ==
    /\ \A k \in Callbacks : session[k] # None =>
         LET t == callback[k].transaction IN
         /\ transaction[t].browser = callback[k].browser
         /\ session[k].identity \in identities
         /\ session[k].identity.person = code[t].person
         /\ session[k].profile = transaction[t].deployment.profile
         /\ \A j \in Callbacks \ {k} :
              session[j] # None => callback[j].transaction # t
    /\ \A i, j \in identities :
         i.profile = j.profile /\ i.person = j.person => i = j

\* The response to a callback or a logout has arrived.
Answered(r) ==
    \/ r \in Callbacks /\ At(r, "answered")
    \/ r \in Logouts /\ LogoutAt(r, "answered")

\* A session that can still be used is in its browser or in a response to it,
\* with two exceptions: its response was lost, or a request of the browser sent
\* before that response arrived (a callback, a repeated one included, or a
\* logout) was answered after it, and replaced or deleted a cookie it had not
\* been sent with.  So a sign-in or a logout that the browser sends with a
\* session always ends it.
LiveSessionsAreHeld ==
    \A k \in Callbacks : session[k] # None /\ ~session[k].revoked =>
        \/ cookie[callback[k].browser] = k
        \/ callback[k].stage \in {"committed", "lost"}
        \/ \E r \in callback[k].crossed : Answered(r)

SignInSpec == SignInInit /\ [][SignInNext]_signInVars
=============================================================================
