---------------------------- MODULE SignInProofs ----------------------------
(***************************************************************************)
(* Proofs that a session comes from one login of its browser and is of the *)
(* person the provider named, that a person has one identity, and that a   *)
(* session that can still be used is held by its browser.                  *)
(***************************************************************************)
EXTENDS SignIn, TLAPS

\* The binding cookie of a browser is of a login that it began.
BindingsAreOpen ==
    \A b \in Browsers : binding[b] # None =>
        /\ transaction[binding[b]] # None
        /\ transaction[binding[b]].browser = b

\* A callback that was sent is of a transaction, its browser's if it carries
\* the binding.  One that was not refused has consumed the transaction, and
\* has the person of the code and the identity of the person.
Burned(k) == callback[k] # None /\ callback[k].stage \in Running \cup {"answered", "lost"}

CallbackFits(k) ==
    LET t == callback[k].transaction
        stage == callback[k].stage
    IN  /\ transaction[t] # None
        /\ callback[k].bound => transaction[t].browser = callback[k].browser
        /\ callback[k].code # None => code[callback[k].code] # None
        /\ Burned(k) =>
             /\ callback[k].bound /\ callback[k].code # None
             /\ transaction[t].consumed
        /\ stage \in InDatabase \cup {"committed", "answered"} =>
             callback[k].code = t /\ callback[k].person = code[t].person
        /\ stage \in {"resolved", "committed", "answered"} =>
             /\ callback[k].identity # None
             /\ callback[k].identity.person = callback[k].person

CallbacksFit == \A k \in Callbacks : callback[k] # None => CallbackFits(k)

BurnedOnce ==
    \A j, k \in Callbacks :
        Burned(j) /\ Burned(k) /\ callback[j].transaction = callback[k].transaction => j = k

Sessions ==
    \A k \in Callbacks :
      /\ session[k] # None =>
           LET t == callback[k].transaction IN
           /\ callback[k] # None /\ callback[k].stage \in {"committed", "answered", "lost"}
           /\ session[k].identity \in identities
           /\ code[t] # None /\ session[k].identity.person = code[t].person
           /\ session[k].profile = transaction[t].deployment.profile
      /\ At(k, "committed") \/ At(k, "answered") => session[k] # None

OneIdentity ==
    \A i, j \in identities : i.profile = j.profile /\ i.person = j.person => i = j

\* An identity that is not committed is the only one of its person.
IsNew(k) == At(k, "resolved") /\ callback[k].identity \notin identities

NewIdentitiesAreOnly ==
    \A k \in Callbacks : IsNew(k) =>
        LET i == callback[k].identity IN
        /\ i.by = k
        /\ \A other \in identities : ~(other.profile = i.profile /\ other.person = i.person)
        /\ \A j \in Callbacks \ {k} : IsNew(j) =>
             ~(callback[j].identity.profile = i.profile /\ callback[j].identity.person = i.person)

\* A browser holds a session of its own, and a request was sent with one.
Cookies ==
    /\ \A b \in Browsers : cookie[b] # None =>
         /\ At(cookie[b], "answered")
         /\ callback[cookie[b]].browser = b
         /\ session[cookie[b]] # None
    /\ \A k \in Callbacks :
         callback[k] # None /\ callback[k].prior # None => session[callback[k].prior] # None
    /\ \A l \in Logouts : logout[l] # None => session[logout[l].session] # None

Flies(k) == callback[k] # None /\ callback[k].stage \in InFlight

Leaves(l) == logout[l] # None /\ logout[l].stage # "answered"

\* The session of a browser is the one that a request of it was sent with,
\* unless the request crossed the response that set it; and a callback that is
\* committed has replaced that session, as a logout has ended it.
PriorsAreHeld ==
    /\ \A k \in Callbacks : Flies(k) =>
         LET held == cookie[callback[k].browser] IN
         held # None => k \in callback[held].crossed \/ callback[k].prior = held
    /\ \A k \in Callbacks : At(k, "committed") /\ callback[k].prior # None =>
         session[callback[k].prior].revoked
    /\ \A l \in Logouts : Leaves(l) =>
         LET held == cookie[logout[l].browser] IN
         held # None => l \in callback[held].crossed \/ logout[l].session = held
    /\ \A l \in Logouts : LogoutAt(l, "done") => session[logout[l].session].revoked

LoginParts ==
    /\ CallbacksFit /\ BurnedOnce
    /\ Sessions
    /\ OneIdentity /\ NewIdentitiesAreOnly
    /\ Cookies
    /\ PriorsAreHeld /\ LiveSessionsAreHeld

LoginInvariant == SignInTypeOK /\ BindingsAreOpen /\ LoginParts

LEMMA LoginStart == SignInInit => LoginInvariant
<1> SUFFICES ASSUME SignInInit PROVE LoginInvariant
  OBVIOUS
<1> USE SignInAssumption, NoneAssumption DEF SignInInit
<1>1. identities \subseteq Identity
  BY DEF Identity, Profiles
<1>2. SignInTypeOK
  BY <1>1 DEF SignInTypeOK
<1>3. BindingsAreOpen /\ CallbacksFit /\ BurnedOnce /\ Sessions /\ NewIdentitiesAreOnly
  BY DEF BindingsAreOpen, CallbacksFit, BurnedOnce, Burned, Sessions,
         NewIdentitiesAreOnly, IsNew, At
<1>4. Cookies /\ PriorsAreHeld /\ LiveSessionsAreHeld
  BY DEF Cookies, Flies, Leaves, LogoutAt, PriorsAreHeld, LiveSessionsAreHeld, At
<1>5. OneIdentity
  BY DEF OneIdentity
<1> QED BY <1>2, <1>3, <1>4, <1>5 DEF LoginInvariant, LoginParts

-----------------------------------------------------------------------------
(* What a step leaves alone.                                                *)

\* Nothing that a callback has found out of its login is taken back.
Grows ==
    /\ \A t \in Transactions : transaction[t] # None =>
         /\ transaction'[t] # None
         /\ transaction'[t].browser = transaction[t].browser
         /\ transaction'[t].deployment = transaction[t].deployment
         /\ transaction[t].consumed => transaction'[t].consumed
    /\ \A t \in Transactions : code[t] # None =>
         code'[t] # None /\ code'[t].person = code[t].person
    /\ identities \subseteq identities'

\* Callback k goes on to another stage.
Becomes(k, stage, person, identity, crossed) ==
    /\ callback[k] # None /\ callback'[k] # None
    /\ callback' \in [Callbacks -> Callback \cup {None}]
    /\ callback'[k].stage = stage
    /\ callback'[k].person = person
    /\ callback'[k].identity = identity
    /\ callback'[k].browser = callback[k].browser
    /\ callback'[k].transaction = callback[k].transaction
    /\ callback'[k].code = callback[k].code
    /\ callback'[k].bound = callback[k].bound
    /\ callback'[k].prior = callback[k].prior
    /\ callback'[k].crossed = crossed
    /\ \A j \in Callbacks \ {k} : callback'[j] = callback[j]

LEMMA StageBecomes ==
  ASSUME SignInTypeOK, NEW k \in Callbacks, callback[k] # None, NEW stage \in Stage,
         callback' = [callback EXCEPT ![k].stage = stage]
  PROVE  Becomes(k, stage, callback[k].person, callback[k].identity, callback[k].crossed)
<1> DEFINE c == [callback[k] EXCEPT !.stage = stage]
<1>1. callback[k] \in Callback /\ callback' = [callback EXCEPT ![k] = c]
  BY DEF SignInTypeOK
<1>2. c \in Callback
  BY <1>1 DEF Callback
<1>3. callback'[k] = c /\ \A j \in Callbacks \ {k} : callback'[j] = callback[j]
  BY <1>1 DEF SignInTypeOK
<1>4. callback' \in [Callbacks -> Callback \cup {None}]
  BY <1>1, <1>2 DEF SignInTypeOK
<1>5. callback'[k] # None
  BY <1>2, <1>3, NoneAssumption
<1> QED BY <1>1, <1>3, <1>4, <1>5 DEF Becomes, Callback

LEMMA PersonBecomes ==
  ASSUME SignInTypeOK, NEW k \in Callbacks, callback[k] # None, NEW stage \in Stage,
         NEW person \in People,
         callback' = [callback EXCEPT ![k].stage = stage, ![k].person = person]
  PROVE  Becomes(k, stage, person, callback[k].identity, callback[k].crossed)
<1> DEFINE c == [callback[k] EXCEPT !.stage = stage, !.person = person]
<1>1. callback[k] \in Callback /\ callback' = [callback EXCEPT ![k] = c]
  BY DEF SignInTypeOK
<1>2. c \in Callback
  BY <1>1 DEF Callback
<1>3. callback'[k] = c /\ \A j \in Callbacks \ {k} : callback'[j] = callback[j]
  BY <1>1 DEF SignInTypeOK
<1>4. callback' \in [Callbacks -> Callback \cup {None}]
  BY <1>1, <1>2 DEF SignInTypeOK
<1>5. callback'[k] # None
  BY <1>2, <1>3, NoneAssumption
<1> QED BY <1>1, <1>3, <1>4, <1>5 DEF Becomes, Callback

LEMMA IdentityBecomes ==
  ASSUME SignInTypeOK, NEW k \in Callbacks, callback[k] # None, NEW stage \in Stage,
         NEW identity \in Identity,
         callback' = [callback EXCEPT ![k].stage = stage, ![k].identity = identity]
  PROVE  Becomes(k, stage, callback[k].person, identity, callback[k].crossed)
<1> DEFINE c == [callback[k] EXCEPT !.stage = stage, !.identity = identity]
<1>1. callback[k] \in Callback /\ callback' = [callback EXCEPT ![k] = c]
  BY DEF SignInTypeOK
<1>2. c \in Callback
  BY <1>1 DEF Callback
<1>3. callback'[k] = c /\ \A j \in Callbacks \ {k} : callback'[j] = callback[j]
  BY <1>1 DEF SignInTypeOK
<1>4. callback' \in [Callbacks -> Callback \cup {None}]
  BY <1>1, <1>2 DEF SignInTypeOK
<1>5. callback'[k] # None
  BY <1>2, <1>3, NoneAssumption
<1> QED BY <1>1, <1>3, <1>4, <1>5 DEF Becomes, Callback

LEMMA CrossedBecomes ==
  ASSUME SignInTypeOK, NEW k \in Callbacks, callback[k] # None, NEW stage \in Stage,
         NEW crossed \in SUBSET (Callbacks \cup Logouts),
         callback' = [callback EXCEPT ![k].stage = stage, ![k].crossed = crossed]
  PROVE  Becomes(k, stage, callback[k].person, callback[k].identity, crossed)
<1> DEFINE c == [callback[k] EXCEPT !.stage = stage, !.crossed = crossed]
<1>1. callback[k] \in Callback /\ callback' = [callback EXCEPT ![k] = c]
  BY DEF SignInTypeOK
<1>2. c \in Callback
  BY <1>1 DEF Callback
<1>3. callback'[k] = c /\ \A j \in Callbacks \ {k} : callback'[j] = callback[j]
  BY <1>1 DEF SignInTypeOK
<1>4. callback' \in [Callbacks -> Callback \cup {None}]
  BY <1>1, <1>2 DEF SignInTypeOK
<1>5. callback'[k] # None
  BY <1>2, <1>3, NoneAssumption
<1> QED BY <1>1, <1>3, <1>4, <1>5 DEF Becomes, Callback

\* A callback that the browser sends.
Sent(k, b, t, c) ==
    /\ callback[k] = None /\ callback'[k] # None
    /\ callback' \in [Callbacks -> Callback \cup {None}]
    /\ callback'[k].stage = "sent"
    /\ callback'[k].browser = b
    /\ callback'[k].transaction = t
    /\ callback'[k].code = c
    /\ callback'[k].bound = (binding[b] = t)
    /\ callback'[k].prior = cookie[b]
    /\ callback'[k].crossed = {}
    /\ \A j \in Callbacks \ {k} : callback'[j] = callback[j]

LEMMA SendIs ==
  ASSUME SignInTypeOK, NEW k \in Callbacks, NEW b \in Browsers, NEW t \in Transactions,
         NEW c \in Transactions \cup {None}, Send(k, b, t, c)
  PROVE  Sent(k, b, t, c)
<1> DEFINE r == [stage |-> "sent", browser |-> b, transaction |-> t, code |-> c,
                 bound |-> IsBound(b, t), person |-> None, identity |-> None,
                 prior |-> cookie[b], crossed |-> {}]
<1>1. r \in Callback
  BY DEF Callback, SignInTypeOK, Stage, IsBound
<1>2. callback[k] = None /\ callback' = [callback EXCEPT ![k] = r]
  BY DEF Send
<1>3. callback'[k] = r /\ \A j \in Callbacks \ {k} : callback'[j] = callback[j]
  BY <1>2 DEF SignInTypeOK
<1>4. callback' \in [Callbacks -> Callback \cup {None}]
  BY <1>1, <1>2 DEF SignInTypeOK
<1>5. callback'[k] # None
  BY <1>1, <1>3, NoneAssumption
<1> QED BY <1>2, <1>3, <1>4, <1>5 DEF Sent, IsBound

\* A logout that goes on to another stage, or is sent.
LogoutBecomes(l, stage, b, k) ==
    /\ logout'[l] # None
    /\ logout' \in [Logouts -> Logout \cup {None}]
    /\ logout'[l].stage = stage /\ logout'[l].browser = b /\ logout'[l].session = k
    /\ \A m \in Logouts \ {l} : logout'[m] = logout[m]

LEMMA LogoutIs ==
  ASSUME SignInTypeOK, NEW l \in Logouts
  PROVE  /\ \A b \in Browsers : SendLogout(l, b) => LogoutBecomes(l, "sent", b, cookie[b])
         /\ CommitLogout(l) =>
              LogoutBecomes(l, "done", logout[l].browser, logout[l].session)
         /\ AnswerLogout(l) =>
              LogoutBecomes(l, "answered", logout[l].browser, logout[l].session)
<1>1. ASSUME NEW b \in Browsers, SendLogout(l, b)
      PROVE  LogoutBecomes(l, "sent", b, cookie[b])
  <2> DEFINE r == [stage |-> "sent", browser |-> b, session |-> cookie[b]]
  <2>1. r \in Logout /\ logout' = [logout EXCEPT ![l] = r]
    BY <1>1 DEF SendLogout, Logout, SignInTypeOK
  <2>2. r.stage = "sent" /\ r.browser = b /\ r.session = cookie[b]
    OBVIOUS
  <2> HIDE DEF r
  <2> QED BY <2>1, <2>2, NoneAssumption DEF LogoutBecomes, SignInTypeOK
<1>2. ASSUME NEW stage \in {"done", "answered"}, logout[l] # None,
             logout' = [logout EXCEPT ![l].stage = stage]
      PROVE  LogoutBecomes(l, stage, logout[l].browser, logout[l].session)
  <2> DEFINE o == logout[l]
             r == [o EXCEPT !.stage = stage]
  <2>1. o \in Logout /\ logout' = [logout EXCEPT ![l] = r]
    BY <1>2 DEF SignInTypeOK
  <2>2. r \in Logout /\ r.stage = stage /\ r.browser = o.browser /\ r.session = o.session
    <3> HIDE DEF o
    <3> QED BY <2>1 DEF Logout
  <2> HIDE DEF r
  <2> QED BY <2>1, <2>2, NoneAssumption DEF LogoutBecomes, SignInTypeOK
<1> QED BY <1>1, <1>2 DEF CommitLogout, AnswerLogout, LogoutAt

-----------------------------------------------------------------------------
(* The steps.                                                               *)

LEMMA TransactionChanges ==
  ASSUME SignInTypeOK, NEW t \in Transactions, transaction[t] # None,
         \/ transaction' = [transaction EXCEPT ![t].expired = TRUE]
         \/ transaction' = [transaction EXCEPT ![t].consumed = TRUE]
  PROVE  /\ transaction' \in [Transactions -> AuthTransaction \cup {None}]
         /\ \A u \in Transactions : transaction[u] # None =>
              /\ transaction'[u] # None
              /\ transaction'[u].browser = transaction[u].browser
              /\ transaction'[u].deployment = transaction[u].deployment
              /\ transaction[u].consumed => transaction'[u].consumed
<1> DEFINE a == transaction[t]
<1>1. a \in AuthTransaction
  BY DEF SignInTypeOK
<1>2. PICK e \in AuthTransaction :
        /\ transaction' = [transaction EXCEPT ![t] = e]
        /\ e.browser = a.browser /\ e.deployment = a.deployment
        /\ a.consumed => e.consumed
  <2> HIDE DEF a
  <2>1. [a EXCEPT !.expired = TRUE] \in AuthTransaction
    BY <1>1 DEF AuthTransaction
  <2>2. [a EXCEPT !.consumed = TRUE] \in AuthTransaction
    BY <1>1 DEF AuthTransaction
  <2>3. CASE transaction' = [transaction EXCEPT ![t] = [a EXCEPT !.expired = TRUE]]
    BY <1>1, <2>1, <2>3 DEF AuthTransaction
  <2>4. CASE transaction' = [transaction EXCEPT ![t] = [a EXCEPT !.consumed = TRUE]]
    BY <1>1, <2>2, <2>4 DEF AuthTransaction
  <2> QED BY <2>3, <2>4 DEF a
<1> QED BY <1>1, <1>2, NoneAssumption DEF SignInTypeOK

LEMMA CodeChanges ==
  ASSUME SignInTypeOK, NEW t \in Transactions, code[t] # None, NEW u \in BOOLEAN,
         code' = [code EXCEPT ![t].used = u]
  PROVE  /\ code' \in [Transactions -> Code \cup {None}]
         /\ \A c \in Transactions : code[c] # None =>
              code'[c] # None /\ code'[c].person = code[c].person
<1> DEFINE a == code[t]
           e == [a EXCEPT !.used = u]
<1>1. a \in Code /\ code' = [code EXCEPT ![t] = e]
  BY DEF SignInTypeOK
<1>2. e \in Code /\ e.person = a.person
  <2> HIDE DEF a
  <2> QED BY <1>1 DEF Code
<1> HIDE DEF e
<1> QED BY <1>1, <1>2, NoneAssumption DEF SignInTypeOK

LEMMA RevokedIs ==
  ASSUME NEW u \in Session
  PROVE  LET s == [u EXCEPT !.revoked = TRUE] IN
         /\ s \in Session /\ s.revoked
         /\ s.identity = u.identity /\ s.profile = u.profile
BY DEF Session

LEMMA GrowsStep ==
  ASSUME LoginInvariant, SignInNext
  PROVE  Grows
<1> USE NoneAssumption DEF LoginInvariant, SignInTypeOK, Grows
<1>1. ASSUME NEW b \in Browsers, NEW t \in Transactions, Login(b, t) PROVE Grows
  BY <1>1 DEF Login
<1>2. ASSUME NEW t \in Transactions, NEW s \in People, Authorize(t, s) PROVE Grows
  BY <1>2 DEF Authorize
<1>3. ASSUME NEW t \in Transactions, TransactionExpires(t) PROVE Grows
  BY <1>3, TransactionChanges DEF TransactionExpires
<1>4. ASSUME NEW k \in Callbacks, RefuseCallback(k) \/ ProviderError(k) \/ BurnState(k)
      PROVE  Grows
  <2>1. /\ callback[k].transaction \in Transactions
        /\ transaction[callback[k].transaction] # None
    BY <1>4 DEF RefuseCallback, ProviderError, BurnState, At, Callback, LoginParts,
       CallbacksFit, CallbackFits
  <2> QED BY <1>4, <2>1, TransactionChanges
          DEF RefuseCallback, ProviderError, BurnState, Consume
<1>5. ASSUME NEW k \in Callbacks,
             Exchange(k) \/ RefuseExchange(k) \/ ExchangeFails(k) \/ Stops(k)
      PROVE  Grows
  <2>1. callback[k] \in Callback
    BY <1>5 DEF Exchange, RefuseExchange, ExchangeFails, Stops, At
  <2>2. callback[k].code \in Transactions /\ code[callback[k].code] # None
    BY <1>5, <2>1 DEF Exchange, RefuseExchange, ExchangeFails, Stops, At, Callback, Running,
       Burned, LoginParts, CallbacksFit, CallbackFits
  <2>3. code' = code \/ \E u \in BOOLEAN : code' = [code EXCEPT ![callback[k].code].used = u]
    BY <1>5 DEF Exchange, RefuseExchange, ExchangeFails, Stops, Spend
  <2> QED BY <1>5, <2>2, <2>3, CodeChanges DEF Exchange, RefuseExchange, ExchangeFails, Stops
<1>6. ASSUME NEW k \in Callbacks,
             \/ Resolve(k) \/ RefuseIdentity(k) \/ CommitSession(k) \/ Respond(k)
             \/ RespondError(k)
             \/ \E b \in Browsers, t \in Transactions, c \in Transactions \cup {None} :
                  Send(k, b, t, c)
      PROVE  Grows
  BY <1>6 DEF Resolve, RefuseIdentity, CommitSession, Respond, RespondError, Send
<1>7. CASE (\E l \in Logouts : LogoutStep(l)) \/ (\E d \in Deployments : Deploy(d))
             \/ ProviderRotatesKey \/ CacheExpires
  BY <1>7 DEF LogoutStep, SendLogout, CommitLogout, AnswerLogout, Deploy,
              ProviderRotatesKey, CacheExpires
<1> QED BY <1>1, <1>2, <1>3, <1>4, <1>5, <1>6, <1>7 DEF SignInNext, CallbackStep

\* The login and the code of a callback stay with it.
LEMMA LoginStays ==
  ASSUME LoginInvariant, Grows, NEW j \in Callbacks, callback[j] # None
  PROVE  LET t == callback[j].transaction
             c == callback[j].code
         IN  /\ transaction'[t] # None
             /\ callback[j].bound => transaction'[t].browser = callback[j].browser
             /\ transaction[t].consumed => transaction'[t].consumed
             /\ c # None => code'[c] # None /\ code'[c].person = code[c].person
<1>1. /\ callback[j].transaction \in Transactions
      /\ callback[j].code \in Transactions \cup {None}
  BY DEF LoginInvariant, SignInTypeOK, Callback
<1>2. CallbackFits(j)
  BY DEF LoginInvariant, LoginParts, CallbacksFit
<1> QED BY <1>1, <1>2 DEF CallbackFits, Grows

LEMMA FitStays ==
  ASSUME LoginInvariant, Grows, NEW j \in Callbacks, callback[j] # None,
         callback'[j] = callback[j]
  PROVE  CallbackFits(j)'
<1>1. CallbackFits(j) /\ callback[j].code \in Transactions \cup {None}
  BY DEF LoginInvariant, SignInTypeOK, LoginParts, CallbacksFit, Callback
<1> QED BY <1>1, LoginStays, SignInAssumption DEF CallbackFits, Burned, Running, InDatabase

LEMMA RespondIs ==
  ASSUME SignInTypeOK, NEW k \in Callbacks, Respond(k)
  PROVE  Becomes(k, "answered", callback[k].person, callback[k].identity,
                 InFlightOf(callback[k].browser, k))
<1>1. InFlightOf(callback[k].browser, k) \in SUBSET (Callbacks \cup Logouts)
  BY DEF InFlightOf
<1> QED BY <1>1, CrossedBecomes DEF Respond, At, Stage

LEMMA TypeStep ==
  ASSUME LoginInvariant, SignInNext
  PROVE  SignInTypeOK'
<1> USE SignInAssumption, NoneAssumption DEF LoginInvariant, SignInTypeOK
<1>1. ASSUME NEW b \in Browsers, NEW t \in Transactions, Login(b, t)
      PROVE  SignInTypeOK'
  BY <1>1 DEF Login, AuthTransaction
<1>2. ASSUME NEW t \in Transactions, NEW s \in People, Authorize(t, s)
      PROVE  SignInTypeOK'
  BY <1>2 DEF Authorize, Code
<1>3. ASSUME NEW t \in Transactions, TransactionExpires(t)
      PROVE  SignInTypeOK'
  BY <1>3, TransactionChanges DEF TransactionExpires
<1>4. ASSUME NEW k \in Callbacks, NEW b \in Browsers, NEW t \in Transactions,
             NEW c \in Transactions \cup {None}, Send(k, b, t, c)
      PROVE  SignInTypeOK'
  BY <1>4, SendIs DEF Send, Sent
<1>5. ASSUME NEW k \in Callbacks,
             RefuseCallback(k) \/ ProviderError(k) \/ BurnState(k) \/ RespondError(k)
      PROVE  SignInTypeOK'
  <2>1. /\ callback[k] \in Callback /\ callback[k].transaction \in Transactions
        /\ callback[k].browser \in Browsers
        /\ transaction[callback[k].transaction] # None
    BY <1>5 DEF RefuseCallback, ProviderError, BurnState, RespondError, At, Callback,
       LoginParts, CallbacksFit, CallbackFits
  <2>2. PICK stage \in Stage :
          Becomes(k, stage, callback[k].person, callback[k].identity, callback[k].crossed)
    BY <1>5, <2>1, StageBecomes
       DEF RefuseCallback, ProviderError, BurnState, RespondError, Stage
  <2>3. transaction' \in [Transactions -> AuthTransaction \cup {None}]
    BY <1>5, <2>1, TransactionChanges
       DEF RefuseCallback, ProviderError, BurnState, RespondError, Consume
  <2>4. binding' \in [Browsers -> Transactions \cup {None}]
    BY <1>5, <2>1 DEF RefuseCallback, ProviderError, BurnState, RespondError
  <2> QED BY <1>5, <2>2, <2>3, <2>4
          DEF RefuseCallback, ProviderError, BurnState, RespondError, Becomes
<1>6. ASSUME NEW k \in Callbacks, At(k, "burned") 
      PROVE  callback[k].code \in Transactions /\ code[callback[k].code] # None
  BY <1>6 DEF LoginParts, CallbacksFit, CallbackFits, At, Burned, Running, Callback
<1>7. ASSUME NEW k \in Callbacks, Exchange(k)
      PROVE  SignInTypeOK'
  <2>1. callback[k] \in Callback /\ code[callback[k].code] \in Code
    BY <1>6, <1>7 DEF Exchange, At, Callback
  <2>2. Becomes(k, "authenticated", code[callback[k].code].person, callback[k].identity,
              callback[k].crossed)
    BY <1>7, <2>1, PersonBecomes DEF Exchange, At, Stage, Code
  <2>3. code' \in [Transactions -> Code \cup {None}]
    <3>1. code' = [code EXCEPT ![callback[k].code].used = TRUE]
      BY <1>7 DEF Exchange, Spend
    <3> QED BY CodeChanges, <1>6, <1>7, <3>1 DEF Exchange
  <2>4. KeysFor(k) \in Nat
    BY DEF KeysFor
  <2> QED BY <1>7, <2>2, <2>3, <2>4 DEF Exchange, Becomes
<1>8. ASSUME NEW k \in Callbacks,
              RefuseExchange(k) \/ ExchangeFails(k) \/ Stops(k) \/ RefuseIdentity(k)
       PROVE  SignInTypeOK'
  <2>1. callback[k] \in Callback
    BY <1>8 DEF RefuseExchange, ExchangeFails, Stops, RefuseIdentity, At
  <2>2. \E stage \in Stage :
          Becomes(k, stage, callback[k].person, callback[k].identity, callback[k].crossed)
    BY <1>8, <2>1, StageBecomes
       DEF RefuseExchange, ExchangeFails, Stops, RefuseIdentity, At, Stage
  <2>3. Burned(k) => callback[k].code \in Transactions /\ code[callback[k].code] # None
    BY <2>1 DEF LoginParts, CallbacksFit, CallbackFits, Burned, Callback
  <2>4. code' \in [Transactions -> Code \cup {None}]
    BY CodeChanges, <1>8, <2>1, <2>3
       DEF RefuseExchange, ExchangeFails, Stops, RefuseIdentity, Spend, At, Burned, Running,
           InDatabase
  <2>5. faults' \in 0..MaxFaults
    BY <1>8 DEF RefuseExchange, ExchangeFails, Stops, RefuseIdentity
  <2> QED BY <1>8, <2>2, <2>4, <2>5
          DEF RefuseExchange, ExchangeFails, Stops, RefuseIdentity, Becomes
<1>9. ASSUME NEW k \in Callbacks, Resolve(k)
       PROVE  SignInTypeOK'
  <2>1. callback[k] \in Callback /\ callback[k].transaction \in Transactions
    BY <1>9 DEF Resolve, At, Callback
  <2>2. /\ transaction[callback[k].transaction] \in AuthTransaction
        /\ callback[k].person \in People
    BY <1>9, <2>1
       DEF LoginParts, CallbacksFit, CallbackFits, Resolve, At, InDatabase, Code
  <2>3. Resolution(k) \subseteq Identity
    <3>1. Known(k) \subseteq Identity
      BY DEF Known, RowsOf
    <3>2. ProfileOf(k) \in Profiles
      BY <2>2 DEF ProfileOf, Profiles, AuthTransaction
    <3>3. NewIdentity(k) \in Identity
      BY <2>2, <3>2 DEF NewIdentity, Identity
    <3> QED BY <3>1, <3>3 DEF Resolution
  <2>4. PICK i \in Identity :
          Becomes(k, "resolved", callback[k].person, i, callback[k].crossed)
    BY ZenonT(60), <1>9, <2>1, <2>3, IdentityBecomes DEF Resolve, Stage
  <2> QED BY <1>9, <2>4 DEF Resolve, Becomes
<1>10. ASSUME NEW k \in Callbacks, CommitSession(k)
       PROVE  SignInTypeOK'
  <2>1. callback[k] \in Callback /\ callback[k].transaction \in Transactions
    BY <1>10 DEF CommitSession, At, Callback
  <2>2. /\ transaction[callback[k].transaction] \in AuthTransaction
        /\ callback[k].identity \in Identity
    BY <1>10, <2>1
       DEF LoginParts, CallbacksFit, CallbackFits, CommitSession, At, Callback
  <2>3. Becomes(k, "committed", callback[k].person, callback[k].identity, callback[k].crossed)
    BY <1>10, <2>1, StageBecomes DEF CommitSession, Stage
  <2>4. [identity |-> callback[k].identity, profile |-> ProfileOf(k), revoked |-> FALSE]
          \in Session
    BY <2>2 DEF Session, ProfileOf, Profiles, AuthTransaction
  <2>5. ASSUME NEW j \in Callbacks, session[j] # None
        PROVE  [session[j] EXCEPT !.revoked = TRUE] \in Session
    <3>1. session[j] \in Session
      BY <2>5
    <3> QED BY <3>1, RevokedIs
  <2>6. session' \in [Callbacks -> Session \cup {None}]
    <3>1. ASSUME NEW j \in Callbacks
          PROVE  session'[j] \in Session \cup {None}
      <4>1. CASE j = k
        BY <1>10, <2>4, <4>1 DEF CommitSession
      <4>2. CASE j # k /\ j \in Rotated(k)
        BY <1>10, <2>5, <4>2 DEF CommitSession, Rotated
      <4>3. CASE j # k /\ j \notin Rotated(k)
        BY <1>10, <4>3 DEF CommitSession
      <4> QED BY <4>1, <4>2, <4>3
    <3> QED BY <1>10, <3>1 DEF CommitSession
  <2> QED BY <1>10, <2>2, <2>3, <2>6 DEF CommitSession, Becomes
<1>11. ASSUME NEW k \in Callbacks, Respond(k)
       PROVE  SignInTypeOK'
  <2>1. callback[k] \in Callback
    BY <1>11 DEF Respond, At
  <2>2. \E crossed :
          Becomes(k, "answered", callback[k].person, callback[k].identity, crossed)
    BY <1>11, <2>1, RespondIs
  <2> QED BY <1>11, <2>1, <2>2 DEF Respond, Becomes, Callback
<1>12. ASSUME NEW l \in Logouts, LogoutStep(l)
       PROVE  SignInTypeOK'
  <2>1. logout' \in [Logouts -> Logout \cup {None}]
    BY <1>12, LogoutIs DEF LogoutStep, LogoutBecomes
  <2>2. CASE \E b \in Browsers : SendLogout(l, b)
    BY <2>1, <2>2 DEF SendLogout
  <2>3. CASE CommitLogout(l)
    <3> DEFINE h == logout[l].session
               u == session[h]
    <3>1. h \in Callbacks /\ u \in Session
      BY <2>3 DEF CommitLogout, LogoutAt, Logout, LoginParts, Cookies
    <3>2. [u EXCEPT !.revoked = TRUE] \in Session
      BY <3>1, RevokedIs
    <3>3. session' = [session EXCEPT ![h] = [u EXCEPT !.revoked = TRUE]]
      BY <2>3 DEF CommitLogout
    <3>4. session' \in [Callbacks -> Session \cup {None}]
      <4> HIDE DEF u
      <4> QED BY <3>1, <3>2, <3>3
    <3> QED BY <2>1, <2>3, <3>4 DEF CommitLogout
  <2>4. CASE AnswerLogout(l)
    BY <2>1, <2>4 DEF AnswerLogout
  <2> QED BY <1>12, <2>2, <2>3, <2>4 DEF LogoutStep
<1>13. CASE (\E d \in Deployments : Deploy(d)) \/ ProviderRotatesKey \/ CacheExpires
  BY <1>13 DEF Deploy, ProviderRotatesKey, CacheExpires
<1> QED BY <1>1, <1>2, <1>3, <1>4, <1>5, <1>7, <1>8, <1>9, <1>10, <1>11, <1>12, <1>13
        DEF SignInNext, CallbackStep

LEMMA BindingsStep ==
  ASSUME LoginInvariant, SignInNext
  PROVE  BindingsAreOpen'
<1> USE DEF LoginInvariant
<1>1. Grows
  BY GrowsStep
<1>2. CASE \E b \in Browsers, t \in Transactions : Login(b, t)
  <2>1. PICK b \in Browsers, t \in Transactions : Login(b, t)
    BY <1>2
  <2>2. transaction'[t] # None /\ transaction'[t].browser = b
    <3> DEFINE e == [browser |-> b, deployment |-> deployed, consumed |-> FALSE,
                     expired |-> FALSE]
    <3>1. e \in AuthTransaction
      BY DEF SignInTypeOK, AuthTransaction
    <3>2. transaction'[t] = e
      BY <2>1 DEF Login, SignInTypeOK
    <3>3. e # None
      <4> HIDE DEF e
      <4> QED BY <3>1, NoneAssumption
    <3> QED BY <3>2, <3>3
  <2>3. binding'[b] = t /\ \A o \in Browsers \ {b} : binding'[o] = binding[o]
    BY <2>1 DEF Login, SignInTypeOK
  <2>4. ASSUME NEW o \in Browsers, binding'[o] # None
        PROVE  transaction'[binding'[o]] # None /\ transaction'[binding'[o]].browser = o
    <3>1. CASE o = b
      BY <2>2, <2>3, <3>1
    <3>2. CASE o # b
      BY <1>1, <2>3, <2>4, <3>2 DEF BindingsAreOpen, SignInTypeOK, Grows
    <3> QED BY <3>1, <3>2
  <2> QED BY <2>4 DEF BindingsAreOpen
<1>3. CASE \A b \in Browsers : binding'[b] = binding[b] \/ binding'[b] = None
  BY <1>1, <1>3 DEF BindingsAreOpen, SignInTypeOK, Grows
<1>4. (\E b \in Browsers, t \in Transactions : Login(b, t))
        \/ (\A b \in Browsers : binding'[b] = binding[b] \/ binding'[b] = None)
  <2> DEFINE Kept == \A b \in Browsers : binding'[b] = binding[b] \/ binding'[b] = None
  <2>1. ASSUME NEW k \in Callbacks, UNCHANGED binding
                  \/ binding' = [binding EXCEPT ![callback[k].browser] = None]
        PROVE  Kept
    BY <2>1 DEF LoginInvariant, SignInTypeOK
  <2>2. ASSUME NEW k \in Callbacks, CallbackStep(k)
        PROVE  Kept
    <3>1. \/ UNCHANGED binding
          \/ binding' = [binding EXCEPT ![callback[k].browser] = None]
      BY <2>2
         DEF CallbackStep, Send, RefuseCallback, ProviderError, RespondError, BurnState,
             Exchange, RefuseExchange, ExchangeFails, Resolve, RefuseIdentity, CommitSession,
             Respond, Stops
    <3> QED BY <2>1, <3>1
  <2>3. SignInNext =>
            \/ \E b \in Browsers, t \in Transactions : Login(b, t)
            \/ \E k \in Callbacks : CallbackStep(k)
            \/ UNCHANGED binding
    BY DEF SignInNext, Authorize, TransactionExpires, LogoutStep, SendLogout, CommitLogout,
           AnswerLogout, Deploy, ProviderRotatesKey, CacheExpires
  <2> QED BY <2>2, <2>3
<1> QED BY <1>2, <1>3, <1>4

\* The parts of the invariant about callbacks, one kind of step after another.
LEMMA QuietStep ==
  ASSUME LoginInvariant, Grows, UNCHANGED <<callback, logout, session, cookie, identities>>
  PROVE  LoginParts'
<1> USE DEF LoginInvariant, LoginParts, SignInTypeOK
<1>1. CallbacksFit'
  BY FitStays DEF CallbacksFit
<1>2. Sessions'
  BY DEF Sessions, CallbacksFit, CallbackFits, Grows, Callback, At
<1>3. BurnedOnce' /\ OneIdentity' /\ NewIdentitiesAreOnly'
  BY DEF BurnedOnce, Burned, OneIdentity, NewIdentitiesAreOnly, IsNew, At
<1>4. Cookies' /\ PriorsAreHeld'
  BY DEF Cookies, Flies, Leaves, LogoutAt, PriorsAreHeld, At
<1>5. LiveSessionsAreHeld'
  BY DEF LiveSessionsAreHeld, Answered, At, LogoutAt
<1> QED BY <1>1, <1>2, <1>3, <1>4, <1>5

LEMMA SendStep ==
  ASSUME LoginInvariant, UNCHANGED <<transaction, code, logout, session, cookie, identities>>,
         NEW k \in Callbacks, NEW b \in Browsers, NEW t \in Transactions,
         NEW c \in Transactions \cup {None},
         Sent(k, b, t, c), transaction[t] # None, c # None => code[c] # None
  PROVE  LoginParts'
<1> USE DEF LoginInvariant, LoginParts, SignInTypeOK
<1>1. session[k] = None
  BY DEF Sessions, Sent
<1>2. \A j \in Callbacks : callback[j] # None => callback'[j] = callback[j]
  BY DEF Sent
<1>3. CallbacksFit'
  <2>1. ASSUME NEW j \in Callbacks, callback'[j] # None PROVE CallbackFits(j)'
    <3>1. CASE j = k
      BY <3>1, NoneAssumption, SignInAssumption
         DEF CallbackFits, Sent, Burned, Running, BindingsAreOpen, InDatabase
    <3>2. CASE j # k
      BY <2>1, <3>2 DEF CallbacksFit, CallbackFits, Sent, Burned
    <3> QED BY <3>1, <3>2
  <2> QED BY <2>1 DEF CallbacksFit
<1>4. BurnedOnce'
  BY <1>2 DEF BurnedOnce, Burned, Sent, Running, InDatabase
<1>5. Sessions'
  BY <1>1 DEF Sessions, Sent, At
<1>6. OneIdentity' /\ NewIdentitiesAreOnly'
  BY DEF OneIdentity, NewIdentitiesAreOnly, IsNew, At, Sent
<1>7. Cookies'
  BY DEF Cookies, At, Sent
<1>8. PriorsAreHeld'
  <2>1. ASSUME NEW j \in Callbacks, Flies(j)', cookie[callback'[j].browser] # None
        PROVE  \/ j \in callback'[cookie[callback'[j].browser]].crossed
               \/ callback'[j].prior = cookie[callback'[j].browser]
    <3>1. CASE j = k
      BY <3>1 DEF Sent
    <3>2. CASE j # k
      <4>1. Flies(j) /\ callback'[j] = callback[j] /\ callback[j].browser \in Browsers
        BY <2>1, <3>2 DEF Sent, Flies, Callback
      <4>2. callback'[cookie[callback[j].browser]] = callback[cookie[callback[j].browser]]
        BY <1>2, <2>1, <4>1 DEF Cookies, At
      <4> QED BY <2>1, <4>1, <4>2 DEF PriorsAreHeld
    <3> QED BY <3>1, <3>2
  <2>2. \A j \in Callbacks : At(j, "committed")' /\ callback'[j].prior # None =>
          session'[callback'[j].prior].revoked
    BY DEF PriorsAreHeld, At, Sent
  <2>3. ASSUME NEW l \in Logouts, Leaves(l), cookie[logout[l].browser] # None
        PROVE  \/ l \in callback'[cookie[logout[l].browser]].crossed
               \/ logout[l].session = cookie[logout[l].browser]
    <3>1. logout[l].browser \in Browsers
      BY <2>3 DEF Leaves, Logout
    <3> QED BY <1>2, <2>3, <3>1 DEF PriorsAreHeld, Cookies, At
  <2>4. \A l \in Logouts : LogoutAt(l, "done")' => session'[logout'[l].session].revoked
    BY DEF PriorsAreHeld, LogoutAt
  <2> QED BY <2>1, <2>2, <2>3, <2>4 DEF PriorsAreHeld, Leaves
<1>9. LiveSessionsAreHeld'
  <2>1. \A r : Answered(r) => Answered(r)'
    BY <1>2 DEF Answered, At, LogoutAt
  <2> QED BY <1>1, <1>2, <2>1 DEF LiveSessionsAreHeld, Sessions
<1> QED BY <1>3, <1>4, <1>5, <1>6, <1>7, <1>8, <1>9

\* What is left of the invariant when a callback that is in flight goes on, and
\* sessions and cookies stay.
LEMMA CookiesStay ==
  ASSUME LoginInvariant, UNCHANGED <<logout, session, cookie>>,
         NEW k \in Callbacks, NEW stage \in Stage, NEW person, NEW identity,
         Becomes(k, stage, person, identity, callback[k].crossed),
         ~At(k, "answered"), stage # "committed",
         stage \in InFlight => Flies(k),
         session[k] # None => stage = "lost"
  PROVE  Cookies' /\ PriorsAreHeld' /\ LiveSessionsAreHeld'
<1> USE DEF LoginInvariant, LoginParts, SignInTypeOK
<1>1. ASSUME NEW j \in Callbacks
      PROVE  /\ callback'[j] = None <=> callback[j] = None
             /\ callback[j] # None =>
                  /\ callback'[j].browser = callback[j].browser
                  /\ callback'[j].prior = callback[j].prior
                  /\ callback'[j].crossed = callback[j].crossed
             /\ j # k => callback'[j] = callback[j]
             /\ j = k => callback'[j].stage = stage
  BY DEF Becomes
<1>2. \A j \in Callbacks : callback[j] # None => callback[j].browser \in Browsers
  BY DEF Callback
<1>3. \A l \in Logouts : logout[l] # None => logout[l].browser \in Browsers
  BY DEF Logout
<1>4. Cookies'
  BY <1>1 DEF Cookies, At
<1>5. PriorsAreHeld'
  <2>1. ASSUME NEW b \in Browsers, cookie[b] # None
        PROVE  callback'[cookie[b]] = callback[cookie[b]]
    BY <1>1, <2>1 DEF Cookies, At
  <2>2. ASSUME NEW j \in Callbacks, Flies(j)'
        PROVE  Flies(j) /\ callback'[j].browser = callback[j].browser
               /\ callback'[j].prior = callback[j].prior
    BY <1>1, <2>2 DEF Flies
  <2>3. ASSUME NEW j \in Callbacks, At(j, "committed")'
        PROVE  At(j, "committed") /\ callback'[j].prior = callback[j].prior
    BY <1>1, <2>3 DEF At
  <2>4. \A j \in Callbacks : Flies(j) => callback[j].browser \in Browsers
    BY <1>2 DEF Flies
  <2>5. \A l \in Logouts : Leaves(l) => logout[l].browser \in Browsers
    BY <1>3 DEF Leaves
  <2>6. \A j \in Callbacks : Flies(j)' =>
          LET held == cookie'[callback'[j].browser] IN
          held # None => j \in callback'[held].crossed \/ callback'[j].prior = held
    BY <2>1, <2>2, <2>4 DEF PriorsAreHeld
  <2>7. \A l \in Logouts : Leaves(l)' =>
          LET held == cookie'[logout'[l].browser] IN
          held # None => l \in callback'[held].crossed \/ logout'[l].session = held
    BY <2>1, <2>5 DEF PriorsAreHeld, Leaves
  <2> QED BY <2>3, <2>6, <2>7 DEF PriorsAreHeld, LogoutAt
<1>6. LiveSessionsAreHeld'
  <2>1. \A r : Answered(r) => Answered(r)'
    BY <1>1 DEF Answered, At, LogoutAt
  <2> QED BY <1>1, <2>1 DEF LiveSessionsAreHeld, Sessions
<1> QED BY <1>4, <1>5, <1>6

\* A callback whose transaction is consumed.
LEMMA BurnStep ==
  ASSUME LoginInvariant, Grows, UNCHANGED <<code, logout, session, cookie, identities>>,
         NEW k \in Callbacks, At(k, "sent"),
         Becomes(k, "burned", callback[k].person, callback[k].identity, callback[k].crossed),
         callback[k].bound, callback[k].code # None,
         ~transaction[callback[k].transaction].consumed,
         transaction'[callback[k].transaction].consumed
  PROVE  LoginParts'
<1> USE DEF LoginInvariant, LoginParts, SignInTypeOK
<1>1. session[k] = None
  BY DEF Sessions, At
<1>2. \A j \in Callbacks : callback[j] # None =>
        /\ callback[j].transaction \in Transactions
        /\ callback[j].code \in Transactions \cup {None}
  BY DEF Callback
<1>3. CallbacksFit'
  <2>1. ASSUME NEW j \in Callbacks, callback'[j] # None PROVE CallbackFits(j)'
    <3>1. CASE j = k
      <4>1. callback[k] # None /\ CallbackFits(k)
        BY DEF At, CallbacksFit
      <4>2. /\ callback'[k].stage = "burned" /\ callback'[k].bound = callback[k].bound
            /\ callback'[k].transaction = callback[k].transaction
            /\ callback'[k].browser = callback[k].browser
            /\ callback'[k].code = callback[k].code
        BY DEF Becomes
      <4>3. LET t == callback[k].transaction
                c == callback[k].code
            IN  /\ transaction'[t] # None
                /\ callback[k].bound => transaction'[t].browser = callback[k].browser
                /\ c # None => code'[c] # None
        BY <4>1, LoginStays
      <4> QED BY <3>1, <4>2, <4>3 DEF CallbackFits, Burned, InDatabase
    <3>2. CASE j # k
      BY <2>1, <3>2, FitStays DEF Becomes
    <3> QED BY <3>1, <3>2
  <2> QED BY <2>1 DEF CallbacksFit
<1>4. BurnedOnce'
  <2>1. \A j \in Callbacks \ {k} : Burned(j) =>
          callback[j].transaction # callback[k].transaction
    BY DEF CallbacksFit, CallbackFits, Burned
  <2>2. \A j \in Callbacks : callback[j] # None =>
          callback'[j].transaction = callback[j].transaction
    BY DEF Becomes
  <2>3. \A j \in Callbacks \ {k} : Burned(j)' <=> Burned(j)
    BY DEF Becomes, Burned
  <2> QED BY <2>1, <2>2, <2>3 DEF BurnedOnce, Burned, At
<1>5. Sessions'
  BY <1>1, <1>2 DEF Sessions, CallbacksFit, CallbackFits, Becomes, Grows, At
<1>6. OneIdentity' /\ NewIdentitiesAreOnly'
  BY DEF OneIdentity, NewIdentitiesAreOnly, IsNew, At, Becomes
<1>7. Cookies' /\ PriorsAreHeld' /\ LiveSessionsAreHeld'
  BY <1>1, CookiesStay DEF At, Flies, InFlight, Stage
<1> QED BY <1>3, <1>4, <1>5, <1>6, <1>7

\* A callback that is refused, ended by the provider's error, or lost.
LEMMA EndStep ==
  ASSUME LoginInvariant, Grows, UNCHANGED <<logout, session, cookie, identities>>,
         NEW k \in Callbacks, NEW stage \in {"refused", "cancelled", "lost"},
         Becomes(k, stage, callback[k].person, callback[k].identity, callback[k].crossed),
         Flies(k) \/ At(k, "cancelled"),
         stage = "lost" => Burned(k),
         stage # "lost" => ~At(k, "committed")
  PROVE  LoginParts'
<1> USE DEF LoginInvariant, LoginParts, SignInTypeOK
<1>1. stage # "lost" => session[k] = None
  BY DEF Sessions, Flies, At, InFlight, Running, InDatabase
<1>2. \A j \in Callbacks : callback[j] # None =>
        /\ callback[j].transaction \in Transactions
        /\ callback[j].code \in Transactions \cup {None}
  BY DEF Callback
<1>3. callback[k] # None /\ callback[k].stage # "answered"
  BY DEF Flies, At, InFlight, Running, InDatabase
<1>4. CallbacksFit'
  <2>1. ASSUME NEW j \in Callbacks, callback'[j] # None PROVE CallbackFits(j)'
    <3>1. CASE j = k
      <4>1. CallbackFits(k)
        BY <1>3 DEF CallbacksFit
      <4> QED BY <1>3, <3>1, <4>1, LoginStays
              DEF CallbackFits, Becomes, Burned, Running, InDatabase
    <3>2. CASE j # k
      BY <2>1, <3>2, FitStays DEF Becomes
    <3> QED BY <3>1, <3>2
  <2> QED BY <2>1 DEF CallbacksFit
<1>5. BurnedOnce'
  <2>1. \A j \in Callbacks : Burned(j)' =>
          Burned(j) /\ callback'[j].transaction = callback[j].transaction
    BY DEF Becomes, Burned, Running, InDatabase
  <2> QED BY <2>1 DEF BurnedOnce
<1>6. Sessions'
  BY <1>1, <1>2, <1>3 DEF Sessions, CallbacksFit, CallbackFits, Becomes, Grows, At
<1>7. OneIdentity' /\ NewIdentitiesAreOnly'
  BY DEF OneIdentity, NewIdentitiesAreOnly, IsNew, At, Becomes
<1>8. Cookies' /\ PriorsAreHeld' /\ LiveSessionsAreHeld'
  BY <1>1, <1>3, CookiesStay DEF At, InFlight, Running, InDatabase, Stage
<1> QED BY <1>4, <1>5, <1>6, <1>7, <1>8

\* A callback in flight that goes on without a word of the database.
LEMMA GoingStep ==
  ASSUME LoginInvariant, Grows, UNCHANGED <<logout, session, cookie, identities>>,
         NEW k \in Callbacks, NEW stage \in InDatabase,
         NEW person \in People, NEW identity \in Identity \cup {None},
         Becomes(k, stage, person, identity, callback[k].crossed),
         At(k, "burned") \/ At(k, "authenticated"),
         callback[k].code = callback[k].transaction,
         person = code'[callback[k].transaction].person,
         stage = "resolved" => identity # None /\ identity.person = person,
         IsNew(k)' =>
           /\ identity.by = k
           /\ \A i \in identities : ~(i.profile = identity.profile /\ i.person = person)
           /\ \A j \in Callbacks \ {k} : IsNew(j) =>
                ~(callback[j].identity.profile = identity.profile
                    /\ callback[j].identity.person = person)
  PROVE  LoginParts'
<1> USE DEF LoginInvariant, LoginParts, SignInTypeOK
<1>1. callback[k].stage \in {"burned", "authenticated"} /\ Flies(k) /\ Burned(k)
  BY DEF At, Flies, Burned, InFlight, Running, InDatabase
<1>2. \A j \in Callbacks : callback[j] # None =>
        /\ callback[j].transaction \in Transactions
        /\ callback[j].code \in Transactions \cup {None}
  BY DEF Callback
<1>3. ASSUME NEW j \in Callbacks, callback'[j] # None
      PROVE  /\ callback[j] # None /\ callback'[j].browser = callback[j].browser
             /\ callback'[j].transaction = callback[j].transaction
             /\ callback'[j].code = callback[j].code
             /\ j # k => callback'[j] = callback[j]
             /\ j = k => callback'[j].stage = stage
  BY <1>3 DEF Becomes
<1>4. CallbacksFit'
  <2>1. ASSUME NEW j \in Callbacks, callback'[j] # None PROVE CallbackFits(j)'
    <3>1. CASE j = k
      <4>1. callback[k] # None /\ CallbackFits(k) /\ stage \in {"authenticated", "resolved"}
        BY <1>1 DEF At, CallbacksFit, InDatabase
      <4> QED BY <1>1, <3>1, <4>1, LoginStays
              DEF CallbackFits, Becomes, Burned, Running, InDatabase
    <3>2. CASE j # k
      BY <2>1, <3>2, FitStays DEF Becomes
    <3> QED BY <3>1, <3>2
  <2> QED BY <2>1 DEF CallbacksFit
<1>5. BurnedOnce'
  <2>1. \A j \in Callbacks : Burned(j)' =>
          Burned(j) /\ callback'[j].transaction = callback[j].transaction
    BY <1>1 DEF Becomes, Burned
  <2> QED BY <2>1 DEF BurnedOnce
<1>6. session[k] = None
  BY <1>1 DEF Sessions
<1>7. Sessions'
  BY <1>1, <1>2, <1>3, <1>6 DEF Sessions, CallbacksFit, CallbackFits, Grows, At, InDatabase,
     Becomes
<1>8. OneIdentity'
  BY DEF OneIdentity
<1>9. \A j \in Callbacks \ {k} : IsNew(j)' <=> IsNew(j)
  BY DEF IsNew, At, Becomes
<1>10. NewIdentitiesAreOnly'
  <2>1. IsNew(k)' => callback'[k].identity = identity /\ identity.person = person
    BY DEF IsNew, At, Becomes
  <2>2. ASSUME NEW j \in Callbacks, IsNew(j)'
        PROVE  LET i == callback'[j].identity IN
               /\ i.by = j
               /\ \A o \in identities : ~(o.profile = i.profile /\ o.person = i.person)
               /\ \A o \in Callbacks \ {j} : IsNew(o)' =>
                    ~(callback'[o].identity.profile = i.profile
                        /\ callback'[o].identity.person = i.person)
    <3>1. CASE j = k
      BY <1>9, <2>1, <2>2, <3>1 DEF Becomes
    <3>2. CASE j # k
      BY <1>9, <2>1, <2>2, <3>2 DEF NewIdentitiesAreOnly, Becomes
    <3> QED BY <3>1, <3>2
  <2> QED BY <2>2 DEF NewIdentitiesAreOnly
<1>11. Cookies' /\ PriorsAreHeld' /\ LiveSessionsAreHeld'
  BY <1>1, <1>6, CookiesStay DEF At, InFlight, Running, InDatabase, Stage
<1> QED BY <1>4, <1>5, <1>7, <1>8, <1>10, <1>11

LEMMA CommitStep ==
  ASSUME LoginInvariant, NEW k \in Callbacks, CommitSession(k), Grows
  PROVE  LoginParts'
<1> USE DEF LoginInvariant, LoginParts, SignInTypeOK
<1> DEFINE t == callback[k].transaction
           own == [identity |-> callback[k].identity, profile |-> ProfileOf(k),
                   revoked |-> FALSE]
<1>1. /\ callback[k] # None /\ callback[k] \in Callback
      /\ callback[k].stage = "resolved" /\ Flies(k) /\ Burned(k)
  BY DEF CommitSession, At, Flies, Burned, InFlight, Running, InDatabase
<1>2. Becomes(k, "committed", callback[k].person, callback[k].identity, callback[k].crossed)
  BY <1>1, StageBecomes DEF CommitSession, Stage
<1>3. \A j \in Callbacks : callback[j] # None =>
        /\ callback[j].transaction \in Transactions
        /\ callback[j].code \in Transactions \cup {None}
        /\ callback[j].browser \in Browsers
        /\ callback[j].prior \in Callbacks \cup {None}
  BY DEF Callback
<1>4. ASSUME NEW j \in Callbacks, callback'[j] # None
      PROVE  /\ callback[j] # None /\ callback'[j].browser = callback[j].browser
             /\ callback'[j].transaction = callback[j].transaction
             /\ callback'[j].code = callback[j].code
             /\ callback'[j].identity = callback[j].identity
             /\ callback'[j].prior = callback[j].prior
             /\ callback'[j].crossed = callback[j].crossed
             /\ j # k => callback'[j] = callback[j]
             /\ j = k => callback'[j].stage = "committed"
  BY <1>2, <1>4 DEF Becomes
<1>5. session[k] = None
  BY <1>1 DEF Sessions
<1>6. session'[k] = own /\ session'[k] # None /\ ~session'[k].revoked
  <2>1. callback[k].identity \in Identity /\ transaction[t] \in AuthTransaction
    BY <1>1, <1>3 DEF CallbacksFit, CallbackFits, Callback
  <2>2. own \in Session
    BY <2>1 DEF Session, ProfileOf, Profiles, AuthTransaction
  <2>3. session'[k] = own /\ ~own.revoked
    BY DEF CommitSession
  <2>4. own # None
    <3> HIDE DEF own
    <3> QED BY <2>2, NoneAssumption
  <2> QED BY <2>3, <2>4
<1>7. ASSUME NEW j \in Callbacks \ {k}
      PROVE  /\ session'[j] = None <=> session[j] = None
             /\ session[j] # None =>
                  /\ session'[j].identity = session[j].identity
                  /\ session'[j].profile = session[j].profile
                  /\ session[j].revoked => session'[j].revoked
                  /\ callback[k].prior = j => session'[j].revoked
  <2>1. CASE session[j] = None
    BY <2>1 DEF CommitSession, Rotated
  <2>2. CASE session[j] # None
    <3> DEFINE s == session[j]
    <3>1. s \in Session
      BY <2>2
    <3>2. \/ j \in Rotated(k) /\ session'[j] = [s EXCEPT !.revoked = TRUE]
          \/ j \notin Rotated(k) /\ session'[j] = s
      BY DEF CommitSession
    <3>3. callback[k].prior = j /\ j \notin Rotated(k) => s.revoked
      BY <2>2 DEF Rotated
    <3>4. [s EXCEPT !.revoked = TRUE] \in Session
      <4> HIDE DEF s
      <4> QED BY <3>1 DEF Session
    <3>5. s # None
      BY <2>2
    <3> HIDE DEF s
    <3>6. session'[j] # None
      BY <3>2, <3>4, <3>5, NoneAssumption
    <3>7. /\ session'[j].identity = s.identity /\ session'[j].profile = s.profile
          /\ s.revoked => session'[j].revoked
          /\ callback[k].prior = j => session'[j].revoked
      BY <3>1, <3>2, <3>3 DEF Session
    <3> QED BY <3>5, <3>6, <3>7 DEF s
  <2> QED BY <2>1, <2>2
<1>8. /\ identities' = identities \cup {callback[k].identity}
      /\ UNCHANGED <<transaction, code, binding, cookie, logout>>
  BY DEF CommitSession
<1>9. CallbacksFit'
  <2>1. ASSUME NEW j \in Callbacks, callback'[j] # None PROVE CallbackFits(j)'
    <3>1. CASE j = k
      BY <1>1, <1>2, <1>3, <1>8, <3>1
         DEF CallbacksFit, CallbackFits, Becomes, Burned, InDatabase
    <3>2. CASE j # k
      BY <1>2, <2>1, <3>2, FitStays DEF Becomes
    <3> QED BY <3>1, <3>2
  <2> QED BY <2>1 DEF CallbacksFit
<1>10. BurnedOnce'
  <2>1. \A j \in Callbacks : Burned(j)' =>
          Burned(j) /\ callback'[j].transaction = callback[j].transaction
    BY <1>1, <1>2 DEF Becomes, Burned
  <2> QED BY <2>1 DEF BurnedOnce
<1>11. /\ code[t] # None /\ callback[k].identity.person = code[t].person
  BY <1>1 DEF CallbacksFit, CallbackFits, InDatabase
<1>12. Sessions'
  <2>1. ASSUME NEW j \in Callbacks
        PROVE  /\ session'[j] # None =>
                    LET u == callback'[j].transaction IN
                    /\ callback'[j] # None
                    /\ callback'[j].stage \in {"committed", "answered", "lost"}
                    /\ session'[j].identity \in identities'
                    /\ code'[u] # None /\ session'[j].identity.person = code'[u].person
                    /\ session'[j].profile = transaction'[u].deployment.profile
               /\ At(j, "committed")' \/ At(j, "answered")' => session'[j] # None
    <3>1. CASE j = k
      BY <1>2, <1>6, <1>8, <1>11, <3>1 DEF Becomes, ProfileOf
    <3>2. CASE j # k
      BY <1>2, <1>7, <1>8, <3>2 DEF Sessions, Becomes, At
    <3> QED BY <3>1, <3>2
  <2> QED BY <2>1 DEF Sessions
<1>13. callback[k].identity \in identities \/ IsNew(k)
  BY <1>1 DEF IsNew, At
<1>14. OneIdentity'
  BY <1>8, <1>13 DEF OneIdentity, NewIdentitiesAreOnly
<1>15. \A j \in Callbacks : IsNew(j)' =>
         j # k /\ IsNew(j) /\ callback'[j].identity = callback[j].identity
  BY <1>4, <1>8 DEF IsNew, At
<1>16. NewIdentitiesAreOnly'
  <2>1. ASSUME NEW j \in Callbacks, IsNew(j)', NEW o \in identities'
        PROVE  ~(o.profile = callback'[j].identity.profile
                   /\ o.person = callback'[j].identity.person)
    BY <1>8, <1>13, <1>15, <2>1 DEF NewIdentitiesAreOnly
  <2>2. ASSUME NEW j \in Callbacks, IsNew(j)'
        PROVE  /\ callback'[j].identity.by = j
               /\ \A o \in Callbacks \ {j} : IsNew(o)' =>
                    ~(callback'[o].identity.profile = callback'[j].identity.profile
                        /\ callback'[o].identity.person = callback'[j].identity.person)
    BY <1>15, <2>2 DEF NewIdentitiesAreOnly
  <2> QED BY <2>1, <2>2 DEF NewIdentitiesAreOnly
<1>17. Cookies'
  <2>1. \A j \in Callbacks : session[j] # None => session'[j] # None
    BY <1>6, <1>7
  <2>2. \A l \in Logouts : logout[l] # None => logout[l].session \in Callbacks
    BY DEF Logout
  <2> QED BY <1>1, <1>2, <1>3, <1>4, <1>8, <2>1, <2>2 DEF Cookies, At, Becomes
<1>18. ASSUME NEW b \in Browsers, cookie[b] # None
       PROVE  callback'[cookie[b]] = callback[cookie[b]] /\ cookie[b] # k
  BY <1>1, <1>2, <1>18 DEF Cookies, At, Becomes
<1>19. PriorsAreHeld'
  <2>1. ASSUME NEW j \in Callbacks, Flies(j)', cookie[callback'[j].browser] # None
        PROVE  \/ j \in callback'[cookie[callback'[j].browser]].crossed
               \/ callback'[j].prior = cookie[callback'[j].browser]
    <3>1. Flies(j) /\ callback'[j].browser = callback[j].browser
          /\ callback'[j].prior = callback[j].prior /\ callback[j].browser \in Browsers
      BY <1>1, <1>3, <1>4, <2>1 DEF Flies
    <3> QED BY <1>18, <2>1, <3>1 DEF PriorsAreHeld
  <2>2. ASSUME NEW j \in Callbacks, At(j, "committed")', callback'[j].prior # None
        PROVE  session'[callback'[j].prior].revoked
    <3>1. /\ callback[j] # None /\ callback'[j].prior = callback[j].prior
          /\ callback[j].prior \in Callbacks \ {k} /\ session[callback[j].prior] # None
      BY <1>3, <1>4, <1>5, <2>2 DEF Cookies, At
    <3>2. CASE j = k
      BY <1>7, <3>1, <3>2
    <3>3. CASE j # k
      BY <1>4, <1>7, <2>2, <3>1, <3>3 DEF PriorsAreHeld, At
    <3> QED BY <3>2, <3>3
  <2>3. ASSUME NEW l \in Logouts, Leaves(l), cookie[logout[l].browser] # None
        PROVE  \/ l \in callback'[cookie[logout[l].browser]].crossed
               \/ logout[l].session = cookie[logout[l].browser]
    <3>1. logout[l].browser \in Browsers
      BY <2>3 DEF Leaves, Logout
    <3> QED BY <1>18, <2>3, <3>1 DEF PriorsAreHeld
  <2>4. ASSUME NEW l \in Logouts, LogoutAt(l, "done")
        PROVE  session'[logout[l].session].revoked
    <3>1. logout[l].session \in Callbacks \ {k} /\ session[logout[l].session] # None
      BY <1>5, <2>4 DEF LogoutAt, Logout, Cookies
    <3> QED BY <1>7, <2>4, <3>1 DEF PriorsAreHeld
  <2> QED BY <1>8, <2>1, <2>2, <2>3, <2>4 DEF PriorsAreHeld, Leaves, LogoutAt
<1>20. LiveSessionsAreHeld'
  <2>1. \A r : Answered(r) => Answered(r)'
    BY <1>1, <1>2, <1>8 DEF Answered, At, LogoutAt, Becomes
  <2>2. ASSUME NEW j \in Callbacks \ {k}, session'[j] # None, ~session'[j].revoked
        PROVE  /\ session[j] # None /\ ~session[j].revoked
               /\ callback'[j] = callback[j]
    BY <1>2, <1>7, <2>2 DEF Becomes
  <2>3. callback'[k].stage = "committed"
    BY <1>2 DEF Becomes
  <2> QED BY <1>8, <2>1, <2>2, <2>3 DEF LiveSessionsAreHeld
<1> QED BY <1>9, <1>10, <1>12, <1>14, <1>16, <1>17, <1>19, <1>20

LEMMA ResolveStep ==
  ASSUME LoginInvariant, NEW k \in Callbacks, Resolve(k), Grows
  PROVE  LoginParts'
<1> USE DEF LoginInvariant, LoginParts, SignInTypeOK
<1> DEFINE t == callback[k].transaction
<1>1. /\ callback[k] # None /\ callback[k] \in Callback /\ At(k, "authenticated")
      /\ t \in Transactions /\ callback[k].person \in People \cup {None}
  BY DEF Resolve, At, Callback
<1>2. /\ code[t] \in Code /\ transaction[t] \in AuthTransaction
      /\ callback[k].code = t /\ callback[k].person = code[t].person
  <2>1. CallbackFits(k) /\ Burned(k)
    BY <1>1 DEF CallbacksFit, At, Burned, Running, InDatabase
  <2> QED BY <1>1, <2>1 DEF CallbackFits, At, InDatabase
<1>3. callback[k].person \in People /\ ProfileOf(k) \in Profiles
  BY <1>2 DEF Code, ProfileOf, Profiles, AuthTransaction
<1>4. PICK i \in Resolution(k) :
        callback' = [callback EXCEPT ![k].stage = "resolved", ![k].identity = i]
  BY DEF Resolve
<1>5. NewIdentity(k) \in Identity /\ NewIdentity(k).by = k
      /\ NewIdentity(k).profile = ProfileOf(k) /\ NewIdentity(k).person = callback[k].person
  BY <1>3 DEF NewIdentity, Identity
<1>6. /\ i \in Identity /\ i.person = callback[k].person
      /\ i \in identities \/ (i = NewIdentity(k) /\ Known(k) = {})
  BY <1>4, <1>5 DEF Resolution, Known, RowsOf
<1>7. i # None
  BY <1>6, NoneAssumption
<1>8. Becomes(k, "resolved", callback[k].person, i, callback[k].crossed)
  BY <1>1, <1>4, <1>6, IdentityBecomes DEF Stage
<1>9. IsNew(k)' => i \notin identities
  BY <1>8 DEF IsNew, At, Becomes, Resolve
<1>10. ASSUME i \notin identities
       PROVE  /\ i.by = k
              /\ \A o \in identities : ~(o.profile = i.profile /\ o.person = callback[k].person)
              /\ \A j \in Callbacks \ {k} : IsNew(j) =>
                   ~(callback[j].identity.profile = i.profile
                       /\ callback[j].identity.person = callback[k].person)
  <2>1. i = NewIdentity(k) /\ Known(k) = {}
    BY <1>6, <1>10
  <2>2. RowsOf(ProfileOf(k), callback[k].person) = {}
    BY <2>1 DEF Known
  <2>3. ~InsertWaits(k)
    BY <2>1 DEF Resolve, CanResolve
  <2> QED BY <1>5, <2>1, <2>2, <2>3 DEF RowsOf, InsertWaits, NewIdentitiesAreOnly, IsNew
<1>11. UNCHANGED <<code, logout, session, cookie, identities>>
  BY DEF Resolve
<1> QED BY <1>1, <1>2, <1>3, <1>6, <1>7, <1>8, <1>9, <1>10, <1>11, GoingStep DEF InDatabase

LEMMA ExchangeStep ==
  ASSUME LoginInvariant, NEW k \in Callbacks, Exchange(k), Grows
  PROVE  LoginParts'
<1> USE DEF LoginInvariant, LoginParts, SignInTypeOK
<1> DEFINE t == callback[k].transaction
<1>1. /\ callback[k] # None /\ callback[k] \in Callback /\ At(k, "burned")
      /\ t \in Transactions /\ callback[k].code = t
      /\ callback[k].identity \in Identity \cup {None}
  BY DEF Exchange, GoodCode, At, Callback
<1>2. code[t] # None /\ code[t] \in Code
  BY <1>1 DEF CallbacksFit, CallbackFits, At, Burned, Running
<1>3. code[t].person \in People /\ code'[t].person = code[t].person
  BY <1>1, <1>2 DEF Code, Grows
<1>4. Becomes(k, "authenticated", code[t].person, callback[k].identity, callback[k].crossed)
  BY <1>1, <1>3, PersonBecomes DEF Exchange, Stage
<1>5. ~IsNew(k)'
  BY <1>4 DEF IsNew, At, Becomes
<1>6. UNCHANGED <<logout, session, cookie, identities>>
  BY DEF Exchange
<1> QED BY <1>1, <1>3, <1>4, <1>5, <1>6, GoingStep DEF InDatabase

LEMMA RespondStep ==
  ASSUME LoginInvariant, NEW k \in Callbacks, Respond(k), Grows
  PROVE  LoginParts'
<1> USE DEF LoginInvariant, LoginParts, SignInTypeOK
<1> DEFINE b == callback[k].browser
<1>1. /\ callback[k] # None /\ callback[k] \in Callback /\ b \in Browsers
      /\ callback[k].stage = "committed" /\ Flies(k) /\ Burned(k) /\ session[k] # None
  BY DEF Respond, Sessions, At, Callback, Flies, Burned, InFlight, Running
<1>2. Becomes(k, "answered", callback[k].person, callback[k].identity, InFlightOf(b, k))
  BY RespondIs
<1>3. \A j \in Callbacks : callback[j] # None =>
        /\ callback[j].transaction \in Transactions
        /\ callback[j].code \in Transactions \cup {None}
        /\ callback[j].browser \in Browsers
  BY DEF Callback
<1>4. ASSUME NEW j \in Callbacks, callback'[j] # None
      PROVE  /\ callback[j] # None /\ callback'[j].browser = callback[j].browser
             /\ callback'[j].transaction = callback[j].transaction
             /\ callback'[j].code = callback[j].code
             /\ callback'[j].identity = callback[j].identity
             /\ callback'[j].prior = callback[j].prior
             /\ j # k => callback'[j] = callback[j]
             /\ j = k => callback'[j].stage = "answered"
  BY <1>2, <1>4 DEF Becomes
<1>5. /\ cookie'[b] = k /\ \A o \in Browsers \ {b} : cookie'[o] = cookie[o]
      /\ UNCHANGED <<transaction, code, logout, identities, session>>
  BY <1>1 DEF Respond
<1>6. CallbacksFit'
  <2>1. ASSUME NEW j \in Callbacks, callback'[j] # None PROVE CallbackFits(j)'
    <3>1. CASE j = k
      BY <1>1, <1>2, <1>3, <1>5, <3>1 DEF CallbacksFit, CallbackFits, Becomes, Burned
    <3>2. CASE j # k
      BY <1>2, <2>1, <3>2, FitStays DEF Becomes
    <3> QED BY <3>1, <3>2
  <2> QED BY <2>1 DEF CallbacksFit
<1>7. BurnedOnce'
  <2>1. \A j \in Callbacks : Burned(j)' =>
          Burned(j) /\ callback'[j].transaction = callback[j].transaction
    BY <1>1, <1>4 DEF Burned
  <2> QED BY <2>1 DEF BurnedOnce
<1>8. Sessions'
  BY <1>1, <1>2, <1>5 DEF Sessions, Becomes, At
<1>9. OneIdentity' /\ NewIdentitiesAreOnly'
  BY <1>2, <1>5 DEF OneIdentity, NewIdentitiesAreOnly, IsNew, At, Becomes
<1>10. ASSUME NEW o \in Browsers \ {b}, cookie[o] # None
       PROVE  cookie[o] # k /\ callback'[cookie[o]] = callback[cookie[o]]
  BY <1>1, <1>2, <1>10 DEF Cookies, At, Becomes
<1>11. Cookies'
  <2>1. ASSUME NEW o \in Browsers, cookie'[o] # None
        PROVE  /\ callback'[cookie'[o]] # None
               /\ callback'[cookie'[o]].stage = "answered"
               /\ callback'[cookie'[o]].browser = o
               /\ session'[cookie'[o]] # None
    <3>1. CASE o = b
      BY <1>1, <1>2, <1>5, <3>1 DEF At, Becomes
    <3>2. CASE o # b
      <4>1. /\ cookie'[o] = cookie[o] /\ cookie[o] \in Callbacks
            /\ callback[cookie[o]] # None /\ callback[cookie[o]].stage = "answered"
            /\ callback[cookie[o]].browser = o /\ session[cookie[o]] # None
        BY <1>5, <2>1, <3>2 DEF Cookies, At
      <4>2. callback'[cookie[o]] = callback[cookie[o]]
        BY <1>5, <1>10, <2>1, <3>2
      <4> QED BY <1>5, <4>1, <4>2
    <3> QED BY <3>1, <3>2
  <2>2. ASSUME NEW j \in Callbacks, callback'[j] # None, callback'[j].prior # None
        PROVE  session'[callback'[j].prior] # None
    BY <1>4, <1>5, <2>2 DEF Cookies
  <2>3. \A l \in Logouts : logout'[l] # None => session'[logout'[l].session] # None
    BY <1>5 DEF Cookies
  <2> QED BY <2>1, <2>2, <2>3 DEF Cookies, At
<1>12. ASSUME NEW j \in Callbacks, Flies(j)'
       PROVE  /\ j # k /\ Flies(j) /\ callback'[j] = callback[j]
              /\ callback[j].browser \in Browsers
  BY <1>3, <1>4, <1>12 DEF Flies, InFlight, Running, InDatabase
<1>13. PriorsAreHeld'
  <2>1. ASSUME NEW j \in Callbacks, Flies(j)', cookie'[callback'[j].browser] # None
        PROVE  \/ j \in callback'[cookie'[callback'[j].browser]].crossed
               \/ callback'[j].prior = cookie'[callback'[j].browser]
    <3>1. /\ j # k /\ Flies(j) /\ callback'[j] = callback[j]
          /\ callback[j].browser \in Browsers
      BY <1>12, <2>1
    <3>2. CASE callback[j].browser = b
      BY <1>2, <1>5, <3>1, <3>2 DEF Becomes, InFlightOf, Flies
    <3>3. CASE callback[j].browser # b
      BY <1>5, <1>10, <2>1, <3>1, <3>3 DEF PriorsAreHeld
    <3> QED BY <3>2, <3>3
  <2>2. ASSUME NEW j \in Callbacks, At(j, "committed")', callback'[j].prior # None
        PROVE  session'[callback'[j].prior].revoked
    BY <1>4, <1>5, <2>2 DEF PriorsAreHeld, At
  <2>3. ASSUME NEW l \in Logouts, Leaves(l), cookie'[logout[l].browser] # None
        PROVE  \/ l \in callback'[cookie'[logout[l].browser]].crossed
               \/ logout[l].session = cookie'[logout[l].browser]
    <3>1. logout[l].browser \in Browsers
      BY <2>3 DEF Leaves, Logout
    <3>2. CASE logout[l].browser = b
      BY <1>2, <1>5, <2>3, <3>2 DEF Becomes, InFlightOf, Leaves
    <3>3. CASE logout[l].browser # b
      BY <1>5, <1>10, <2>3, <3>1, <3>3 DEF PriorsAreHeld
    <3> QED BY <3>2, <3>3
  <2> QED BY <1>5, <2>1, <2>2, <2>3 DEF PriorsAreHeld, Leaves, LogoutAt
<1>14. LiveSessionsAreHeld'
  <2>1. \A r : Answered(r) => Answered(r)'
    BY <1>1, <1>2, <1>5 DEF Answered, At, LogoutAt, Becomes
  <2>2. Answered(k)'
    BY <1>2 DEF Answered, At, Becomes
  <2>3. ASSUME NEW j \in Callbacks, session[j] # None, ~session[j].revoked
        PROVE  \/ cookie'[callback'[j].browser] = j
               \/ callback'[j].stage \in {"committed", "lost"}
               \/ \E r \in callback'[j].crossed : Answered(r)'
    <3>1. CASE j = k
      BY <1>1, <1>2, <1>5, <3>1 DEF Becomes
    <3>2. CASE j # k /\ cookie[callback[j].browser] = j /\ callback[j].browser = b
      <4>1. k \in callback[j].crossed \/ callback[k].prior = j
        BY <1>1, <3>2, SignInAssumption DEF PriorsAreHeld
      <4>2. callback[k].prior # j
        BY <1>1, <2>3, SignInAssumption DEF PriorsAreHeld, At
      <4> QED BY <1>2, <2>2, <3>2, <4>1, <4>2 DEF Becomes
    <3>3. CASE j # k /\ cookie[callback[j].browser] = j /\ callback[j].browser # b
      <4>1. callback[j].browser \in Browsers
        BY <1>3, <2>3 DEF Sessions
      <4> QED BY <1>2, <1>5, <3>3, <4>1 DEF Becomes
    <3>4. CASE j # k /\ cookie[callback[j].browser] # j
      BY <1>2, <2>1, <2>3, <3>4 DEF LiveSessionsAreHeld, Becomes
    <3> QED BY <3>1, <3>2, <3>3, <3>4
  <2> QED BY <1>5, <2>3 DEF LiveSessionsAreHeld
<1> QED BY <1>6, <1>7, <1>8, <1>9, <1>11, <1>13, <1>14

\* The parts of the invariant that a logout does not speak of.
LEMMA LogoutKeeps ==
  ASSUME LoginInvariant, UNCHANGED <<transaction, code, identities, callback>>,
         \A j \in Callbacks :
           /\ session'[j] = None <=> session[j] = None
           /\ session[j] # None => /\ session'[j].identity = session[j].identity
                                   /\ session'[j].profile = session[j].profile
  PROVE  CallbacksFit' /\ BurnedOnce' /\ Sessions' /\ OneIdentity' /\ NewIdentitiesAreOnly'
<1> USE DEF LoginInvariant, LoginParts
<1>1. CallbacksFit' /\ BurnedOnce'
  BY DEF CallbacksFit, CallbackFits, BurnedOnce, Burned
<1>2. Sessions'
  BY DEF Sessions, At
<1>3. OneIdentity' /\ NewIdentitiesAreOnly'
  BY DEF OneIdentity, NewIdentitiesAreOnly, IsNew, At
<1> QED BY <1>1, <1>2, <1>3

LEMMA SendLogoutStep ==
  ASSUME LoginInvariant, NEW l \in Logouts, NEW b \in Browsers, SendLogout(l, b)
  PROVE  LoginParts'
<1> USE DEF LoginInvariant, LoginParts, SignInTypeOK
<1>1. LogoutBecomes(l, "sent", b, cookie[b])
  BY LogoutIs
<1>2. logout[l] = None /\ cookie[b] # None
      /\ UNCHANGED <<transaction, code, identities, session, cookie, callback>>
  BY DEF SendLogout
<1>3. CallbacksFit' /\ BurnedOnce' /\ Sessions' /\ OneIdentity' /\ NewIdentitiesAreOnly'
  BY <1>2, LogoutKeeps
<1>4. Cookies'
  BY <1>1, <1>2 DEF Cookies, At, LogoutBecomes
<1>5. PriorsAreHeld'
  BY <1>1, <1>2 DEF PriorsAreHeld, Flies, At, Leaves, LogoutAt, LogoutBecomes
<1>6. LiveSessionsAreHeld'
  <2>1. \A r : Answered(r) => Answered(r)'
    BY <1>1, <1>2 DEF Answered, At, LogoutAt, LogoutBecomes
  <2> QED BY <1>2, <2>1 DEF LiveSessionsAreHeld
<1> QED BY <1>3, <1>4, <1>5, <1>6

LEMMA CommitLogoutStep ==
  ASSUME LoginInvariant, NEW l \in Logouts, CommitLogout(l)
  PROVE  LoginParts'
<1> USE DEF LoginInvariant, LoginParts, SignInTypeOK
<1> DEFINE h == logout[l].session
<1>1. logout[l] # None /\ logout[l].stage = "sent" /\ h \in Callbacks
      /\ session[h] # None /\ session[h] \in Session
  BY DEF CommitLogout, LogoutAt, Logout, Cookies
<1>2. LogoutBecomes(l, "done", logout[l].browser, h)
  BY LogoutIs
<1>3. PICK s \in Session : /\ s.identity = session[h].identity
                           /\ s.profile = session[h].profile /\ s.revoked
                           /\ session' = [session EXCEPT ![h] = s]
  <2> DEFINE u == session[h]
  <2>1. u \in Session /\ session' = [session EXCEPT ![h] = [u EXCEPT !.revoked = TRUE]]
    BY <1>1 DEF CommitLogout
  <2>2. /\ [u EXCEPT !.revoked = TRUE] \in Session
        /\ [u EXCEPT !.revoked = TRUE].identity = u.identity
        /\ [u EXCEPT !.revoked = TRUE].profile = u.profile
        /\ [u EXCEPT !.revoked = TRUE].revoked
    <3> HIDE DEF u
    <3> QED BY <2>1, RevokedIs
  <2> QED BY <2>1, <2>2
<1>4. /\ session'[h] = s /\ s # None
      /\ \A j \in Callbacks \ {h} : session'[j] = session[j]
      /\ UNCHANGED <<transaction, code, identities, cookie, callback>>
  BY <1>1, <1>3, NoneAssumption DEF CommitLogout
<1>5. ASSUME NEW j \in Callbacks
      PROVE  /\ session'[j] = None <=> session[j] = None
             /\ session[j] # None => /\ session'[j].identity = session[j].identity
                                     /\ session'[j].profile = session[j].profile
             /\ session[j].revoked => session'[j].revoked
  BY <1>1, <1>3, <1>4
<1>6. CallbacksFit' /\ BurnedOnce' /\ Sessions' /\ OneIdentity' /\ NewIdentitiesAreOnly'
  BY <1>4, <1>5, LogoutKeeps
<1>7. \A j \in Callbacks : callback[j] # None => callback[j].prior \in Callbacks \cup {None}
  BY DEF Callback
<1>8. \A m \in Logouts : logout[m] # None => logout[m].session \in Callbacks
  BY DEF Logout
<1>9. \A m \in Logouts : logout'[m] # None =>
        /\ logout[m] # None /\ logout'[m].session = logout[m].session
        /\ logout'[m].browser = logout[m].browser
        /\ m # l => logout'[m] = logout[m]
  BY <1>1, <1>2 DEF LogoutBecomes
<1>10. Cookies'
  BY <1>4, <1>5, <1>7, <1>8, <1>9 DEF Cookies, At
<1>11. PriorsAreHeld'
  <2>1. \A j \in Callbacks : Flies(j)' =>
          LET held == cookie'[callback'[j].browser] IN
          held # None => j \in callback'[held].crossed \/ callback'[j].prior = held
    BY <1>4 DEF PriorsAreHeld, Flies
  <2>2. \A j \in Callbacks : At(j, "committed")' /\ callback'[j].prior # None =>
          session'[callback'[j].prior].revoked
    BY <1>4, <1>5, <1>7 DEF PriorsAreHeld, At
  <2>3. ASSUME NEW m \in Logouts, Leaves(m)'
        PROVE  LET held == cookie'[logout'[m].browser] IN
               held # None => m \in callback'[held].crossed \/ logout'[m].session = held
    <3>1. Leaves(m) /\ logout'[m].session = logout[m].session
          /\ logout'[m].browser = logout[m].browser
      BY <1>1, <1>9, <2>3 DEF Leaves
    <3> QED BY <1>4, <3>1 DEF PriorsAreHeld
  <2>4. ASSUME NEW m \in Logouts, LogoutAt(m, "done")'
        PROVE  session'[logout'[m].session].revoked
    <3>1. CASE m = l
      BY <1>2, <1>3, <1>4, <3>1 DEF LogoutBecomes
    <3>2. CASE m # l
      BY <1>5, <1>8, <1>9, <2>4, <3>2 DEF PriorsAreHeld, LogoutAt
    <3> QED BY <3>1, <3>2
  <2> QED BY <2>1, <2>2, <2>3, <2>4 DEF PriorsAreHeld
<1>12. LiveSessionsAreHeld'
  <2>1. \A r : Answered(r) => Answered(r)'
    BY <1>1, <1>2, <1>4 DEF Answered, At, LogoutAt, LogoutBecomes
  <2>2. \A j \in Callbacks : session'[j] # None /\ ~session'[j].revoked =>
          session[j] # None /\ ~session[j].revoked
    BY <1>3, <1>4
  <2> QED BY <1>4, <2>1, <2>2 DEF LiveSessionsAreHeld
<1> QED BY <1>6, <1>10, <1>11, <1>12

LEMMA AnswerLogoutStep ==
  ASSUME LoginInvariant, NEW l \in Logouts, AnswerLogout(l)
  PROVE  LoginParts'
<1> USE DEF LoginInvariant, LoginParts, SignInTypeOK
<1> DEFINE b == logout[l].browser
<1>1. logout[l] # None /\ logout[l].stage = "done" /\ b \in Browsers
      /\ logout[l].session \in Callbacks
  BY DEF AnswerLogout, LogoutAt, Logout
<1>2. LogoutBecomes(l, "answered", b, logout[l].session)
  BY LogoutIs
<1>3. /\ cookie'[b] = None /\ \A o \in Browsers \ {b} : cookie'[o] = cookie[o]
      /\ UNCHANGED <<transaction, code, identities, session, callback>>
  BY <1>1 DEF AnswerLogout
<1>4. CallbacksFit' /\ BurnedOnce' /\ Sessions' /\ OneIdentity' /\ NewIdentitiesAreOnly'
  BY <1>3, LogoutKeeps
<1>5. \A m \in Logouts : logout'[m] # None =>
        /\ logout[m] # None /\ logout'[m].session = logout[m].session
        /\ logout'[m].browser = logout[m].browser
        /\ logout'[m].stage # "answered" => logout'[m] = logout[m]
  BY <1>1, <1>2 DEF LogoutBecomes
<1>6. Cookies'
  BY <1>3, <1>5 DEF Cookies, At
<1>7. PriorsAreHeld'
  <2>1. \A j \in Callbacks : Flies(j) => callback[j].browser \in Browsers
    BY DEF Flies, Callback
  <2>2. \A m \in Logouts : Leaves(m)' => Leaves(m) /\ logout'[m] = logout[m]
                                         /\ logout[m].browser \in Browsers
    BY <1>5 DEF Leaves, Logout
  <2>3. \A m \in Logouts : LogoutAt(m, "done")' =>
          LogoutAt(m, "done") /\ logout'[m] = logout[m]
    BY <1>5 DEF LogoutAt
  <2>4. \A j \in Callbacks : Flies(j)' =>
          LET held == cookie'[callback'[j].browser] IN
          held # None => j \in callback'[held].crossed \/ callback'[j].prior = held
    BY <1>3, <2>1 DEF PriorsAreHeld, Flies
  <2>5. \A m \in Logouts : Leaves(m)' =>
          LET held == cookie'[logout'[m].browser] IN
          held # None => m \in callback'[held].crossed \/ logout'[m].session = held
    BY <1>3, <2>2 DEF PriorsAreHeld
  <2>6. \A j \in Callbacks : At(j, "committed")' /\ callback'[j].prior # None =>
          session'[callback'[j].prior].revoked
    BY <1>3 DEF PriorsAreHeld, At
  <2> QED BY <1>3, <2>3, <2>4, <2>5, <2>6 DEF PriorsAreHeld
<1>8. LiveSessionsAreHeld'
  <2>1. \A r : Answered(r) => Answered(r)'
    BY <1>1, <1>2, <1>3 DEF Answered, At, LogoutAt, LogoutBecomes
  <2>2. Answered(l)'
    BY <1>2 DEF Answered, LogoutAt, LogoutBecomes
  <2>3. ASSUME NEW j \in Callbacks, session[j] # None, ~session[j].revoked,
               cookie[callback[j].browser] = j
        PROVE  \/ cookie'[callback[j].browser] = j
               \/ \E r \in callback[j].crossed : Answered(r)'
    <3>1. callback[j].browser \in Browsers
      BY <2>3 DEF Sessions, Callback
    <3>2. CASE callback[j].browser = b
      <4>1. l \in callback[j].crossed \/ logout[l].session = j
        BY <1>1, <2>3, <3>2, SignInAssumption DEF PriorsAreHeld, Leaves
      <4>2. logout[l].session # j
        BY <1>1, <2>3 DEF PriorsAreHeld, LogoutAt
      <4> QED BY <2>2, <4>1, <4>2
    <3>3. CASE callback[j].browser # b
      BY <1>3, <2>3, <3>1, <3>3
    <3> QED BY <3>2, <3>3
  <2> QED BY <1>3, <2>1, <2>3 DEF LiveSessionsAreHeld
<1> QED BY <1>4, <1>6, <1>7, <1>8

-----------------------------------------------------------------------------

LEMMA LoginStep == LoginInvariant /\ [SignInNext]_signInVars => LoginInvariant'
<1> SUFFICES ASSUME LoginInvariant, [SignInNext]_signInVars PROVE LoginInvariant'
  OBVIOUS
<1>1. CASE UNCHANGED signInVars
  <2>1. SignInTypeOK' /\ BindingsAreOpen'
    BY <1>1 DEF signInVars, LoginInvariant, SignInTypeOK, BindingsAreOpen
  <2>2. Grows
    BY <1>1 DEF signInVars, Grows
  <2> QED BY <1>1, <2>1, <2>2, QuietStep DEF signInVars, LoginInvariant
<1>2. CASE SignInNext
  <2>1. SignInTypeOK' /\ BindingsAreOpen' /\ Grows
    BY <1>2, TypeStep, BindingsStep, GrowsStep
  <2>2. SUFFICES LoginParts'
    BY <2>1 DEF LoginInvariant
  <2>3. ASSUME UNCHANGED <<callback, logout, session, cookie, identities>>
        PROVE  LoginParts'
    BY <2>1, <2>3, QuietStep
  <2>4. ASSUME NEW b \in Browsers, NEW t \in Transactions, Login(b, t) PROVE LoginParts'
    BY <2>3, <2>4 DEF Login
  <2>5. ASSUME NEW t \in Transactions,
               TransactionExpires(t) \/ \E s \in People : Authorize(t, s)
        PROVE  LoginParts'
    BY <2>3, <2>5 DEF TransactionExpires, Authorize
  <2>6. CASE (\E d \in Deployments : Deploy(d)) \/ ProviderRotatesKey \/ CacheExpires
    BY <2>3, <2>6 DEF Deploy, ProviderRotatesKey, CacheExpires
  <2>7. ASSUME NEW l \in Logouts, LogoutStep(l) PROVE LoginParts'
    BY <2>7, SendLogoutStep, CommitLogoutStep, AnswerLogoutStep DEF LogoutStep
  <2>8. ASSUME NEW k \in Callbacks, NEW b \in Browsers, NEW t \in Transactions,
               NEW c \in Transactions \cup {None}, Send(k, b, t, c)
        PROVE  LoginParts'
    <3>1. Sent(k, b, t, c)
      BY <2>8, SendIs DEF LoginInvariant
    <3> QED BY <2>8, <3>1, SendStep DEF Send
  <2>9. ASSUME NEW k \in Callbacks, BurnState(k)
        PROVE  LoginParts'
    <3>1. Becomes(k, "burned", callback[k].person, callback[k].identity, callback[k].crossed)
      BY <2>9, StageBecomes DEF BurnState, At, Stage, LoginInvariant
    <3>2. /\ callback[k].transaction \in Transactions
          /\ transaction[callback[k].transaction] \in AuthTransaction
      BY <2>9 DEF BurnState, At, Callback, LoginInvariant, SignInTypeOK, LoginParts,
         CallbacksFit, CallbackFits
    <3>3. transaction'[callback[k].transaction].consumed
      <4> DEFINE a == transaction[callback[k].transaction]
      <4>1. transaction'[callback[k].transaction] = [a EXCEPT !.consumed = TRUE]
        BY <2>9, <3>2 DEF BurnState, Consume, LoginInvariant, SignInTypeOK
      <4>2. a \in AuthTransaction
        BY <3>2
      <4> HIDE DEF a
      <4> QED BY <4>1, <4>2 DEF AuthTransaction
    <3> QED BY <2>1, <2>9, <3>1, <3>3, BurnStep DEF BurnState, Admissible
  <2>10. ASSUME NEW k \in Callbacks,
                \/ RefuseCallback(k) \/ ProviderError(k) \/ RespondError(k)
                \/ RefuseExchange(k) \/ ExchangeFails(k) \/ RefuseIdentity(k) \/ Stops(k)
         PROVE  LoginParts'
    <3> USE DEF RefuseCallback, ProviderError, RespondError, RefuseExchange, ExchangeFails,
                RefuseIdentity, Stops
    <3>1. /\ Flies(k) \/ At(k, "cancelled")
          /\ At(k, "committed") => Stops(k)
          /\ ExchangeFails(k) \/ Stops(k) => Burned(k)
      BY <2>10 DEF At, Flies, Burned, InFlight, Running, InDatabase
    <3>2. PICK stage \in {"refused", "cancelled", "lost"} :
            /\ callback' = [callback EXCEPT ![k].stage = stage]
            /\ stage = "lost" => Burned(k)
            /\ stage # "lost" => ~At(k, "committed")
      BY <2>10, <3>1 DEF At
    <3>3. Becomes(k, stage, callback[k].person, callback[k].identity, callback[k].crossed)
      BY <3>1, <3>2, StageBecomes DEF Flies, At, Stage, LoginInvariant
    <3>4. UNCHANGED <<logout, session, cookie, identities>>
      BY <2>10
    <3> QED BY <2>1, <3>1, <3>2, <3>3, <3>4, EndStep
  <2>11. ASSUME NEW k \in Callbacks,
                Exchange(k) \/ Resolve(k) \/ CommitSession(k) \/ Respond(k)
         PROVE  LoginParts'
    BY <2>1, <2>11, ExchangeStep, ResolveStep, CommitStep, RespondStep
  <2> QED BY <1>2, <2>4, <2>5, <2>6, <2>7, <2>8, <2>9, <2>10, <2>11
          DEF SignInNext, CallbackStep
<1> QED BY <1>1, <1>2

\* The inductive invariant holds of every login, callback, logout, deployment
\* and fault, whatever their number.
THEOREM LoginInvariantHolds == SignInSpec => []LoginInvariant
BY LoginStart, LoginStep, PTL DEF SignInSpec

\* Every variable of the sign-in keeps to its type.
THEOREM SignInTypeCorrect == SignInSpec => []SignInTypeOK
<1>1. LoginInvariant => SignInTypeOK
  BY DEF LoginInvariant
<1> QED BY <1>1, LoginInvariantHolds, PTL

\* A session comes from one login of its browser and is of the person whom the
\* provider named in its answer to that login, under an identity that is the
\* person's only one (callback in api.py).
THEOREM SessionsAnswer == SignInSpec => []SessionsAnswerTheirLogin
<1>1. LoginInvariant => SessionsAnswerTheirLogin
  <2> SUFFICES ASSUME LoginInvariant PROVE SessionsAnswerTheirLogin
    OBVIOUS
  <2> USE DEF LoginInvariant, LoginParts, SignInTypeOK
  <2>1. ASSUME NEW k \in Callbacks, session[k] # None
        PROVE  LET t == callback[k].transaction IN
               /\ transaction[t].browser = callback[k].browser
               /\ session[k].identity \in identities
               /\ session[k].identity.person = code[t].person
               /\ session[k].profile = transaction[t].deployment.profile
               /\ \A j \in Callbacks \ {k} :
                    session[j] # None => callback[j].transaction # t
    <3>1. \A j \in Callbacks : session[j] # None => Burned(j)
      BY DEF Sessions, Burned, Running
    <3>2. callback[k] # None /\ CallbackFits(k) /\ Burned(k)
      BY <2>1, <3>1 DEF Burned, CallbacksFit
    <3> QED BY <2>1, <3>1, <3>2 DEF Sessions, CallbackFits, BurnedOnce
  <2> QED BY <2>1 DEF SessionsAnswerTheirLogin, OneIdentity
<1> QED BY <1>1, LoginInvariantHolds, PTL

\* A session that can still be used is in its browser or in a response to it,
\* unless that response was lost, or a callback or logout that the browser had
\* sent before that response was answered after it (callback and logout in
\* api.py).
THEOREM LiveSessionsHeld == SignInSpec => []LiveSessionsAreHeld
<1>1. LoginInvariant => LiveSessionsAreHeld
  BY DEF LoginInvariant, LoginParts
<1> QED BY <1>1, LoginInvariantHolds, PTL
=============================================================================
