-------------------------- MODULE CompanyLifecycle --------------------------
(***************************************************************************)
(* Companies, invitations, memberships and the sessions that speak for     *)
(* them.  A request reads its session and its actor first, without a lock  *)
(* (resolve_session, resolve_actor), then takes row locks one by one, and  *)
(* commits once.  The model keeps a request's steps apart wherever another *)
(* request can commit between them: between the first read and the locks,  *)
(* between the locks of an acceptance (company and invitation, then        *)
(* identity), and between the two questions that company creation asks     *)
(* under the lock of the identity (has it a membership, has it an          *)
(* invitation), which are statements of their own under READ COMMITTED.    *)
(*                                                                         *)
(* uq_membership_company_identity makes a membership a pair of a company   *)
(* and an identity.  An identity is its provider profile and its subject   *)
(* (uq_identity_profile_issuer_subject; the issuer is that of the profile).*)
(***************************************************************************)
EXTENDS Integers, FiniteSets

CONSTANTS
    Identities,    \* records [profile, subject]
    Companies,     \* companies that can exist
    FirstCompany,  \* the company that exists at the start
    Founder,       \* its owner
    Invitations,   \* bound: invitations that can be issued
    Sessions,      \* signed-in sessions
    SessionOf,     \* the identity of each session
    Requests,      \* bound: requests in flight at once
    Keys,          \* idempotency keys of company creation
    Names,         \* company names
    InvitedRoles,  \* roles an invitation is issued for
    None

Role == {"COMPANY_OWNER", "COMPANY_ADMIN", "MEMBER", "EXPERT"}

\* Role.can_invite.
CanInvite == {"COMPANY_OWNER", "COMPANY_ADMIN"}

\* The roles change_role moves a member between.
AssignableRoles == {"MEMBER", "COMPANY_ADMIN"}

ASSUME LifecycleAssumption ==
    /\ FirstCompany \in Companies
    /\ Founder \in Identities
    /\ SessionOf \in [Sessions -> Identities]
    /\ InvitedRoles \subseteq Role \ {"COMPANY_OWNER"}
    /\ None \notin Companies \cup Identities

VARIABLES
    founded,   \* companies that exist
    member,    \* membership row of each company and identity
    invite,    \* invitation rows
    creation,  \* company_creation_commands by identity and key
    session,   \* revoked_at and membership_id of each session
    request    \* requests in flight

companyVars == <<founded, member, invite, creation, session, request>>

NoMembership == [role |-> "NONE", active |-> FALSE]
Membership == [role: Role, active: BOOLEAN] \cup {NoMembership}

NoInvitation == [company |-> None]
Invitation ==
    [company: Companies, to: [profile: {i.profile : i \in Identities},
                              subject: {i.subject : i \in Identities}],
     role: InvitedRoles, revoked: BOOLEAN, expired: BOOLEAN,
     consumedBy: Identities \cup {None}]

Command == [company: Companies, name: Names]

ASSUME NoneAssumption == None \notin Command

Idle == [stage |-> "idle"]
Creating ==
    [op: {"create"}, stage: {"read", "free"}, session: Sessions, key: Keys,
     name: Names]
Accepting ==
    [op: {"accept"}, stage: {"read", "matched"}, session: Sessions,
     invitation: Invitations]
Managing ==
    [op: {"manage"}, stage: {"read"}, session: Sessions, company: Companies]

\* The constraints of the tables these rows are kept in.
LifecycleTypeOK ==
    /\ founded \subseteq Companies
    /\ member \in [Companies -> [Identities -> Membership]]
    /\ invite \in [Invitations -> Invitation \cup {NoInvitation}]
    /\ creation \in [Identities -> [Keys -> Command \cup {None}]]
    /\ session \in [Sessions -> [revoked: BOOLEAN, company: Companies \cup {None}]]
    /\ request \in [Requests -> {Idle} \cup Creating \cup Accepting \cup Managing]

LifecycleInit ==
    /\ founded = {FirstCompany}
    /\ member = [c \in Companies |-> [i \in Identities |->
                    IF c = FirstCompany /\ i = Founder
                    THEN [role |-> "COMPANY_OWNER", active |-> TRUE]
                    ELSE NoMembership]]
    /\ invite = [n \in Invitations |-> NoInvitation]
    /\ creation = [i \in Identities |-> [k \in Keys |-> None]]
    /\ session = [s \in Sessions |->
                    [revoked |-> FALSE,
                     company |-> IF SessionOf[s] = Founder THEN FirstCompany ELSE None]]
    /\ request = [r \in Requests |-> Idle]

-----------------------------------------------------------------------------
(* What the queries find.                                                   *)

ActiveMembership(c, i) == c \in founded /\ member[c][i].active

HasActiveMembership(i) == \E c \in Companies : ActiveMembership(c, i)

ActiveOwners(c) ==
    {i \in Identities : member[c][i] = [role |-> "COMPANY_OWNER", active |-> TRUE]}

IsFor(n, i) == invite[n].to = i

EligibleInvitation(i) ==
    \E n \in Invitations :
        /\ invite[n] # NoInvitation
        /\ IsFor(n, i)
        /\ ~invite[n].revoked /\ ~invite[n].expired
        /\ invite[n].consumedBy = None

\* resolve_session
SignedIn(s) == ~session[s].revoked

\* resolve_actor: the company the session speaks for, if its member is active.
SpeaksFor(s, c) ==
    /\ SignedIn(s)
    /\ session[s].company = c
    /\ ActiveMembership(c, SessionOf[s])

(* Row locks, by what the requests in flight have taken.                    *)
Holds(r, op, stage) == request[r] # Idle /\ request[r].op = op /\ request[r].stage = stage

IdentityHeld(i) ==
    \E r \in Requests : Holds(r, "create", "free") /\ SessionOf[request[r].session] = i

SessionHeld(s) ==
    \E r \in Requests : Holds(r, "create", "free") /\ request[r].session = s

CompanyHeld(c) ==
    \E r \in Requests :
        Holds(r, "accept", "matched") /\ invite[request[r].invitation].company = c

Ends(r) == request' = [request EXCEPT ![r] = Idle]

-----------------------------------------------------------------------------
(* Wrong variants of the definitions below, each the effect of a plausible  *)
(* mistake in the code; no specification uses them.                         *)

\* A consumed invitation may still be withdrawn.
RevocableEvenUsed(n, c) == invite[n] # NoInvitation /\ invite[n].company = c

\* Everybody may be removed, the manager included.
RemovableByAnyone(c, manager, i) ==
    member[c][i] # NoMembership

\* A removed member may come back with a new invitation.
Rejoinable(c, i) == ~member[c][i].active

\* An invitation carries the role of the member who issues it.
IssueOwnRole(r, n, subject, role) ==
    LET c == request[r].company
        i == SessionOf[request[r].session]
    IN  /\ Holds(r, "manage", "read")
        /\ ~CompanyHeld(c)
        /\ ~IdentityHeld(i)
        /\ ActiveMembership(c, i)
        /\ member[c][i].role \in CanInvite
        /\ Ends(r)
        /\ invite[n] = NoInvitation
        /\ invite' = [invite EXCEPT ![n] =
                        [company |-> c, to |-> [profile |-> i.profile, subject |-> subject],
                         role |-> member[c][i].role, revoked |-> FALSE, expired |-> FALSE,
                         consumedBy |-> None]]
        /\ UNCHANGED <<founded, member, creation, session>>

-----------------------------------------------------------------------------
(* Company creation: POST /api/companies.                                   *)

CreateBegins(r, s, k, name) ==
    /\ request[r] = Idle
    /\ SignedIn(s)
    /\ request' = [request EXCEPT ![r] = [op |-> "create", stage |-> "read",
                                          session |-> s, key |-> k, name |-> name]]
    /\ UNCHANGED <<founded, member, invite, creation, session>>

\* What lock_active_session_for_creation selects for update.
ActiveSessionRow(s) == ~session[s].revoked

\* A replay under the same key points the session at the company of the
\* first call; with another name, or without the membership, it is refused.
ReplayCreation(r) ==
    LET s == request[r].session
        i == SessionOf[s]
        command == creation[i][request[r].key]
    IN  /\ command # None
        /\ Ends(r)
        /\ session' = IF command.name = request[r].name /\ ActiveMembership(command.company, i)
                      THEN [session EXCEPT ![s].company = command.company]
                      ELSE session
        /\ UNCHANGED <<founded, member, invite, creation>>

\* Locks the identity, then the session; reads the command, then the memberships.
CreateLocks(r) ==
    LET s == request[r].session
        i == SessionOf[s]
    IN  /\ Holds(r, "create", "read")
        /\ ~IdentityHeld(i)
        /\ \/ /\ ~ActiveSessionRow(s)
              /\ Ends(r)
              /\ UNCHANGED <<founded, member, invite, creation, session>>
           \/ ActiveSessionRow(s) /\ ReplayCreation(r)
           \/ /\ ActiveSessionRow(s)
              /\ creation[i][request[r].key] = None
              /\ request' = [request EXCEPT ![r] = IF HasActiveMembership(i) THEN Idle
                                                   ELSE [@ EXCEPT !.stage = "free"]]
              /\ UNCHANGED <<founded, member, invite, creation, session>>

\* create_company_with_owner
FoundCompany(r, c) ==
    LET s == request[r].session
        i == SessionOf[s]
    IN  /\ c \notin founded
        /\ founded' = founded \cup {c}
        /\ member' = [member EXCEPT ![c][i] = [role |-> "COMPANY_OWNER", active |-> TRUE]]
        /\ creation' = [creation EXCEPT ![i][request[r].key] =
                            [company |-> c, name |-> request[r].name]]
        /\ session' = [session EXCEPT ![s].company = c]

CreateFinishes(r) ==
    /\ Holds(r, "create", "free")
    /\ Ends(r)
    /\ UNCHANGED invite
    /\ IF EligibleInvitation(SessionOf[request[r].session])
       THEN UNCHANGED <<founded, member, creation, session>>
       ELSE \E c \in Companies : FoundCompany(r, c)

-----------------------------------------------------------------------------
(* Acceptance: POST /api/invitations/accept.                                *)

AcceptBegins(r, s, n) ==
    /\ request[r] = Idle
    /\ SignedIn(s)
    /\ invite[n] # NoInvitation
    /\ request' = [request EXCEPT ![r] = [op |-> "accept", stage |-> "read",
                                          session |-> s, invitation |-> n]]
    /\ UNCHANGED <<founded, member, invite, creation, session>>

\* The invitation can be consumed by the identity.
Acceptable(n, i) ==
    /\ invite[n].consumedBy = None
    /\ ~invite[n].revoked
    /\ ~invite[n].expired
    /\ IsFor(n, i)

\* A second acceptance by the identity that consumed it answers as the first.
ReplayAcceptance(r) ==
    LET n == request[r].invitation
        s == request[r].session
        i == SessionOf[s]
    IN  /\ invite[n].consumedBy = i
        /\ ActiveMembership(invite[n].company, i)
        /\ ~IdentityHeld(i) /\ ~SessionHeld(s)
        /\ Ends(r)
        /\ session' = [session EXCEPT ![s].company = invite[n].company]
        /\ UNCHANGED <<founded, member, invite, creation>>

\* Locks the company, then the invitation, and reads it again.
AcceptLocks(r) ==
    LET n == request[r].invitation
        i == SessionOf[request[r].session]
    IN  /\ Holds(r, "accept", "read")
        /\ ~CompanyHeld(invite[n].company)
        /\ \/ ReplayAcceptance(r)
           \/ /\ ~Acceptable(n, i)
              /\ ~(invite[n].consumedBy = i /\ ActiveMembership(invite[n].company, i))
              /\ Ends(r)
              /\ UNCHANGED <<founded, member, invite, creation, session>>
           \/ /\ Acceptable(n, i)
              /\ request' = [request EXCEPT ![r].stage = "matched"]
              /\ UNCHANGED <<founded, member, invite, creation, session>>

\* An identity joins a company once: a removed member is refused.
Joinable(c, i) == member[c][i] = NoMembership

\* Locks the identity and adds the membership.
AcceptFinishes(r) ==
    LET n == request[r].invitation
        c == invite[n].company
        i == SessionOf[request[r].session]
    IN  /\ Holds(r, "accept", "matched")
        /\ ~IdentityHeld(i)
        /\ Ends(r)
        /\ IF ~Joinable(c, i)
           THEN UNCHANGED <<founded, member, invite, creation, session>>
           ELSE /\ member' = [member EXCEPT ![c][i] = [role |-> invite[n].role, active |-> TRUE]]
                /\ invite' = [invite EXCEPT ![n].consumedBy = i]
                /\ session' = [session EXCEPT ![request[r].session].company = c]
                /\ UNCHANGED <<founded, creation>>

-----------------------------------------------------------------------------
(* Management of a company: invitations, removals and roles.                *)

ManageBegins(r, s, c) ==
    /\ request[r] = Idle
    /\ SpeaksFor(s, c)
    /\ request' = [request EXCEPT ![r] = [op |-> "manage", stage |-> "read",
                                          session |-> s, company |-> c]]
    /\ UNCHANGED <<founded, member, invite, creation, session>>

\* The company is locked, and the actor read again with its membership and
\* identity (active_actor with lock).
CurrentManager(r) ==
    LET c == request[r].company
        i == SessionOf[request[r].session]
    IN  /\ Holds(r, "manage", "read")
        /\ ~CompanyHeld(c)
        /\ ~IdentityHeld(i)
        /\ ActiveMembership(c, i)
        /\ member[c][i].role \in CanInvite
        /\ Ends(r)

\* The actor is not, or no longer, a manager: Forbidden.
ManageRefused(r) ==
    LET c == request[r].company
        i == SessionOf[request[r].session]
    IN  /\ Holds(r, "manage", "read")
        /\ ~CompanyHeld(c)
        /\ ~IdentityHeld(i)
        /\ ~(ActiveMembership(c, i) /\ member[c][i].role \in CanInvite)
        /\ Ends(r)
        /\ UNCHANGED <<founded, member, invite, creation, session>>

\* create_invitation
NewInvitation(c, profile, subject, role) ==
    [company |-> c, to |-> [profile |-> profile, subject |-> subject], role |-> role,
     revoked |-> FALSE, expired |-> FALSE, consumedBy |-> None]

\* The invitee signs in with the provider profile of the manager.
Issue(r, n, subject, role) ==
    LET profile == SessionOf[request[r].session].profile IN
        /\ CurrentManager(r)
        /\ invite[n] = NoInvitation
        /\ invite' = [invite EXCEPT ![n] =
                        NewInvitation(request[r].company, profile, subject, role)]
        /\ UNCHANGED <<founded, member, creation, session>>

Revocable(n, c) ==
    /\ invite[n] # NoInvitation
    /\ invite[n].company = c
    /\ invite[n].consumedBy = None

Revoke(r, n) ==
    /\ CurrentManager(r)
    /\ Revocable(n, request[r].company)
    /\ invite' = [invite EXCEPT ![n].revoked = TRUE]
    /\ UNCHANGED <<founded, member, creation, session>>

\* Whom a manager may remove: never themselves, and an owner only by another
\* owner while a second one is active (no handler makes a second owner).
Removable(c, manager, i) ==
    /\ member[c][i] # NoMembership
    /\ i # manager
    /\ member[c][i].role = "COMPANY_OWNER" =>
           /\ member[c][manager].role = "COMPANY_OWNER"
           /\ Cardinality(ActiveOwners(c)) > 1

Deactivate(r, i) ==
    LET c == request[r].company IN
    /\ CurrentManager(r)
    /\ Removable(c, SessionOf[request[r].session], i)
    /\ member' = [member EXCEPT ![c][i].active = FALSE]
    /\ UNCHANGED <<founded, invite, creation, session>>

ChangeRole(r, i, role) ==
    LET c == request[r].company
        manager == SessionOf[request[r].session]
    IN  /\ CurrentManager(r)
        /\ member[c][manager].role = "COMPANY_OWNER"
        /\ member[c][i].active
        /\ member[c][i].role \in AssignableRoles
        /\ member' = [member EXCEPT ![c][i].role = role]
        /\ UNCHANGED <<founded, invite, creation, session>>

-----------------------------------------------------------------------------
(* Sessions and time.                                                       *)

\* select_company points the session at one of the identity's memberships.
SelectCompany(s, c) ==
    /\ SignedIn(s)
    /\ ~SessionHeld(s)
    /\ ActiveMembership(c, SessionOf[s])
    /\ session' = [session EXCEPT ![s].company = c]
    /\ UNCHANGED <<founded, member, invite, creation, request>>

\* logout, or the rotation of a session at the next sign-in.
Logout(s) ==
    /\ SignedIn(s)
    /\ ~SessionHeld(s)
    /\ session' = [session EXCEPT ![s].revoked = TRUE]
    /\ UNCHANGED <<founded, member, invite, creation, request>>

InvitationExpires(n) ==
    /\ invite[n] # NoInvitation
    /\ ~invite[n].expired
    /\ invite' = [invite EXCEPT ![n].expired = TRUE]
    /\ UNCHANGED <<founded, member, creation, session, request>>

\* The process stops or a refusal is raised: the transaction is rolled back.
RolledBack(r) ==
    /\ request[r] # Idle
    /\ Ends(r)
    /\ UNCHANGED <<founded, member, invite, creation, session>>

Manage(r) ==
    \/ ManageRefused(r)
    \/ \E n \in Invitations, i \in Identities, role \in InvitedRoles :
            Issue(r, n, i.subject, role)
    \/ \E n \in Invitations : Revoke(r, n)
    \/ \E i \in Identities : Deactivate(r, i)
    \/ \E i \in Identities, role \in AssignableRoles : ChangeRole(r, i, role)

LifecycleNext ==
    \/ \E r \in Requests :
        \/ \E s \in Sessions, k \in Keys, name \in Names : CreateBegins(r, s, k, name)
        \/ CreateLocks(r)
        \/ CreateFinishes(r)
        \/ \E s \in Sessions, n \in Invitations : AcceptBegins(r, s, n)
        \/ AcceptLocks(r)
        \/ AcceptFinishes(r)
        \/ \E s \in Sessions, c \in Companies : ManageBegins(r, s, c)
        \/ Manage(r)
        \/ RolledBack(r)
    \/ \E s \in Sessions : Logout(s) \/ \E c \in Companies : SelectCompany(s, c)
    \/ \E n \in Invitations : InvitationExpires(n)

LifecycleSpec == LifecycleInit /\ [][LifecycleNext]_companyVars

-----------------------------------------------------------------------------
(* Properties.                                                              *)

\* A company always has an active owner: no invitation, change of role or
\* removal takes the founder's place away (the tests on owners of
\* MembershipService.deactivate and change_role).
CompaniesKeepAnOwner == \A c \in founded : ActiveOwners(c) # {}

\* A membership is the founder's, or comes from one invitation of that
\* company, issued to that very profile and subject and consumed by it; a
\* consumed invitation was never withdrawn (accept against revoke).
MembersWereInvited ==
    /\ \A c \in Companies, i \in Identities :
         member[c][i] # NoMembership =>
            \/ c = FirstCompany /\ i = Founder
            \/ \E k \in Keys : creation[i][k] # None /\ creation[i][k].company = c
            \/ \E n \in Invitations :
                 invite[n] # NoInvitation /\ invite[n].company = c
                 /\ invite[n].consumedBy = i /\ invite[n].to = i
    /\ \A n \in Invitations :
         invite[n] # NoInvitation /\ invite[n].consumedBy # None =>
            /\ ~invite[n].revoked
            /\ member[invite[n].company][invite[n].consumedBy] # NoMembership

\* A removed member stays removed: no request, replay or invitation brings
\* the membership back.
RemovalIsFinal ==
    [][\A c \in Companies, i \in Identities :
          member[c][i] # NoMembership /\ ~member[c][i].active => ~member'[c][i].active
      ]_companyVars
=============================================================================
