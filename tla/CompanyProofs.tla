--------------------------- MODULE CompanyProofs ----------------------------
(***************************************************************************)
(* Proofs that a company keeps an owner, that memberships come from an     *)
(* invitation or a founding, and that a removal is final, whatever the     *)
(* requests read before their locks.                                       *)
(***************************************************************************)
EXTENDS CompanyLifecycle, TLAPS

\* Memberships and invitations are of companies that exist.
OnlyOfFounded ==
    /\ \A c \in Companies \ founded, i \in Identities : member[c][i] = NoMembership
    /\ \A n \in Invitations : invite[n] # NoInvitation => invite[n].company \in founded

\* The locks of an identity and of a company have one holder, and what it has
\* read under them still holds.
IdentityLocks ==
    /\ \A q, r \in Requests :
         q # r /\ Holds(q, "create", "free") /\ Holds(r, "create", "free") =>
            SessionOf[request[q].session] # SessionOf[request[r].session]
    /\ \A r \in Requests : Holds(r, "create", "free") =>
         creation[SessionOf[request[r].session]][request[r].key] = None

CompanyLocks ==
    /\ \A q, r \in Requests :
         q # r /\ Holds(q, "accept", "matched") /\ Holds(r, "accept", "matched") =>
            invite[request[q].invitation].company # invite[request[r].invitation].company
    /\ \A r \in Requests : Holds(r, "accept", "matched") =>
         LET n == request[r].invitation IN
         /\ ~invite[n].revoked /\ invite[n].consumedBy = None
         /\ invite[n].to = SessionOf[request[r].session]
    /\ \A r \in Requests :
         Holds(r, "accept", "read") \/ Holds(r, "accept", "matched") =>
            invite[request[r].invitation] # NoInvitation

\* What the rows say of one another.
Rows ==
    /\ OnlyOfFounded
    /\ CompaniesKeepAnOwner
    /\ MembersWereInvited

CompanyInvariant ==
    /\ LifecycleTypeOK
    /\ IdentityLocks
    /\ CompanyLocks
    /\ Rows

-----------------------------------------------------------------------------
(* The steps, named once.                                                   *)

\* The steps that change no row but a session.
Quiet == UNCHANGED <<founded, member, invite, creation>>

\* The other requests are left alone by a step of r.
OthersWait(r) == \A q \in Requests \ {r} : request'[q] = request[q]

\* A held request is what its operation and stage say: the lock of an
\* identity is a creation's, the lock of a company an acceptance's.
LEMMA HoldersFit ==
    ASSUME LifecycleTypeOK, NEW r \in Requests
    PROVE  /\ \A stage : Holds(r, "create", stage) => request[r] \in Creating
           /\ \A stage : Holds(r, "accept", stage) => request[r] \in Accepting
           /\ \A stage : Holds(r, "manage", stage) => request[r] \in Managing
  BY DEF LifecycleTypeOK, Holds, Creating, Accepting, Managing, Idle

\* An invitation row is a record of its company, never the absent one.
LEMMA RowsAreRecords ==
    ASSUME LifecycleTypeOK, NEW n \in Invitations, invite[n] # NoInvitation
    PROVE  invite[n] \in Invitation
  BY DEF LifecycleTypeOK

\* LifecycleTypeOK holds at the start, with the rest of the invariant.
LEMMA LifecycleStart == LifecycleInit => CompanyInvariant
<1> SUFFICES ASSUME LifecycleInit PROVE CompanyInvariant
  OBVIOUS
<1>1. LifecycleTypeOK
  <2>1. member \in [Companies -> [Identities -> Membership]]
    BY DEF LifecycleInit, Membership, NoMembership, Role
  <2>2. session \in [Sessions -> [revoked: BOOLEAN, company: Companies \cup {None}]]
    BY LifecycleAssumption DEF LifecycleInit
  <2>3. QED
    BY <2>1, <2>2, LifecycleAssumption DEF LifecycleInit, LifecycleTypeOK
<1>2. OnlyOfFounded /\ IdentityLocks /\ CompanyLocks
  BY LifecycleAssumption
     DEF LifecycleInit, OnlyOfFounded, IdentityLocks, CompanyLocks, Holds
<1>3. CompaniesKeepAnOwner
  BY LifecycleAssumption DEF LifecycleInit, CompaniesKeepAnOwner, ActiveOwners
<1>4. MembersWereInvited
  BY DEF LifecycleInit, MembersWereInvited, NoMembership
<1>5. QED
  BY <1>1, <1>2, <1>3, <1>4 DEF CompanyInvariant, Rows

-----------------------------------------------------------------------------
(* Type correctness.                                                        *)

LEMMA CreationTyped ==
    ASSUME LifecycleTypeOK, NEW r \in Requests, CreateLocks(r) \/ CreateFinishes(r)
    PROVE  LifecycleTypeOK'
<1> DEFINE held == request[r]
           i == SessionOf[held.session]
<1>1. held \in Creating /\ i \in Identities /\ held.session \in Sessions /\ held.key \in Keys
    /\ held.name \in Names
  <2>1. held \in Creating
    BY HoldersFit DEF CreateLocks, CreateFinishes
  <2>2. QED
    BY <2>1, LifecycleAssumption DEF Creating
<1>2. [held EXCEPT !.stage = "free"] \in Creating
  BY <1>1 DEF Creating
<1>3. CASE CreateLocks(r)
  <2> DEFINE command == creation[i][held.key]
  <2>1. request' \in [Requests -> {Idle} \cup Creating \cup Accepting \cup Managing]
    BY <1>2, <1>3 DEF CreateLocks, ReplayCreation, Ends, LifecycleTypeOK
  <2>2. session' \in [Sessions -> [revoked: BOOLEAN, company: Companies \cup {None}]]
    <3>1. command # None => command.company \in Companies
      BY <1>1 DEF LifecycleTypeOK, Command
    <3>2. \/ session' = session
          \/ /\ command # None
             /\ session' = [session EXCEPT ![held.session].company = command.company]
      BY <1>3 DEF CreateLocks, ReplayCreation
    <3>3. QED
      BY <1>1, <3>1, <3>2 DEF LifecycleTypeOK
  <2>3. UNCHANGED <<founded, member, invite, creation>>
    BY <1>3 DEF CreateLocks, ReplayCreation
  <2>4. QED
    BY <2>1, <2>2, <2>3 DEF LifecycleTypeOK
<1>4. CASE CreateFinishes(r)
  <2>1. request' \in [Requests -> {Idle} \cup Creating \cup Accepting \cup Managing]
    BY <1>4 DEF CreateFinishes, Ends, LifecycleTypeOK
  <2>2. CASE EligibleInvitation(i)
    BY <1>4, <2>1, <2>2 DEF CreateFinishes, LifecycleTypeOK
  <2>3. ASSUME NEW c \in Companies, FoundCompany(r, c), UNCHANGED invite
        PROVE  LifecycleTypeOK'
    <3>1. founded' \subseteq Companies
      BY <2>3 DEF FoundCompany, LifecycleTypeOK
    <3>2. member' \in [Companies -> [Identities -> Membership]]
      <4>1. [role |-> "COMPANY_OWNER", active |-> TRUE] \in Membership
        BY DEF Membership, Role
      <4>2. QED
        BY <1>1, <2>3, <4>1 DEF FoundCompany, LifecycleTypeOK
    <3>3. creation' \in [Identities -> [Keys -> Command \cup {None}]]
      <4>1. [company |-> c, name |-> held.name] \in Command
        BY <1>1 DEF Command
      <4>2. QED
        BY <1>1, <2>3, <4>1 DEF FoundCompany, LifecycleTypeOK
    <3>4. session' \in [Sessions -> [revoked: BOOLEAN, company: Companies \cup {None}]]
      BY <1>1, <2>3 DEF FoundCompany, LifecycleTypeOK
    <3>5. QED
      BY <2>1, <2>3, <3>1, <3>2, <3>3, <3>4 DEF LifecycleTypeOK
  <2>4. QED
    BY <1>4, <2>2, <2>3 DEF CreateFinishes
<1>5. QED
  BY <1>3, <1>4

LEMMA MembershipWritten ==
    ASSUME LifecycleTypeOK, NEW c \in Companies, NEW i \in Identities, NEW row \in Membership
    PROVE  [member EXCEPT ![c][i] = row] \in [Companies -> [Identities -> Membership]]
  BY DEF LifecycleTypeOK

LEMMA AcceptanceTyped ==
    ASSUME LifecycleTypeOK, CompanyLocks, NEW r \in Requests,
           AcceptLocks(r) \/ AcceptFinishes(r)
    PROVE  LifecycleTypeOK'
<1> DEFINE held == request[r]
           n == held.invitation
           i == SessionOf[held.session]
           c == invite[n].company
<1>1. held \in Accepting /\ i \in Identities /\ held.session \in Sessions /\ n \in Invitations
  <2>1. held \in Accepting
    BY HoldersFit DEF AcceptLocks, AcceptFinishes
  <2>2. QED
    BY <2>1, LifecycleAssumption DEF Accepting
<1>2. invite[n] \in Invitation /\ c \in Companies /\ invite[n].role \in InvitedRoles
  <2>1. invite[n] # NoInvitation
    BY DEF CompanyLocks, AcceptLocks, AcceptFinishes
  <2>2. invite[n] \in Invitation
    BY <1>1, <2>1, RowsAreRecords
  <2>3. QED
    BY <2>2 DEF Invitation
<1>3. [held EXCEPT !.stage = "matched"] \in Accepting
  BY <1>1 DEF Accepting
<1>4. request' \in [Requests -> {Idle} \cup Creating \cup Accepting \cup Managing]
  BY <1>3 DEF AcceptLocks, AcceptFinishes, ReplayAcceptance, Ends, LifecycleTypeOK
<1>5. session' \in [Sessions -> [revoked: BOOLEAN, company: Companies \cup {None}]]
  <2>1. session' = session \/ session' = [session EXCEPT ![held.session].company = c]
    BY DEF AcceptLocks, AcceptFinishes, ReplayAcceptance
  <2>2. QED
    BY <1>1, <1>2, <2>1 DEF LifecycleTypeOK
<1>6. member' \in [Companies -> [Identities -> Membership]]
  <2> DEFINE row == [role |-> invite[n].role, active |-> TRUE]
  <2>1. row \in Membership
    BY <1>2, LifecycleAssumption DEF Membership
  <2>2. member' = member \/ member' = [member EXCEPT ![c][i] = row]
    BY DEF AcceptLocks, AcceptFinishes, ReplayAcceptance
  <2>3. c \in Companies /\ i \in Identities
    BY <1>1, <1>2
  <2>4. [member EXCEPT ![c][i] = row] \in [Companies -> [Identities -> Membership]]
    BY <2>1, <2>3, MembershipWritten
  <2>5. QED
    BY <2>2, <2>4 DEF LifecycleTypeOK
<1>7. invite' \in [Invitations -> Invitation \cup {NoInvitation}]
  <2>1. [invite[n] EXCEPT !.consumedBy = i] \in Invitation
    BY <1>1, <1>2 DEF Invitation
  <2>2. QED
    BY <1>1, <2>1 DEF AcceptLocks, AcceptFinishes, ReplayAcceptance, LifecycleTypeOK
<1>8. UNCHANGED <<founded, creation>>
  BY DEF AcceptLocks, AcceptFinishes, ReplayAcceptance
<1>9. QED
  BY <1>4, <1>5, <1>6, <1>7, <1>8 DEF LifecycleTypeOK

\* What a manager who is still one may do.
LEMMA ManagementTyped ==
    ASSUME LifecycleTypeOK, NEW r \in Requests, Manage(r)
    PROVE  LifecycleTypeOK'
<1> DEFINE held == request[r]
           m == SessionOf[held.session]
           c == held.company
<1>1. held \in Managing /\ m \in Identities /\ c \in Companies
  <2>1. held \in Managing
    BY HoldersFit
       DEF Manage, ManageRefused, CurrentManager, Issue, Revoke, Deactivate, ChangeRole
  <2>2. QED
    BY <2>1, LifecycleAssumption DEF Managing
<1>2. request' \in [Requests -> {Idle} \cup Creating \cup Accepting \cup Managing]
  BY DEF Manage, ManageRefused, CurrentManager, Issue, Revoke, Deactivate, ChangeRole,
         Ends, LifecycleTypeOK
<1>3. CASE ManageRefused(r)
  BY <1>2, <1>3 DEF ManageRefused, LifecycleTypeOK
<1>4. ASSUME NEW n \in Invitations, NEW i \in Identities, NEW role \in InvitedRoles,
             Issue(r, n, i.subject, role)
      PROVE  LifecycleTypeOK'
  <2>1. NewInvitation(c, m.profile, i.subject, role) \in Invitation
    BY <1>1 DEF NewInvitation, Invitation
  <2>2. QED
    BY <1>2, <1>4, <2>1 DEF Issue, LifecycleTypeOK
<1>5. ASSUME NEW n \in Invitations, Revoke(r, n)
      PROVE  LifecycleTypeOK'
  <2>1. invite[n] \in Invitation
    BY <1>5, RowsAreRecords DEF Revoke, Revocable
  <2>2. [invite[n] EXCEPT !.revoked = TRUE] \in Invitation
    BY <2>1 DEF Invitation
  <2>3. QED
    BY <1>2, <1>5, <2>2 DEF Revoke, LifecycleTypeOK
<1>6. ASSUME NEW i \in Identities, Deactivate(r, i)
      PROVE  LifecycleTypeOK'
  <2>1. member[c][i] \in [role: Role, active: BOOLEAN]
    BY <1>1, <1>6 DEF Deactivate, Removable, LifecycleTypeOK, Membership
  <2>2. [member[c][i] EXCEPT !.active = FALSE] \in Membership
    BY <2>1 DEF Membership
  <2>3. QED
    BY <1>1, <1>2, <1>6, <2>2 DEF Deactivate, LifecycleTypeOK
<1>7. ASSUME NEW i \in Identities, NEW role \in AssignableRoles, ChangeRole(r, i, role)
      PROVE  LifecycleTypeOK'
  <2>1. member[c][i] \in [role: Role, active: BOOLEAN]
    BY <1>1, <1>7 DEF ChangeRole, LifecycleTypeOK, Membership, NoMembership
  <2>2. [member[c][i] EXCEPT !.role = role] \in Membership
    BY <1>7, <2>1 DEF Membership, AssignableRoles, Role
  <2>3. QED
    BY <1>1, <1>2, <1>7, <2>2 DEF ChangeRole, LifecycleTypeOK
<1>8. QED
  BY <1>3, <1>4, <1>5, <1>6, <1>7 DEF Manage

LEMMA TypeStep ==
    ASSUME LifecycleTypeOK, CompanyLocks, [LifecycleNext]_companyVars
    PROVE  LifecycleTypeOK'
<1>1. ASSUME NEW r \in Requests, NEW s \in Sessions, NEW k \in Keys, NEW name \in Names,
             CreateBegins(r, s, k, name)
      PROVE  LifecycleTypeOK'
  <2>1. [op |-> "create", stage |-> "read", session |-> s, key |-> k, name |-> name]
            \in Creating
    BY DEF Creating
  <2>2. QED
    BY <1>1, <2>1 DEF CreateBegins, LifecycleTypeOK
<1>2. ASSUME NEW r \in Requests, CreateLocks(r) \/ CreateFinishes(r)
      PROVE  LifecycleTypeOK'
  BY <1>2, CreationTyped
<1>3. ASSUME NEW r \in Requests, NEW s \in Sessions, NEW n \in Invitations,
             AcceptBegins(r, s, n)
      PROVE  LifecycleTypeOK'
  <2>1. [op |-> "accept", stage |-> "read", session |-> s, invitation |-> n] \in Accepting
    BY DEF Accepting
  <2>2. QED
    BY <1>3, <2>1 DEF AcceptBegins, LifecycleTypeOK
<1>4. ASSUME NEW r \in Requests, AcceptLocks(r) \/ AcceptFinishes(r)
      PROVE  LifecycleTypeOK'
  BY <1>4, AcceptanceTyped
<1>5. ASSUME NEW r \in Requests, NEW s \in Sessions, NEW c \in Companies,
             ManageBegins(r, s, c)
      PROVE  LifecycleTypeOK'
  <2>1. [op |-> "manage", stage |-> "read", session |-> s, company |-> c] \in Managing
    BY DEF Managing
  <2>2. QED
    BY <1>5, <2>1 DEF ManageBegins, LifecycleTypeOK
<1>6. ASSUME NEW r \in Requests, Manage(r)
      PROVE  LifecycleTypeOK'
  BY <1>6, ManagementTyped
<1>7. ASSUME NEW r \in Requests, RolledBack(r)
      PROVE  LifecycleTypeOK'
  BY <1>7 DEF RolledBack, Ends, LifecycleTypeOK
<1>8. ASSUME NEW s \in Sessions, Logout(s) \/ \E c \in Companies : SelectCompany(s, c)
      PROVE  LifecycleTypeOK'
  BY ZenonT(60), <1>8 DEF Logout, SelectCompany, LifecycleTypeOK
<1>9. ASSUME NEW n \in Invitations, InvitationExpires(n)
      PROVE  LifecycleTypeOK'
  <2>1. [invite[n] EXCEPT !.expired = TRUE] \in Invitation
    <3>1. invite[n] \in Invitation
      BY <1>9, RowsAreRecords DEF InvitationExpires
    <3>2. QED
      BY <3>1 DEF Invitation
  <2>2. QED
    BY <1>9, <2>1 DEF InvitationExpires, LifecycleTypeOK
<1>10. CASE UNCHANGED companyVars
  BY <1>10 DEF companyVars, LifecycleTypeOK
<1>11. QED
  BY <1>1, <1>2, <1>3, <1>4, <1>5, <1>6, <1>7, <1>8, <1>9, <1>10 DEF LifecycleNext

-----------------------------------------------------------------------------
(* The locks.                                                               *)

\* Ending a request or beginning one takes no lock of an identity.
LEMMA IdentityLocksKept ==
    ASSUME IdentityLocks, NEW r \in Requests, OthersWait(r),
           ~Holds(r, "create", "free")', UNCHANGED creation
    PROVE  IdentityLocks'
  BY DEF IdentityLocks, OthersWait, Holds

\* The steps that end or begin a request and change no invitation or command.
LEMMA LocksKept ==
    ASSUME IdentityLocks, CompanyLocks, NEW r \in Requests, OthersWait(r),
           UNCHANGED <<invite, creation>>,
           ~Holds(r, "create", "free")', ~Holds(r, "accept", "matched")',
           Holds(r, "accept", "read")' => invite[request'[r].invitation] # NoInvitation
    PROVE  IdentityLocks' /\ CompanyLocks'
  BY IdentityLocksKept DEF CompanyLocks, OthersWait, Holds

LEMMA EndsFrees ==
    ASSUME LifecycleTypeOK, NEW r \in Requests, Ends(r)
    PROVE  /\ OthersWait(r)
           /\ request'[r] = Idle
           /\ \A op, stage : ~Holds(r, op, stage)'
  BY DEF LifecycleTypeOK, Ends, OthersWait, Holds

LEMMA CreationLocks ==
    ASSUME LifecycleTypeOK, IdentityLocks, CompanyLocks, NEW r \in Requests,
           CreateLocks(r) \/ CreateFinishes(r)
    PROVE  IdentityLocks' /\ CompanyLocks'
<1> DEFINE held == request[r]
           i == SessionOf[held.session]
<1>1. held \in Creating /\ i \in Identities /\ held.key \in Keys
  <2>1. held \in Creating
    BY HoldersFit DEF CreateLocks, CreateFinishes
  <2>2. QED
    BY <2>1, LifecycleAssumption DEF Creating
<1>2. CASE Ends(r) /\ UNCHANGED <<invite, creation>>
  BY <1>2, EndsFrees, LocksKept
<1>3. ASSUME ~IdentityHeld(i), creation[i][held.key] = None,
             request' = [request EXCEPT ![r] = [@ EXCEPT !.stage = "free"]],
             UNCHANGED <<invite, creation>>
      PROVE  IdentityLocks' /\ CompanyLocks'
  <2>1. /\ request'[r].session = held.session /\ request'[r].key = held.key
        /\ request'[r].op = "create" /\ request'[r].stage = "free" /\ request'[r] # Idle
    BY <1>1, <1>3 DEF LifecycleTypeOK, Creating, Idle
  <2>2. OthersWait(r)
    BY <1>3 DEF LifecycleTypeOK, OthersWait
  <2>3. IdentityLocks'
    BY <1>3, <2>1, <2>2 DEF IdentityLocks, IdentityHeld, OthersWait, Holds
  <2>4. CompanyLocks'
    BY <1>3, <2>1, <2>2 DEF CompanyLocks, OthersWait, Holds
  <2>5. QED
    BY <2>3, <2>4
<1>4. ASSUME NEW c \in Companies, FoundCompany(r, c), Holds(r, "create", "free"), Ends(r),
             UNCHANGED invite
      PROVE  IdentityLocks' /\ CompanyLocks'
  <2>1. OthersWait(r) /\ \A op, stage : ~Holds(r, op, stage)'
    BY <1>4, EndsFrees
  <2>2. \A q \in Requests \ {r} : Holds(q, "create", "free") =>
            creation'[SessionOf[request[q].session]] = creation[SessionOf[request[q].session]]
    <3> SUFFICES ASSUME NEW q \in Requests \ {r}, Holds(q, "create", "free")
                 PROVE  creation'[SessionOf[request[q].session]]
                            = creation[SessionOf[request[q].session]]
      OBVIOUS
    <3>1. request[q] \in Creating
      BY HoldersFit
    <3>2. SessionOf[request[q].session] \in Identities
      BY <3>1, LifecycleAssumption DEF Creating
    <3>3. SessionOf[request[q].session] # i
      BY <1>4 DEF IdentityLocks
    <3>4. QED
      BY <1>1, <1>4, <3>2, <3>3 DEF FoundCompany, LifecycleTypeOK
  <2>3. IdentityLocks'
    BY SMTT(30), <2>1, <2>2 DEF IdentityLocks, OthersWait, Holds
  <2>4. CompanyLocks'
    BY <1>4, <2>1 DEF CompanyLocks, OthersWait, Holds
  <2>5. QED
    BY <2>3, <2>4
<1>5. CASE CreateLocks(r)
  <2>1. \/ Ends(r) /\ UNCHANGED <<invite, creation>>
        \/ /\ ~IdentityHeld(i) /\ creation[i][held.key] = None
           /\ request' = [request EXCEPT ![r] = IF HasActiveMembership(i) THEN Idle
                                                ELSE [@ EXCEPT !.stage = "free"]]
           /\ UNCHANGED <<invite, creation>>
    BY <1>5 DEF CreateLocks, ReplayCreation, Ends
  <2>2. QED
    BY <1>2, <1>3, <2>1 DEF Ends
<1>6. CASE CreateFinishes(r)
  BY <1>2, <1>4, <1>6 DEF CreateFinishes
<1>7. QED
  BY <1>5, <1>6

LEMMA AcceptanceLocks ==
    ASSUME LifecycleTypeOK, IdentityLocks, CompanyLocks, NEW r \in Requests,
           AcceptLocks(r) \/ AcceptFinishes(r)
    PROVE  IdentityLocks' /\ CompanyLocks'
<1> DEFINE held == request[r]
           n == held.invitation
           i == SessionOf[held.session]
<1>1. held \in Accepting /\ i \in Identities /\ n \in Invitations
  <2>1. held \in Accepting
    BY HoldersFit DEF AcceptLocks, AcceptFinishes
  <2>2. QED
    BY <2>1, LifecycleAssumption DEF Accepting
<1>2. invite[n] \in Invitation
  <2>1. invite[n] # NoInvitation
    BY DEF CompanyLocks, AcceptLocks, AcceptFinishes
  <2>2. QED
    BY <1>1, <2>1, RowsAreRecords
<1>3. CASE Ends(r) /\ UNCHANGED <<invite, creation>>
  BY <1>3, EndsFrees, LocksKept
<1>4. ASSUME ~CompanyHeld(invite[n].company), Acceptable(n, i), Holds(r, "accept", "read"),
             request' = [request EXCEPT ![r].stage = "matched"],
             UNCHANGED <<invite, creation>>
      PROVE  IdentityLocks' /\ CompanyLocks'
  <2>1. /\ request'[r].session = held.session /\ request'[r].invitation = n
        /\ request'[r].op = "accept" /\ request'[r].stage = "matched" /\ request'[r] # Idle
    BY <1>1, <1>4 DEF LifecycleTypeOK, Accepting, Idle
  <2>2. OthersWait(r)
    BY <1>4 DEF LifecycleTypeOK, OthersWait
  <2>3. IdentityLocks'
    BY <1>4, <2>1, <2>2, IdentityLocksKept DEF Holds
  <2>4. CompanyLocks'
    BY SMTT(30), <1>4, <2>1, <2>2 DEF CompanyLocks, CompanyHeld, OthersWait, Holds, Acceptable, IsFor
  <2>5. QED
    BY <2>3, <2>4
<1>5. ASSUME Holds(r, "accept", "matched"), Ends(r), UNCHANGED creation,
             invite' = [invite EXCEPT ![n].consumedBy = i]
      PROVE  IdentityLocks' /\ CompanyLocks'
  <2>1. OthersWait(r) /\ \A op, stage : ~Holds(r, op, stage)'
    BY <1>5, EndsFrees
  <2>2. IdentityLocks'
    BY <1>5, <2>1, IdentityLocksKept
  <2>3. \A q \in Requests \ {r} :
            Holds(q, "accept", "read") \/ Holds(q, "accept", "matched") =>
               request[q].invitation \in Invitations
    BY HoldersFit DEF Accepting
  <2>4. invite'[n].company = invite[n].company /\ invite'[n] # NoInvitation
    <3>1. [invite[n] EXCEPT !.consumedBy = i] \in Invitation
      BY <1>1, <1>2 DEF Invitation
    <3>2. invite'[n] = [invite[n] EXCEPT !.consumedBy = i]
      BY <1>1, <1>5 DEF LifecycleTypeOK
    <3>3. invite'[n].company = invite[n].company /\ invite'[n].company \in Companies
      BY <1>2, <3>2 DEF Invitation
    <3>4. QED
      BY <3>3, LifecycleAssumption DEF NoInvitation
  <2>5. \A q \in Requests \ {r} : Holds(q, "accept", "matched") =>
            request[q].invitation # n
    BY <1>5 DEF CompanyLocks
  <2>6. \A o \in Invitations \ {n} : invite'[o] = invite[o]
    BY <1>5 DEF LifecycleTypeOK
  <2>7. CompanyLocks'
    BY SMTT(30), <2>1, <2>3, <2>4, <2>5, <2>6 DEF CompanyLocks, OthersWait, Holds
  <2>8. QED
    BY <2>2, <2>7
<1>6. CASE AcceptLocks(r)
  BY <1>3, <1>4, <1>6 DEF AcceptLocks, ReplayAcceptance
<1>7. CASE AcceptFinishes(r)
  BY <1>3, <1>5, <1>7 DEF AcceptFinishes
<1>8. QED
  BY <1>6, <1>7

\* An invitation is issued in a free row and withdrawn under the lock of its
\* company, so no acceptance that holds a lock reads either.
LEMMA ManagementLocks ==
    ASSUME LifecycleTypeOK, IdentityLocks, CompanyLocks, NEW r \in Requests, Manage(r)
    PROVE  IdentityLocks' /\ CompanyLocks'
<1> DEFINE c == request[r].company
<1>1. /\ OthersWait(r) /\ UNCHANGED creation /\ request'[r] = Idle
      /\ ~Holds(r, "create", "free")'
  <2>1. Ends(r) /\ UNCHANGED creation
    BY DEF Manage, ManageRefused, CurrentManager, Issue, Revoke, Deactivate, ChangeRole
  <2>2. QED
    BY <2>1, EndsFrees
<1>2. IdentityLocks'
  BY <1>1, IdentityLocksKept
<1>3. \A q \in Requests \ {r} :
          Holds(q, "accept", "read") \/ Holds(q, "accept", "matched") =>
             request[q].invitation \in Invitations
  BY HoldersFit DEF Accepting
<1>4. CASE UNCHANGED invite
  BY <1>1, <1>2, <1>4 DEF CompanyLocks, OthersWait, Holds
<1>5. ASSUME NEW n \in Invitations, NEW i \in Identities, NEW role \in InvitedRoles,
             Issue(r, n, i.subject, role)
      PROVE  CompanyLocks'
  <2>1. \A o \in Invitations \ {n} : invite'[o] = invite[o]
    BY <1>5 DEF Issue, LifecycleTypeOK
  <2>2. \A q \in Requests \ {r} :
            Holds(q, "accept", "read") \/ Holds(q, "accept", "matched") =>
               request[q].invitation # n
    BY <1>5 DEF CompanyLocks, Issue
  <2>3. QED
    BY <1>1, <1>3, <2>1, <2>2 DEF CompanyLocks, OthersWait, Holds
<1>6. ASSUME NEW n \in Invitations, Revoke(r, n)
      PROVE  CompanyLocks'
  <2>1. \A o \in Invitations \ {n} : invite'[o] = invite[o]
    BY <1>6 DEF Revoke, LifecycleTypeOK
  <2>2. invite'[n].company = invite[n].company /\ invite'[n] # NoInvitation
    <3>1. invite[n] \in Invitation
      BY <1>6, RowsAreRecords DEF Revoke, Revocable
    <3>2. invite'[n] = [invite[n] EXCEPT !.revoked = TRUE]
      BY <1>6 DEF Revoke, LifecycleTypeOK
    <3>3. invite'[n].company = invite[n].company /\ invite'[n].company \in Companies
      BY <3>1, <3>2 DEF Invitation
    <3>4. QED
      BY <3>3, LifecycleAssumption DEF NoInvitation
  <2>3. \A q \in Requests \ {r} :
            Holds(q, "accept", "matched") => request[q].invitation # n
    BY <1>6 DEF Revoke, CurrentManager, Revocable, CompanyHeld
  <2>4. QED
    BY <1>1, <1>3, <2>1, <2>2, <2>3 DEF CompanyLocks, OthersWait, Holds
<1>7. QED
  BY <1>2, <1>4, <1>5, <1>6 DEF Manage, ManageRefused, Deactivate, ChangeRole

LEMMA ExpiryLocks ==
    ASSUME LifecycleTypeOK, IdentityLocks, CompanyLocks, NEW n \in Invitations,
           InvitationExpires(n)
    PROVE  IdentityLocks' /\ CompanyLocks'
<1>1. invite[n] \in Invitation
  BY RowsAreRecords DEF InvitationExpires
<1>2. invite'[n] = [invite[n] EXCEPT !.expired = TRUE]
  BY DEF InvitationExpires, LifecycleTypeOK
<1>3. /\ invite'[n].company = invite[n].company /\ invite'[n].to = invite[n].to
      /\ invite'[n].revoked = invite[n].revoked
      /\ invite'[n].consumedBy = invite[n].consumedBy
      /\ invite'[n].company \in Companies
  BY <1>1, <1>2 DEF Invitation
<1>4. invite'[n] # NoInvitation
  BY <1>3, LifecycleAssumption DEF NoInvitation
<1>5. \A o \in Invitations \ {n} : invite'[o] = invite[o]
  BY DEF InvitationExpires, LifecycleTypeOK
<1>6. \A q \in Requests :
          Holds(q, "accept", "read") \/ Holds(q, "accept", "matched") =>
             request[q].invitation \in Invitations
  BY HoldersFit DEF Accepting
<1>7. QED
  BY <1>3, <1>4, <1>5, <1>6 DEF IdentityLocks, CompanyLocks, InvitationExpires, Holds

LEMMA LocksStep ==
    ASSUME LifecycleTypeOK, IdentityLocks, CompanyLocks, [LifecycleNext]_companyVars
    PROVE  IdentityLocks' /\ CompanyLocks'
<1>1. ASSUME NEW r \in Requests, NEW s \in Sessions, NEW k \in Keys, NEW name \in Names,
             CreateBegins(r, s, k, name)
      PROVE  IdentityLocks' /\ CompanyLocks'
  BY <1>1, LocksKept DEF CreateBegins, LifecycleTypeOK, OthersWait, Holds
<1>2. ASSUME NEW r \in Requests, CreateLocks(r) \/ CreateFinishes(r)
      PROVE  IdentityLocks' /\ CompanyLocks'
  BY <1>2, CreationLocks
<1>3. ASSUME NEW r \in Requests, NEW s \in Sessions, NEW n \in Invitations,
             AcceptBegins(r, s, n)
      PROVE  IdentityLocks' /\ CompanyLocks'
  BY <1>3, LocksKept DEF AcceptBegins, LifecycleTypeOK, OthersWait, Holds
<1>4. ASSUME NEW r \in Requests, AcceptLocks(r) \/ AcceptFinishes(r)
      PROVE  IdentityLocks' /\ CompanyLocks'
  BY <1>4, AcceptanceLocks
<1>5. ASSUME NEW r \in Requests, NEW s \in Sessions, NEW c \in Companies,
             ManageBegins(r, s, c)
      PROVE  IdentityLocks' /\ CompanyLocks'
  BY <1>5, LocksKept DEF ManageBegins, LifecycleTypeOK, OthersWait, Holds
<1>6. ASSUME NEW r \in Requests, Manage(r)
      PROVE  IdentityLocks' /\ CompanyLocks'
  BY <1>6, ManagementLocks
<1>7. ASSUME NEW r \in Requests, RolledBack(r)
      PROVE  IdentityLocks' /\ CompanyLocks'
  BY <1>7, EndsFrees, LocksKept DEF RolledBack
<1>8. ASSUME NEW s \in Sessions, Logout(s) \/ \E c \in Companies : SelectCompany(s, c)
      PROVE  IdentityLocks' /\ CompanyLocks'
  BY <1>8 DEF Logout, SelectCompany, IdentityLocks, CompanyLocks, Holds
<1>9. ASSUME NEW n \in Invitations, InvitationExpires(n)
      PROVE  IdentityLocks' /\ CompanyLocks'
  BY <1>9, ExpiryLocks
<1>10. CASE UNCHANGED companyVars
  BY <1>10 DEF companyVars, IdentityLocks, CompanyLocks, Holds
<1>11. QED
  BY <1>1, <1>2, <1>3, <1>4, <1>5, <1>6, <1>7, <1>8, <1>9, <1>10 DEF LifecycleNext

-----------------------------------------------------------------------------
(* The rows.                                                                *)

LEMMA RowsQuiet ==
    ASSUME Rows, Quiet
    PROVE  Rows'
  BY DEF Quiet, Rows, OnlyOfFounded, CompaniesKeepAnOwner, MembersWereInvited, ActiveOwners

\* A row that names a company that does not exist yet has no member.
LEMMA FoundingRows ==
    ASSUME CompanyInvariant, NEW r \in Requests, NEW c \in Companies,
           Holds(r, "create", "free"), FoundCompany(r, c), UNCHANGED invite
    PROVE  Rows'
<1> USE DEF CompanyInvariant, Rows
<1> DEFINE held == request[r]
           i == SessionOf[held.session]
           founder == [role |-> "COMPANY_OWNER", active |-> TRUE]
           command == [company |-> c, name |-> held.name]
<1>1. i \in Identities /\ held.key \in Keys /\ held.name \in Names
  <2>1. held \in Creating
    BY HoldersFit
  <2>2. QED
    BY <2>1, LifecycleAssumption DEF Creating
<1>2. /\ founded' = founded \cup {c} /\ c \notin founded
      /\ \A d \in Companies, j \in Identities :
            member'[d][j] = IF d = c /\ j = i THEN founder ELSE member[d][j]
  BY <1>1 DEF FoundCompany, LifecycleTypeOK
<1>3. \A j \in Identities, k \in Keys :
          creation'[j][k] = IF j = i /\ k = held.key THEN command ELSE creation[j][k]
  BY <1>1 DEF FoundCompany, LifecycleTypeOK
<1>4. creation[i][held.key] = None /\ command # None /\ command.company = c
  <2>1. command \in Command
    BY <1>1 DEF Command
  <2>2. QED
    BY <2>1, NoneAssumption DEF IdentityLocks
<1>5. \A j \in Identities : member[c][j] = NoMembership
  BY <1>2 DEF OnlyOfFounded
<1>6. OnlyOfFounded'
  BY <1>2 DEF OnlyOfFounded
<1>7. CompaniesKeepAnOwner'
  <2>1. i \in ActiveOwners(c)'
    BY <1>1, <1>2 DEF ActiveOwners
  <2>2. \A d \in Companies \ {c} : ActiveOwners(d)' = ActiveOwners(d)
    BY <1>2 DEF ActiveOwners
  <2>3. QED
    BY <1>2, <2>1, <2>2 DEF CompaniesKeepAnOwner, LifecycleTypeOK
<1>8. MembersWereInvited'
  <2>1. ASSUME NEW d \in Companies, NEW j \in Identities, member'[d][j] # NoMembership
        PROVE  \/ d = FirstCompany /\ j = Founder
               \/ \E k \in Keys : creation'[j][k] # None /\ creation'[j][k].company = d
               \/ \E n \in Invitations :
                    invite[n] # NoInvitation /\ invite[n].company = d
                    /\ invite[n].consumedBy = j /\ invite[n].to = j
    <3>1. CASE d = c /\ j = i
      BY <1>1, <1>3, <1>4, <3>1
    <3>2. CASE ~(d = c /\ j = i)
      <4>1. member[d][j] # NoMembership
        BY <1>2, <2>1, <3>2
      <4>2. \A k \in Keys : creation[j][k] # None => creation'[j][k] = creation[j][k]
        BY <1>3, <1>4
      <4>3. QED
        BY <4>1, <4>2 DEF MembersWereInvited
    <3>3. QED
      BY <3>1, <3>2
  <2>2. ASSUME NEW n \in Invitations, invite[n] # NoInvitation, invite[n].consumedBy # None
        PROVE  /\ ~invite[n].revoked
               /\ member'[invite[n].company][invite[n].consumedBy] # NoMembership
    <3>1. invite[n].company \in Companies /\ invite[n].consumedBy \in Identities
      BY <2>2, RowsAreRecords DEF Invitation
    <3>2. QED
      BY <1>2, <2>2, <3>1 DEF MembersWereInvited, NoMembership
  <2>3. QED
    BY <2>1, <2>2 DEF MembersWereInvited
<1>9. QED
  BY <1>6, <1>7, <1>8

LEMMA JoiningRows ==
    ASSUME CompanyInvariant, NEW r \in Requests, AcceptFinishes(r)
    PROVE  Rows'
<1> USE DEF CompanyInvariant, Rows
<1> DEFINE held == request[r]
           n == held.invitation
           c == invite[n].company
           i == SessionOf[held.session]
           joined == [role |-> invite[n].role, active |-> TRUE]
<1>1. i \in Identities /\ n \in Invitations
  <2>1. held \in Accepting
    BY HoldersFit DEF AcceptFinishes
  <2>2. QED
    BY <2>1, LifecycleAssumption DEF Accepting
<1>2. /\ invite[n] \in Invitation /\ c \in Companies /\ c \in founded
      /\ invite[n].role \in Role \ {"COMPANY_OWNER"} /\ ~invite[n].revoked
      /\ invite[n].consumedBy = None /\ invite[n].to = i
  <2>1. invite[n] # NoInvitation /\ ~invite[n].revoked /\ invite[n].consumedBy = None
        /\ invite[n].to = i
    BY DEF CompanyLocks, AcceptFinishes
  <2>2. invite[n] \in Invitation
    BY <1>1, <2>1, RowsAreRecords
  <2>3. QED
    BY <1>1, <2>1, <2>2, LifecycleAssumption DEF Invitation, OnlyOfFounded
<1>3. CASE ~Joinable(c, i)
  BY <1>3, RowsQuiet DEF AcceptFinishes, Quiet
<1>4. CASE Joinable(c, i)
  <2>1. UNCHANGED <<founded, creation>>
    BY <1>4 DEF AcceptFinishes
  <2>2. \A d \in Companies, j \in Identities :
            member'[d][j] = IF d = c /\ j = i THEN joined ELSE member[d][j]
    BY <1>1, <1>2, <1>4 DEF AcceptFinishes, LifecycleTypeOK
  <2>3. /\ invite'[n] = [invite[n] EXCEPT !.consumedBy = i]
        /\ \A o \in Invitations \ {n} : invite'[o] = invite[o]
    BY <1>1, <1>4 DEF AcceptFinishes, LifecycleTypeOK
  <2>4. /\ invite'[n].company = c /\ invite'[n].consumedBy = i /\ invite'[n].to = i
        /\ ~invite'[n].revoked
    BY <1>2, <2>3 DEF Invitation
  <2>5. invite'[n] # NoInvitation
    BY <1>2, <2>4, LifecycleAssumption DEF NoInvitation
  <2>6. joined # NoMembership /\ joined.role # "COMPANY_OWNER"
    BY <1>2 DEF NoMembership, Role
  <2>7. OnlyOfFounded'
    <3>1. \A d \in Companies \ founded, j \in Identities : member'[d][j] = member[d][j]
      BY <1>2, <2>2
    <3>2. \A o \in Invitations :
              invite'[o] # NoInvitation => invite'[o].company = invite[o].company
      BY <2>3, <2>4
    <3>3. invite[n] # NoInvitation
      BY <1>2, LifecycleAssumption DEF Invitation, NoInvitation
    <3>4. \A o \in Invitations : invite'[o] # NoInvitation => invite'[o].company \in founded
      BY <2>3, <3>2, <3>3 DEF OnlyOfFounded
    <3>5. QED
      BY <2>1, <3>1, <3>4 DEF OnlyOfFounded
  <2>8. CompaniesKeepAnOwner'
    <3>1. i \notin ActiveOwners(c)
      <4>1. member[c][i] = NoMembership
        BY <1>4 DEF Joinable
      <4>2. NoMembership # [role |-> "COMPANY_OWNER", active |-> TRUE]
        BY DEF NoMembership
      <4>3. QED
        BY <4>1, <4>2 DEF ActiveOwners
    <3>2. \A d \in Companies : ActiveOwners(d) \subseteq ActiveOwners(d)'
      BY <2>2, <3>1 DEF ActiveOwners
    <3>3. QED
      BY <2>1, <3>2 DEF CompaniesKeepAnOwner, LifecycleTypeOK
  <2>9. MembersWereInvited'
    <3>1. ASSUME NEW d \in Companies, NEW j \in Identities, member'[d][j] # NoMembership
          PROVE  \/ d = FirstCompany /\ j = Founder
                 \/ \E k \in Keys : creation[j][k] # None /\ creation[j][k].company = d
                 \/ \E o \in Invitations :
                      invite'[o] # NoInvitation /\ invite'[o].company = d
                      /\ invite'[o].consumedBy = j /\ invite'[o].to = j
      <4>1. CASE d = c /\ j = i
        BY <1>1, <2>4, <2>5, <4>1
      <4>2. CASE ~(d = c /\ j = i)
        <5>1. member[d][j] # NoMembership
          BY <2>2, <3>1, <4>2
        <5>2. \A o \in Invitations : invite[o].consumedBy = j => invite'[o] = invite[o]
          BY <1>2, <2>3, LifecycleAssumption
        <5>3. QED
          BY <5>1, <5>2 DEF MembersWereInvited
      <4>3. QED
        BY <4>1, <4>2
    <3>2. ASSUME NEW o \in Invitations, invite'[o] # NoInvitation, invite'[o].consumedBy # None
          PROVE  /\ ~invite'[o].revoked
                 /\ member'[invite'[o].company][invite'[o].consumedBy] # NoMembership
      <4>1. CASE o = n
        BY <1>1, <1>2, <2>2, <2>4, <2>6, <4>1
      <4>2. CASE o # n
        <5>1. invite[o].company \in Companies /\ invite[o].consumedBy \in Identities
              /\ invite[o] # NoInvitation
          BY <2>3, <3>2, <4>2, RowsAreRecords DEF Invitation
        <5>2. QED
          BY <2>2, <2>3, <2>6, <3>2, <4>2, <5>1 DEF MembersWereInvited
      <4>3. QED
        BY <4>1, <4>2
    <3>3. QED
      BY <2>1, <3>1, <3>2 DEF MembersWereInvited
  <2>10. QED
    BY <2>7, <2>8, <2>9
<1>5. QED
  BY <1>3, <1>4

\* A removal leaves an owner: one is removed only by another, who stays.
LEMMA RemovalRows ==
    ASSUME CompanyInvariant, NEW r \in Requests, NEW i \in Identities, Deactivate(r, i)
    PROVE  Rows'
<1> USE DEF CompanyInvariant, Rows
<1> DEFINE c == request[r].company
           m == SessionOf[request[r].session]
<1>1. c \in Companies /\ m \in Identities /\ m # i
  <2>1. request[r] \in Managing
    BY HoldersFit DEF Deactivate, CurrentManager
  <2>2. QED
    BY <2>1, LifecycleAssumption DEF Managing, Deactivate, Removable
<1>2. member[c][i] \in [role: Role, active: BOOLEAN] /\ member[c][i] # NoMembership
  BY <1>1 DEF Deactivate, Removable, LifecycleTypeOK, Membership
<1>3. /\ \A d \in Companies, j \in Identities :
            ~(d = c /\ j = i) => member'[d][j] = member[d][j]
      /\ member'[c][i] = [member[c][i] EXCEPT !.active = FALSE]
      /\ UNCHANGED <<founded, invite, creation>>
  BY <1>1 DEF Deactivate, LifecycleTypeOK
<1>4. member'[c][i] # NoMembership /\ ~member'[c][i].active
  BY <1>2, <1>3 DEF NoMembership, Role
<1>5. OnlyOfFounded'
  BY <1>2, <1>3 DEF OnlyOfFounded
<1>6. MembersWereInvited'
  <2>1. \A d \in Companies, j \in Identities :
            member'[d][j] # NoMembership <=> member[d][j] # NoMembership
    BY <1>2, <1>3, <1>4
  <2>2. \A n \in Invitations : invite[n] # NoInvitation /\ invite[n].consumedBy # None =>
            invite[n].company \in Companies /\ invite[n].consumedBy \in Identities
    BY RowsAreRecords DEF Invitation
  <2>3. QED
    BY <1>3, <2>1, <2>2 DEF MembersWereInvited
<1>7. CompaniesKeepAnOwner'
  <2>1. ASSUME NEW d \in founded
        PROVE  ActiveOwners(d)' # {}
    <3>1. d \in Companies
      BY DEF LifecycleTypeOK
    <3>2. CASE d # c \/ member[c][i].role # "COMPANY_OWNER"
      <4>1. ActiveOwners(d) \subseteq ActiveOwners(d)'
        BY <1>3, <3>1, <3>2 DEF ActiveOwners
      <4>2. QED
        BY <4>1 DEF CompaniesKeepAnOwner
    <3>3. CASE d = c /\ member[c][i].role = "COMPANY_OWNER"
      <4>1. member[c][m].role = "COMPANY_OWNER" /\ member[c][m].active
        BY <3>3 DEF Deactivate, Removable, CurrentManager, ActiveMembership
      <4>2. member[c][m] \in [role: Role, active: BOOLEAN]
        BY <1>1, <4>1 DEF LifecycleTypeOK, Membership, NoMembership
      <4>3. member[c][m].active = TRUE
        BY <4>1, <4>2
      <4>4. member[c][m] = [role |-> "COMPANY_OWNER", active |-> TRUE]
        BY <4>1, <4>2, <4>3
      <4>5. member'[d][m] = [role |-> "COMPANY_OWNER", active |-> TRUE]
        BY <1>1, <1>3, <3>1, <3>3, <4>4
      <4>6. m \in ActiveOwners(d)'
        BY <1>1, <4>5 DEF ActiveOwners
      <4>7. QED
        BY <4>6
    <3>4. QED
      BY <3>2, <3>3
  <2>2. QED
    BY <1>3, <2>1 DEF CompaniesKeepAnOwner
<1>8. QED
  BY <1>5, <1>6, <1>7

\* A role is changed between roles that own nothing.
LEMMA RoleRows ==
    ASSUME CompanyInvariant, NEW r \in Requests, NEW i \in Identities,
           NEW role \in AssignableRoles, ChangeRole(r, i, role)
    PROVE  Rows'
<1> USE DEF CompanyInvariant, Rows
<1> DEFINE c == request[r].company
<1>1. c \in Companies
  <2>1. request[r] \in Managing
    BY HoldersFit DEF ChangeRole, CurrentManager
  <2>2. QED
    BY <2>1 DEF Managing
<1>2. /\ member[c][i] \in [role: Role, active: BOOLEAN] /\ member[c][i] # NoMembership
      /\ member[c][i].role # "COMPANY_OWNER"
  BY <1>1 DEF ChangeRole, AssignableRoles, LifecycleTypeOK, Membership, NoMembership
<1>3. /\ \A d \in Companies, j \in Identities :
            ~(d = c /\ j = i) => member'[d][j] = member[d][j]
      /\ member'[c][i] = [member[c][i] EXCEPT !.role = role]
      /\ UNCHANGED <<founded, invite, creation>>
  BY <1>1 DEF ChangeRole, LifecycleTypeOK
<1>4. member'[c][i] # NoMembership
  BY <1>2, <1>3 DEF NoMembership, AssignableRoles
<1>5. OnlyOfFounded'
  BY <1>2, <1>3 DEF OnlyOfFounded
<1>6. MembersWereInvited'
  <2>1. \A d \in Companies, j \in Identities :
            member'[d][j] # NoMembership <=> member[d][j] # NoMembership
    BY <1>2, <1>3, <1>4
  <2>2. \A n \in Invitations : invite[n] # NoInvitation /\ invite[n].consumedBy # None =>
            invite[n].company \in Companies /\ invite[n].consumedBy \in Identities
    BY RowsAreRecords DEF Invitation
  <2>3. QED
    BY <1>3, <2>1, <2>2 DEF MembersWereInvited
<1>7. CompaniesKeepAnOwner'
  <2>1. \A d \in Companies : ActiveOwners(d) \subseteq ActiveOwners(d)'
    BY <1>2, <1>3 DEF ActiveOwners
  <2>2. QED
    BY <1>3, <2>1 DEF CompaniesKeepAnOwner, LifecycleTypeOK
<1>8. QED
  BY <1>5, <1>6, <1>7

\* Issuing, withdrawing and expiring write invitations that nobody consumed,
\* or leave who consumed them.
LEMMA InvitationRows ==
    ASSUME CompanyInvariant, NEW n \in Invitations,
           UNCHANGED <<founded, member, creation>>,
           \A o \in Invitations \ {n} : invite'[o] = invite[o],
           invite'[n].company \in founded,
           \/ invite'[n].consumedBy = None /\ (invite[n] # NoInvitation => invite[n].consumedBy = None)
           \/ /\ invite[n] # NoInvitation /\ invite'[n] # NoInvitation
              /\ invite'[n].company = invite[n].company /\ invite'[n].to = invite[n].to
              /\ invite'[n].consumedBy = invite[n].consumedBy
              /\ invite'[n].revoked = invite[n].revoked
    PROVE  Rows'
<1> USE DEF CompanyInvariant, Rows
<1>1. OnlyOfFounded'
  BY DEF OnlyOfFounded
<1>2. CompaniesKeepAnOwner'
  BY DEF CompaniesKeepAnOwner, ActiveOwners
<1>3. ASSUME NEW o \in Invitations, NEW c \in Companies, NEW j \in Identities,
             invite[o] # NoInvitation, invite[o].company = c,
             invite[o].consumedBy = j, invite[o].to = j
      PROVE  /\ invite'[o] # NoInvitation /\ invite'[o].company = c
             /\ invite'[o].consumedBy = j /\ invite'[o].to = j
  BY <1>3, LifecycleAssumption
<1>4. MembersWereInvited'
  BY <1>3 DEF MembersWereInvited
<1>5. QED
  BY <1>1, <1>2, <1>4

LEMMA RowsStep ==
    ASSUME CompanyInvariant, [LifecycleNext]_companyVars
    PROVE  Rows'
<1> USE DEF CompanyInvariant
<1>1. ASSUME NEW r \in Requests, CreateLocks(r) \/ CreateFinishes(r)
      PROVE  Rows'
  BY <1>1, RowsQuiet, FoundingRows
     DEF CreateLocks, ReplayCreation, CreateFinishes, Quiet
<1>2. ASSUME NEW r \in Requests, AcceptLocks(r) \/ AcceptFinishes(r)
      PROVE  Rows'
  BY <1>2, RowsQuiet, JoiningRows DEF AcceptLocks, ReplayAcceptance, Quiet
<1>3. ASSUME NEW r \in Requests, Manage(r)
      PROVE  Rows'
  <2>1. request[r] \in Managing
    BY <1>3, HoldersFit
       DEF Manage, ManageRefused, CurrentManager, Issue, Revoke, Deactivate, ChangeRole
  <2>2. CASE ManageRefused(r)
    BY <2>2, RowsQuiet DEF ManageRefused, Quiet
  <2>3. ASSUME NEW n \in Invitations, NEW i \in Identities, NEW role \in InvitedRoles,
               Issue(r, n, i.subject, role)
        PROVE  Rows'
    <3>1. /\ UNCHANGED <<founded, member, creation>>
          /\ \A o \in Invitations \ {n} : invite'[o] = invite[o]
          /\ invite'[n].company = request[r].company /\ invite'[n].consumedBy = None
          /\ invite[n] = NoInvitation /\ request[r].company \in founded
      BY <2>3 DEF Issue, CurrentManager, ActiveMembership, NewInvitation, LifecycleTypeOK
    <3>2. QED
      BY <3>1, InvitationRows
  <2>4. ASSUME NEW n \in Invitations, Revoke(r, n)
        PROVE  Rows'
    <3>1. invite[n] \in Invitation
      BY <2>4, RowsAreRecords DEF Revoke, Revocable
    <3>2. /\ UNCHANGED <<founded, member, creation>>
          /\ \A o \in Invitations \ {n} : invite'[o] = invite[o]
          /\ invite'[n] = [invite[n] EXCEPT !.revoked = TRUE]
          /\ invite[n].consumedBy = None /\ invite[n].company \in founded
      BY <2>4 DEF Revoke, Revocable, CurrentManager, ActiveMembership, LifecycleTypeOK
    <3>3. invite'[n].consumedBy = None /\ invite'[n].company = invite[n].company
      BY <3>1, <3>2 DEF Invitation
    <3>4. QED
      BY <3>2, <3>3, InvitationRows
  <2>5. QED
    BY <1>3, <2>2, <2>3, <2>4, RemovalRows, RoleRows DEF Manage
<1>4. ASSUME NEW n \in Invitations, InvitationExpires(n)
      PROVE  Rows'
  <2>1. invite[n] \in Invitation /\ invite[n] # NoInvitation
    BY <1>4, RowsAreRecords DEF InvitationExpires
  <2>2. /\ UNCHANGED <<founded, member, creation>>
        /\ \A o \in Invitations \ {n} : invite'[o] = invite[o]
        /\ invite'[n] = [invite[n] EXCEPT !.expired = TRUE]
    BY <1>4 DEF InvitationExpires, LifecycleTypeOK
  <2>3. /\ invite'[n].consumedBy = invite[n].consumedBy /\ invite'[n].to = invite[n].to
        /\ invite'[n].company = invite[n].company /\ invite'[n].revoked = invite[n].revoked
        /\ invite'[n].company \in Companies
    BY <2>1, <2>2 DEF Invitation
  <2>4. invite'[n] # NoInvitation /\ invite'[n].company \in founded
    BY <2>1, <2>3, LifecycleAssumption DEF NoInvitation, OnlyOfFounded, Rows
  <2>5. QED
    BY <2>1, <2>2, <2>3, <2>4, InvitationRows
<1>5. QED
  BY <1>1, <1>2, <1>3, <1>4, RowsQuiet
     DEF LifecycleNext, CreateBegins, AcceptBegins, ManageBegins, RolledBack, Logout,
         SelectCompany, companyVars, Quiet

-----------------------------------------------------------------------------
(* Theorems.                                                                *)

\* The inductive invariant of companies: the types, what requests hold under
\* their row locks, and what the rows say of one another.
THEOREM CompanyInvariantHolds == LifecycleSpec => []CompanyInvariant
<1>1. CompanyInvariant /\ [LifecycleNext]_companyVars => CompanyInvariant'
  BY TypeStep, LocksStep, RowsStep DEF CompanyInvariant
<1>2. QED
  BY LifecycleStart, <1>1, PTL DEF LifecycleSpec

\* The rows and requests of a company are well typed, for any identities,
\* sessions, invitations and requests.
THEOREM LifecycleTypeCorrect == LifecycleSpec => []LifecycleTypeOK
<1>1. CompanyInvariant => LifecycleTypeOK
  BY DEF CompanyInvariant
<1>2. QED
  BY CompanyInvariantHolds, <1>1, PTL

\* A company always has an active owner, whatever its members are given,
\* changed to or removed.
THEOREM OwnersKept == LifecycleSpec => []CompaniesKeepAnOwner
<1>1. CompanyInvariant => CompaniesKeepAnOwner
  BY DEF CompanyInvariant, Rows
<1>2. QED
  BY CompanyInvariantHolds, <1>1, PTL

\* Every membership is a founder's or comes from an invitation to that very
\* person, which was never withdrawn.
THEOREM MembersInvited == LifecycleSpec => []MembersWereInvited
<1>1. CompanyInvariant => MembersWereInvited
  BY DEF CompanyInvariant, Rows
<1>2. QED
  BY CompanyInvariantHolds, <1>1, PTL

\* No request brings a removed member back.
THEOREM RemovalFinal == LifecycleSpec => RemovalIsFinal
<1> DEFINE Stays == \A c \in Companies, i \in Identities :
               member[c][i] # NoMembership /\ ~member[c][i].active => ~member'[c][i].active
<1>1. ASSUME CompanyInvariant, [LifecycleNext]_companyVars
      PROVE  [Stays]_companyVars
  <2> USE DEF CompanyInvariant
  <2>1. ASSUME NEW r \in Requests, CreateFinishes(r)
        PROVE  Stays
    <3>1. CASE EligibleInvitation(SessionOf[request[r].session])
      BY <2>1, <3>1 DEF CreateFinishes
    <3>2. ASSUME NEW c \in Companies, FoundCompany(r, c)
          PROVE  Stays
      BY <1>1, <3>2 DEF FoundCompany, OnlyOfFounded, Rows, LifecycleTypeOK
    <3>3. QED
      BY <2>1, <3>1, <3>2 DEF CreateFinishes
  <2>2. ASSUME NEW r \in Requests, AcceptFinishes(r)
        PROVE  Stays
    BY SMTT(30), <1>1, <2>2 DEF AcceptFinishes, Joinable, LifecycleTypeOK
  <2>3. ASSUME NEW r \in Requests, Manage(r)
        PROVE  Stays
    <3>1. ASSUME NEW i \in Identities, Deactivate(r, i)
          PROVE  Stays
      <4> DEFINE d == request[r].company
      <4>1. \A c \in Companies, j \in Identities :
                ~(c = d /\ j = i) => member'[c][j] = member[c][j]
        BY <1>1, <3>1 DEF Deactivate, LifecycleTypeOK
      <4>2. d \in Companies => ~member'[d][i].active
        BY <1>1, <3>1 DEF Deactivate, Removable, LifecycleTypeOK, Membership
      <4>3. QED
        BY <4>1, <4>2
    <3>2. ASSUME NEW i \in Identities, NEW role \in AssignableRoles, ChangeRole(r, i, role)
          PROVE  Stays
      BY <1>1, <3>2 DEF ChangeRole, LifecycleTypeOK
    <3>3. QED
      BY <2>3, <3>1, <3>2 DEF Manage, ManageRefused, Issue, Revoke
  <2>4. QED
    BY <1>1, <2>1, <2>2, <2>3
       DEF LifecycleNext, CreateBegins, CreateLocks, ReplayCreation, AcceptBegins,
           AcceptLocks, ReplayAcceptance, ManageBegins, RolledBack, Logout, SelectCompany,
           InvitationExpires, companyVars
<1>2. QED
  BY CompanyInvariantHolds, <1>1, PTL DEF LifecycleSpec, RemovalIsFinal
=============================================================================
