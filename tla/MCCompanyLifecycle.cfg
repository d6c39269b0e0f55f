SPECIFICATION LifecycleSpec
CONSTANTS
    s1 = s1
    s2 = s2
    s3 = s3
    None = None
    Founder <- MCFounder
    Identities <- MCIdentities
    Sessions <- MCSessions
    SessionOf <- MCSessionOf
    Companies = {c1, c2}
    FirstCompany = c1
    Invitations = {n1, n2}
    Requests = {r1, r2}
    Keys = {k1}
    Names = {x}
    InvitedRoles <- MCRoles
SYMMETRY Symmetric
INVARIANTS
    LifecycleTypeOK
    CompaniesKeepAnOwner
    MembersWereInvited
PROPERTIES
    RemovalIsFinal
CHECK_DEADLOCK FALSE
