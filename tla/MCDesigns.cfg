SPECIFICATION FairDesignSpec
CONSTANTS
    owner = owner
    Members <- MCOwner
    Experts <- MCOwner
    CaseOwner <- owner
    Items = {i1, i2}
    MaxContext = 3
    MaxSettings = 1
    Material <- OneSettings
    Proposers = {p1, p2}
    DesignCommands = {k1, k2}
    MaxDesigns = 2
    MaxDesignAttempts = 2
    MayCrash = TRUE
INVARIANTS
    DesignTypeOK
    DesignsMatchContracts
    AttemptsOwnTheirDesigns
PROPERTIES ProposalsEnd
CHECK_DEADLOCK FALSE
