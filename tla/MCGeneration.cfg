SPECIFICATION FairGenerationSpec
CONSTANTS
    owner = owner
    expert = expert
    Members <- MCMembers
    Experts <- MCExperts
    CaseOwner <- owner
    Items = {i1}
    MaxContext = 3
    MaxSettings = 2
    Material <- TwoSettings
    Proposers = {}
    DesignCommands = {}
    MaxDesigns = 1
    MaxDesignAttempts = 0
    MayCrash = TRUE
    Workers = {w1}
    BuildCommands = {k1}
    MaxAttempts = 1
    DatabaseMayFail = TRUE
INVARIANTS
    GenerationTypeOK
    ArtifactsAreBacked
PROPERTIES
    SuccessIsAuthorized
    BuildsEnd
CHECK_DEADLOCK FALSE
