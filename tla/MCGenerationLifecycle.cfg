SPECIFICATION GenerationSpec
CONSTANTS
    owner = owner
    expert = expert
    Members <- MCOwner
    Experts <- NoExperts
    CaseOwner <- owner
    Items = {i1}
    MaxContext = 3
    MaxSettings = 1
    Material <- OneSettings
    Proposers = {p1}
    DesignCommands = {d1}
    MaxDesigns = 1
    MaxDesignAttempts = 1
    MayCrash = TRUE
    Workers = {w1, w2}
    BuildCommands = {k1, k2}
    MaxAttempts = 2
    DatabaseMayFail = TRUE
SYMMETRY Symmetric
INVARIANTS HistoryIsWellFounded
PROPERTIES ImplementsLifecycle
CHECK_DEADLOCK FALSE
