SPECIFICATION ClarificationSpec
CONSTANTS
    owner = owner
    Members <- MCOwner
    Experts <- NoExperts
    CaseOwner <- owner
    Items = {i1}
    MaxContext = 5
    MaxSettings = 2
    Material <- TwoSettings
    Limits <- TwoLimits
    EventCommands = {e1, e2}
    CycleCommands = {c1}
SYMMETRY Symmetric
INVARIANTS
    ClarificationTypeOK
    RoundsAreCharged
    AnswersMeetTheirQuestions
CHECK_DEADLOCK FALSE
