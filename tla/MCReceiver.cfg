SPECIFICATION ReceiverSpec
CONSTANTS
    Requests = {r1, r2, r3}
    NoRequest = NoRequest
    MaxAttempts = 2
    Plans <- MCPlans
    Keys = {k1, k2}
    MaxProcesses = 2
    MaxAuthorizations = 2
    MaxVersions = 3
    MaxInterpretations = 2
SYMMETRY Symmetric
INVARIANTS
    ReceiverTypeOK
    CallsAreApproved
    CommandsAreSentOnce
    AnswersAreKept
    IntakesMatchAdmission
    DesignsFollowTheirAnalysis
CHECK_DEADLOCK FALSE
