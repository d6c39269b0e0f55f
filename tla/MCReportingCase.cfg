SPECIFICATION CaseSpec
CONSTANTS
    owner = owner
    expert = expert
    Members <- MCMembers
    Experts <- MCExperts
    CaseOwner <- owner
    Items = {i1, i2}
    MaxContext = 4
    MaxSettings = 3
    Material <- ThreeSettings
SYMMETRY Symmetric
INVARIANTS
    CaseTypeOK
    CurrentInterpretationIsExact
    ContractsAreGrounded
CHECK_DEADLOCK FALSE
