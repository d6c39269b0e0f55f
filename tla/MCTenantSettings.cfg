SPECIFICATION SettingsSpec
CONSTANTS
    Profiles = {a, b}
    Foundry = f
    Policies = {p1, p2}
    KeyVersions = {k1, k2}
    FirstPolicy = p1
    FirstKey = k1
    MaxVersions = 4
    MaxSecrets = 2
    Requests = {r1}
    None = None
SYMMETRY Symmetric
INVARIANTS
    SettingsTypeOK
    CurrentCredentialIsLive
PROPERTIES
    SavesBuildOnWhatWasSeen
CHECK_DEADLOCK FALSE
