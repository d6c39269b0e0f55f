SPECIFICATION SignInSpec
CONSTANTS
    b1 = b1  b2 = b2  ann = ann  bob = bob
    t1 = t1  t2 = t2  k1 = k1  k2 = k2  l1 = l1
    v0 = v0  v1 = v1  v2 = v2
    Browsers = {b1, b2}
    People = {ann, bob}
    Transactions = {t1, t2}
    Callbacks = {k1, k2}
    Logouts = {l1}
    Deployments <- Configured
    LocalProfile = "local-test"
    Legacy = "legacy-unqualified"
    MaxFaults = 1
    None = None
SYMMETRY Symmetric
INVARIANTS
    SignInTypeOK
    SessionsAnswerTheirLogin
    LiveSessionsAreHeld
CHECK_DEADLOCK FALSE
