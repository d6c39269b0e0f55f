SPECIFICATION FilesSpec
CONSTANTS
    r1 = r1
    r2 = r2
    a1 = a1
    None = None
    Unused = Unused
    Deleted = Deleted
    Damaged = Damaged
    Requests = {r1, r2}
    Members = {ann}
    Admins = {ann}
    Tables = {csv}
    Images = {img}
    Inline = {csv, img}
    Documents = {doc}
    Receipts = {a1}
    Projects = {"p1", "p2"}
    ProjectOf <- MCProjectOf
    ContextOf <- MCContextOf
    Commands = {k1}
    ObjectKeys = {o1, o2}
    MaxItems = 2
    MaxContext = 3
    MaxFaults = 1
SYMMETRY Symmetric
INVARIANTS
    FilesTypeOK
    BytesOutliveRows
    OrphansAreExplained
    BundlesAreWhole
PROPERTIES
    OutputsAreCurrent
CHECK_DEADLOCK FALSE
