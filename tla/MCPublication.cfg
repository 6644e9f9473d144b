\* The bounds of the test inventory are in the module.
SPECIFICATION Spec
CONSTANTS
    Components = {"quarantine", "reports", "sidecars", "package", "inventory", "tests"}
    ReportFiles = {1, 2}
    NewDirFiles = {2}
    Members = {1, 2}
    Publishers = {p1, p2}
    MaxClaimMoves = 3
    MaxMoves = 2
    MaxDeaths = 1
    listing = listing
    linux = linux
    mac = mac
    z = z
    zx = zx
    p = p
    fast = fast
    a = a
    b = b
    t1 = t1
    t2 = t2
    u1 = u1
    u2 = u2
INVARIANTS
    TypeOK
    OldBytesReachable
    OutcomeIsTrue
PROPERTIES
    LeftIsNamed
    OthersKept
    CompleteStays
    Refines
    RowsAreObserved
CHECK_DEADLOCK FALSE
