SPECIFICATION Spec
CONSTANTS
    Components = {"git", "bounded", "observed"}
    StdoutLimit = 1
    StderrLimit = 1
    Capacity = 2
    MaxWritten = 2
    MaxLeft = 1
    MaxOutput = 1
    MaxWrites = 2
    MaxHelpers = 1
    MaxProbes = 1
INVARIANTS
    TypeOK
    AcceptedIsWhole
    NothingLeftBehind
PROPERTIES
    CallerReturns
