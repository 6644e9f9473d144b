\* The command lines, directories and answers are in the module.
SPECIFICATION Spec
CONSTANTS
    Components = {"structured", "gemm", "level1", "level2", "full", "windows", "vector", "level2check"}
    Scale = 12
    Blank = Blank
    Nothing = Nothing
    Torn = Torn
INVARIANTS
    TypeOK
    ReportIsWhole
    PassIsEarned
    ChecksAreRight
    ChartIsHonest
    TurnsAreFair
