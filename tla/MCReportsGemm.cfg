\* Only the full report: every file it is said to read.
SPECIFICATION Spec
CONSTANTS
    Components = {"full"}
    Scale = 12
    Blank = Blank
    Nothing = Nothing
    Torn = Torn
INVARIANT
    RunnersFilesAreRead
