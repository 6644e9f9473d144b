\* Only the checks of the vectors: what they call right.
SPECIFICATION Spec
CONSTANTS
    Components = {"vector"}
    Scale = 12
    Blank = Blank
    Nothing = Nothing
    Torn = Torn
INVARIANT
    OkValuesAreRight
