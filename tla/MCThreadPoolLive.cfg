\* No wake-up is lost: no symmetry, the limit may drop.
SPECIFICATION FairSpec
CONSTANTS
  Callers = {a}
  None = None
  MaxTasks = 3
  MaxCount = 3
  Counts = {2, 3}
  Entries = {"run", "runLowLatency"}
  Capacity = 3
  EnvLimit = 0
  Overrides = {0, 2}
  GenMod = 2
  MacOS = TRUE
PROPERTIES AdmittedEnds HelperAnswers
