\* Two callers, two helpers, both entry points, a changing thread limit; and the
\* runtime implements TaskRuntime.
SPECIFICATION Spec
CONSTANTS
  Callers = {a, b}
  None = None
  MaxTasks = 3
  MaxCount = 3
  Counts = {1, 3}
  Entries = {"run", "runLowLatency"}
  Capacity = 4
  EnvLimit = 5
  Overrides = {0, 1}
  GenMod = 2
  MacOS = FALSE
SYMMETRY Symmetry
INVARIANTS TypeOK ExactlyOnce NoUseAfterReturn PayloadQuiescent NoWorkerLeft
PROPERTIES Refines
