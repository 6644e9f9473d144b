\* Three settings of the environment; the fourth is no tier of any host.
CONSTANTS
  t1 = t1
  t2 = t2
  t3 = t3
  Threads <- ThreeThreads
  Machines <- AllHosts
  Settings = {100, 101, 2, 6}
SPECIFICATION MCSpec
INVARIANTS TypeOK OneObject CeilingKept ObjectRuns
