\* One caller, every plan of up to six tasks on matrices up to 4 by 7.
SPECIFICATION Spec
CONSTANTS
  Callers = {a}
  MaxTasks = 6
  MaxM = 4
  MaxN = 7
  Blocks = {1, 2, 3}
INVARIANTS TypeOK CellsOnce NoSharedCell
