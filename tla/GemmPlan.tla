------------------------------ MODULE GemmPlan ------------------------------
(***************************************************************************)
(* Real GEMM on the shared task runtime: core/matrix_matrix/planner.zig    *)
(* cuts C into a grid of tasks, hands them to the runtime, and computes    *)
(* the whole product itself when the runtime refuses; gemm.zig calls it on *)
(* all of C or on an aligned part and finishes the rest with GEMV.         *)
(*                                                                         *)
(* C is kept as the number of times each cell was updated.  Since GEMM     *)
(* computes C := alpha*A*B + beta*C, a cell updated twice is wrong as soon *)
(* as beta is not 0.  The runtime is the abstract TaskRuntime.  Thresholds *)
(* and kernel scores only choose the thread count, the column block and    *)
(* the row bounds: they are any value the code can compute.                *)
(***************************************************************************)
EXTENDS RuntimeUser

CONSTANTS
  MaxM, MaxN,  (* bounds on the shape of C                                 *)
  Blocks       (* the column blocks kernels prefer (AMX or packed panel)   *)

ASSUME GemmAssumptions ==
  /\ MaxTasks \in Nat \ {0}
  /\ MaxM \in Nat \ {0} /\ MaxN \in Nat \ {0}
  /\ Blocks \subseteq Nat \ {0}

VARIABLES
  shape,              (* m and n of its C, and the part given to the planner*)
  plan,               (* column_tasks, row_tasks and column_block          *)
  C                   (* C[c][i, j]: how often that cell was updated       *)

vars == <<runtimeVars, pc, shape, plan, C>>

Cell       == (0 .. MaxM - 1) \X (0 .. MaxN - 1)
NoShape    == [m |-> 0, n |-> 0, rows |-> 0, cols |-> 0]
NoPlan     == [columnTasks |-> 1, rowTasks |-> 1, block |-> 1]
Untouched  == [x \in Cell |-> 0]
-----------------------------------------------------------------------------
(* Contiguous pieces of 0 .. n-1, records lo .. hi-1, one per task: the    *)
(* expressions `index * n / count` of planner.zig and of every other       *)
(* partitioned routine, and the panel-aligned variant of GEMM.             *)
AtLeast(a, b) == IF a >= b THEN a ELSE b

\* Defects a change could introduce; the properties are checked to notice them.
bugRemainderDropped(n, index, count) ==
  [lo |-> index * (n \div count), hi |-> (index + 1) * (n \div count)]

\* `index * n / count`
splitRows(n, index, count) ==
  [lo |-> (index * n) \div count, hi |-> ((index + 1) * n) \div count]

ceilDiv(a, b) == IF b = 0 THEN 0 ELSE (a + b - 1) \div b

\* Boundaries fall between whole packed panels of `columnBlock` columns.
alignedColumnSplit(n, index, count, columnBlock) ==
  LET block  == AtLeast(1, columnBlock)
      panels == splitRows(ceilDiv(n, block), index, count)
  IN  IF block = 1 THEN splitRows(n, index, count)
      ELSE [lo |-> AtMost(n, panels.lo * block), hi |-> AtMost(n, panels.hi * block)]

Within(x, piece) == piece.lo <= x /\ x < piece.hi

-----------------------------------------------------------------------------
\* desiredThreadCount: thresholds on the shape lower the request, which
\* baseThreadCountForPlan limits to maxThreads and max_tasks, but not to 0.
desiredThreadCount == 1 .. MaxTasks
columnBlockForPlan == Blocks
rowMinBlock(m)     == 1 .. m

\* rowTaskCount: minRows is rowMinBlock's answer, `eligible` whether the
\* kernel's bounds and packing allow a row split, `narrow` isNarrowN.
bugRowsIgnoreColumns(threads, columnTasks, m, minRows, eligible, narrow) ==
  IF ~eligible \/ m < minRows * 2 THEN 1
  ELSE AtMost(threads, IF narrow THEN m \div minRows ELSE 2)

rowTaskCount(threads, columnTasks, m, minRows, eligible, narrow) ==
  IF \/ columnTasks >= threads \/ threads \div columnTasks <= 1
     \/ ~eligible \/ m < minRows * 2
  THEN 1
  ELSE AtMost(threads \div columnTasks, IF narrow THEN m \div minRows ELSE 2)

columnTaskCount(threads, n, block) ==
  IF threads <= 1 THEN 1 ELSE AtMost(threads, AtLeast(1, ceilDiv(n, block)))

taskCount(p) == p.columnTasks * p.rowTasks

\* Task t updates the cells of its rows and columns.
bugColumnsModRows(p, t) == [rows |-> t \div p.columnTasks, cols |-> t % p.rowTasks]
gridPosition(p, t) ==
  LET row == t \div p.columnTasks
  IN  [rows |-> row, cols |-> t - row * p.columnTasks]

taskRows(c, t) == splitRows(shape[c].rows, gridPosition(plan[c], t).rows, plan[c].rowTasks)
taskCols(c, t) ==
  alignedColumnSplit(shape[c].cols, gridPosition(plan[c], t).cols,
                     plan[c].columnTasks, plan[c].block)

Owns(c, t, x) == Within(x[1], taskRows(c, t)) /\ Within(x[2], taskCols(c, t))

InPlanned(c, x) == x[1] < shape[c].rows /\ x[2] < shape[c].cols
InC(c, x)       == x[1] < shape[c].m /\ x[2] < shape[c].n

taskCells(c, t) == {x \in Cell : Owns(c, t, x)}
plannedCells(c) == {x \in Cell : InPlanned(c, x)}
tailCells(c)    == {x \in Cell : InC(c, x) /\ ~InPlanned(c, x)}

Update(c, S) == C' = [C EXCEPT ![c] = [x \in Cell |-> @[x] + (IF x \in S THEN 1 ELSE 0)]]
-----------------------------------------------------------------------------
Init ==
  /\ Runtime!Init
  /\ pc = [c \in Callers |-> "idle"]
  /\ shape = [c \in Callers |-> NoShape]
  /\ plan = [c \in Callers |-> NoPlan]
  /\ C = [c \in Callers |-> Untouched]

\* gemmNoTransReal: all of C goes to the planner, or all but the last rows or
\* the last column, which GEMV then computes (17 x 2048, 34 x 2048, n = 17).
gemmNoTransReal(c, m, n, tailRows, tailCols) ==
  /\ Goto(c, "idle", "plan")
  /\ tailRows < m /\ tailCols < n
  /\ tailRows = 0 \/ tailCols = 0
  /\ shape' = [shape EXCEPT ![c] =
       [m |-> m, n |-> n, rows |-> m - tailRows, cols |-> n - tailCols]]
  /\ UNCHANGED <<runtimeVars, plan, C>>

\* No plan is made: alpha = 0 or k = 0 only scales C by beta, and operand
\* layouts the planner declines (returns false, nothing written) are left to
\* the loops of gemm; tryNoTransRealF32Fast takes some small f32 products
\* whole.  In each case this thread passes once over all of C.
WithoutPlan(c) ==
  /\ Goto(c, "plan", "tail")
  /\ shape[c].rows = shape[c].m /\ shape[c].cols = shape[c].n
  /\ Update(c, plannedCells(c))
  /\ UNCHANGED <<runtimeVars, shape, plan>>

\* planForDescriptor, then the choice of runPlannedTasks: a single task is
\* computed on this thread.  (More than max_stack_tasks tasks would come from
\* the heap, whose failure also ends in fallbackWholeTask; TypeOK shows that
\* no plan has so many.)
planForDescriptor(c, threads, block, minRows, eligible, narrow) ==
  LET columns == columnTaskCount(threads, shape[c].cols, block)
      rows    == rowTaskCount(threads, columns, shape[c].rows, minRows, eligible, narrow)
  IN  /\ Goto(c, "plan", IF columns * rows <= 1 THEN "whole" ELSE "submit")
      /\ plan' = [plan EXCEPT ![c] =
           [columnTasks |-> columns, rowTasks |-> rows, block |-> block]]
      /\ UNCHANGED <<runtimeVars, shape, C>>

\* The task array is built and given to run or runLowLatency.
runSharedTasks(c) ==
  /\ Goto(c, "submit", "tasks")
  /\ Runtime!Begin(c, taskCount(plan[c]))
  /\ UNCHANGED <<shape, plan, C>>

\* Some thread runs task t of c.
RunTask(c, t) ==
  /\ pc[c] = "tasks"
  /\ Runtime!Execute(c, t)
  /\ Update(c, taskCells(c, t))
  /\ UNCHANGED <<pc, shape, plan>>

TasksDone(c) ==
  /\ Goto(c, "tasks", "tail")
  /\ Runtime!Accept(c)
  /\ UNCHANGED <<shape, plan, C>>

TasksRefused(c) ==
  /\ Goto(c, "tasks", "whole")
  /\ Runtime!Refuse(c)
  /\ UNCHANGED <<shape, plan, C>>

\* The planned part as one task on this thread.
fallbackWholeTask(c) ==
  /\ Goto(c, "whole", "tail")
  /\ Update(c, plannedCells(c))
  /\ IF call[c] = "refused" THEN Runtime!Fallback(c) ELSE UNCHANGED runtimeVars
  /\ UNCHANGED <<shape, plan>>

\* GEMV on what the planner was not given, if anything.
GemvTail(c) ==
  /\ Goto(c, "tail", "done")
  /\ Update(c, tailCells(c))
  /\ UNCHANGED <<runtimeVars, shape, plan>>

Return(c) ==
  /\ Goto(c, "done", "idle")
  /\ shape' = [shape EXCEPT ![c] = NoShape]
  /\ plan' = [plan EXCEPT ![c] = NoPlan]
  /\ C' = [C EXCEPT ![c] = Untouched]
  /\ IF call[c] = "idle" THEN UNCHANGED runtimeVars ELSE Runtime!Finish(c)

Next ==
  \E c \in Callers :
    \/ \E m \in 1 .. MaxM, n \in 1 .. MaxN, tailRows \in 0 .. 2, tailCols \in 0 .. 1 :
         gemmNoTransReal(c, m, n, tailRows, tailCols)
    \/ WithoutPlan(c)
    \/ \E threads \in desiredThreadCount, block \in columnBlockForPlan,
          minRows \in rowMinBlock(shape[c].rows), eligible, narrow \in BOOLEAN :
         planForDescriptor(c, threads, block, minRows, eligible, narrow)
    \/ runSharedTasks(c)
    \/ \E t \in 0 .. MaxTasks - 1 : RunTask(c, t)
    \/ TasksDone(c)
    \/ TasksRefused(c)
    \/ fallbackWholeTask(c)
    \/ GemvTail(c)
    \/ Return(c)

Spec == Init /\ [][Next]_vars
-----------------------------------------------------------------------------
Stages == {"idle", "plan", "submit", "tasks", "whole", "tail", "done"}

\* Every variable is in range; in particular a plan never has more tasks than
\* the runtime takes, so the task array always fits on the stack.
TypeOK ==
  /\ call \in [Callers -> Runtime!Stages]
  /\ size \in [Callers -> 0 .. MaxTasks]
  /\ exec \in [Callers -> [0 .. MaxTasks - 1 -> 0 .. 1]]
  /\ pc \in [Callers -> Stages]
  /\ shape \in [Callers -> [m : 0 .. MaxM, n : 0 .. MaxN, rows : 0 .. MaxM, cols : 0 .. MaxN]]
  /\ plan \in [Callers -> [columnTasks : 1 .. MaxTasks, rowTasks : 1 .. MaxTasks,
                           block : Blocks \union {1}]]
  /\ \A c \in Callers : taskCount(plan[c]) <= MaxTasks
  /\ C \in [Callers -> [Cell -> Nat]]

\* When GEMM returns, every cell of C was updated exactly once and nothing
\* beside C was touched, whichever of the tasks, the fallback after a refusal
\* and the GEMV tails computed it.
CellsOnce ==
  \A c \in Callers : pc[c] = "done" =>
    \A x \in Cell : C[c][x] = IF InC(c, x) THEN 1 ELSE 0

\* Tasks that may run at the same time never update a common cell ("column
\* splits share A and use disjoint C columns").
NoSharedCell ==
  \A c \in Callers : pc[c] = "tasks" =>
    \A t, u \in 0 .. size[c] - 1 : t # u =>
      ~ \E x \in Cell : Owns(c, t, x) /\ Owns(c, u, x)
=============================================================================
