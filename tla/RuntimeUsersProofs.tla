------------------------- MODULE RuntimeUsersProofs -------------------------
(***************************************************************************)
(* The two users of the task runtime that are modelled.  For matrices of   *)
(* every size, every column block and every number of tasks and callers:   *)
(* parallel GEMM updates each cell of C exactly once.  And for any number  *)
(* of callers, tasks and jobs: every job of a queue runs exactly once.     *)
(***************************************************************************)
EXTENDS GemmPlan, JobQueue, TLAPS

-----------------------------------------------------------------------------
(* The splits: division, alignment, and disjoint cover.                    *)

\* Division of natural numbers, as the provers need it.
LEMMA DivFacts ==
  ASSUME NEW a \in Nat, NEW d \in Nat \ {0}
  PROVE  /\ a \div d \in Nat
         /\ (a \div d) * d <= a
         /\ a < (a \div d) * d + d
  OBVIOUS

LEMMA MulLess ==
  ASSUME NEW a \in Nat, NEW b \in Nat, NEW d \in Nat \ {0}, a < b
  PROVE  a * d + d <= b * d
  OBVIOUS

LEMMA MulAtMost ==
  ASSUME NEW a \in Nat, NEW b \in Nat, NEW d \in Nat, a <= b
  PROVE  /\ a * d <= b * d
         /\ a * d \in Nat /\ b * d \in Nat
<1>1. CASE a = b
  BY <1>1
<1>2. CASE a < b /\ d # 0
  BY <1>2, MulLess
<1>3. CASE d = 0
  BY <1>3
<1> QED BY <1>1, <1>2, <1>3

LEMMA DivAtMost ==
  ASSUME NEW a \in Nat, NEW d \in Nat \ {0}, NEW q \in Nat
  PROVE  (a \div d <= q) <=> (a < q * d + d)
<1> DEFINE p == a \div d
<1>1. p \in Nat /\ p * d <= a /\ a < p * d + d
  BY DivFacts
<1> HIDE DEF p
<1>2. CASE p <= q
  <2>1. p * d <= q * d
    BY <1>1, <1>2, MulLess
  <2> QED BY <1>1, <1>2, <2>1 DEF p
<1>3. CASE q < p
  <2>1. q * d + d <= p * d
    BY <1>1, <1>3, MulLess
  <2> QED BY <1>1, <1>3, <2>1 DEF p
<1> QED BY <1>1, <1>2, <1>3

\* Element x lies in piece i exactly when (x+1)*count lies in row i of a ruler
\* with marks n apart.
LEMMA InPiece ==
  ASSUME NEW n \in Nat, NEW count \in Nat \ {0}, NEW i \in Nat, NEW x \in Nat
  PROVE  Within(x, splitRows(n, i, count)) <=>
           i * n < x * count + count /\ x * count + count <= i * n + n
<1>1. i * n \in Nat /\ (i + 1) * n \in Nat /\ (i + 1) * n = i * n + n
  OBVIOUS
<1>2. ((i * n) \div count <= x) <=> (i * n < x * count + count)
  BY <1>1, DivAtMost
<1>3. (((i + 1) * n) \div count <= x) <=> ((i + 1) * n < x * count + count)
  BY <1>1, DivAtMost
<1>4. (i * n) \div count \in Nat /\ ((i + 1) * n) \div count \in Nat /\ x * count + count \in Nat
  BY <1>1, DivFacts
<1>5. Within(x, splitRows(n, i, count)) <=>
        (i * n) \div count <= x /\ x < ((i + 1) * n) \div count
  BY DEF Within, splitRows
<1>6. x < ((i + 1) * n) \div count <=> ~(((i + 1) * n) \div count <= x)
  BY <1>4
<1> QED BY <1>1, <1>2, <1>3, <1>4, <1>5, <1>6

\* The pieces of 0 .. n-1 stay inside it.
LEMMA PieceBounds ==
  ASSUME NEW n \in Nat, NEW count \in Nat \ {0}, NEW i \in 0 .. count - 1,
         NEW x \in Nat, Within(x, splitRows(n, i, count))
  PROVE  x < n
<1>1. i * n < x * count + count /\ x * count + count <= i * n + n /\ i \in Nat
  BY InPiece
<1>2. i * n + n <= count * n
  <2>1. CASE n = 0
    BY <2>1, <1>1
  <2>2. CASE n # 0
    BY <2>2, <1>1, MulLess
  <2> QED BY <2>1, <2>2
<1>3. SUFFICES ASSUME n <= x PROVE FALSE
  OBVIOUS
<1>4. n * count <= x * count
  BY <1>3, MulAtMost
<1>5. n * count = count * n /\ x * count \in Nat /\ count * n \in Nat
  OBVIOUS
<1> QED BY <1>1, <1>2, <1>4, <1>5

\* Every element of 0 .. n-1 lies in one of the pieces.
LEMMA PieceExists ==
  ASSUME NEW n \in Nat, NEW count \in Nat \ {0}, NEW x \in 0 .. n - 1
  PROVE  \E i \in 0 .. count - 1 : Within(x, splitRows(n, i, count))
<1> DEFINE z == x * count + count - 1
<1> DEFINE i == z \div n
<1>1. z \in Nat /\ n \in Nat \ {0} /\ x \in Nat
  OBVIOUS
<1>2. i \in Nat /\ i * n <= z /\ z < i * n + n
  <2> HIDE DEF z
  <2> QED BY <1>1, DivFacts
<1>3. z = x * count + count - 1
  OBVIOUS
<1>4. z < n * count
  <2>1. x * count + count <= n * count
    BY MulLess
  <2> QED BY <1>1, <1>3, <2>1
<1> HIDE DEF z, i
<1>5. i < count
  <2>1. SUFFICES ASSUME count <= i PROVE FALSE
    BY <1>2
  <2>2. count * n <= i * n
    BY <1>1, <1>2, <2>1, MulAtMost
  <2>3. count * n = n * count
    OBVIOUS
  <2>4. i * n \in Nat /\ n * count \in Nat
    BY <1>2
  <2> QED BY <1>1, <1>2, <1>4, <2>2, <2>3, <2>4
<1>6. Within(x, splitRows(n, i, count))
  <2>1. x * count \in Nat /\ i * n \in Nat
    BY <1>1, <1>2
  <2>2. i * n < x * count + count /\ x * count + count <= i * n + n
    BY <1>1, <1>2, <1>3, <2>1
  <2> QED BY <1>1, <1>2, <2>2, InPiece
<1> QED BY <1>2, <1>5, <1>6

\* No element lies in two pieces.
LEMMA PieceUnique ==
  ASSUME NEW n \in Nat, NEW count \in Nat \ {0}, NEW x \in Nat,
         NEW i \in Nat, NEW j \in Nat,
         Within(x, splitRows(n, i, count)), Within(x, splitRows(n, j, count))
  PROVE  i = j
<1>1. ASSUME NEW a \in Nat, NEW b \in Nat, a < b,
             Within(x, splitRows(n, a, count)), Within(x, splitRows(n, b, count))
      PROVE  FALSE
  <2>1. x * count + count <= a * n + n /\ b * n < x * count + count
    BY <1>1, InPiece
  <2>2. a * n + n <= b * n
    <3>1. CASE n = 0
      BY <3>1, <1>1
    <3>2. CASE n # 0
      BY <3>2, <1>1, MulLess
    <3> QED BY <3>1, <3>2
  <2>3. a * n \in Nat /\ b * n \in Nat /\ x * count \in Nat
    BY <1>1
  <2> QED BY <2>1, <2>2, <2>3
<1> QED BY <1>1
-----------------------------------------------------------------------------
LEMMA CeilDivFacts ==
  ASSUME NEW n \in Nat, NEW b \in Nat \ {0}
  PROVE  /\ ceilDiv(n, b) \in Nat
         /\ \A x \in Nat : x < n => x \div b < ceilDiv(n, b)
<1> DEFINE p == ceilDiv(n, b)
<1>1. p = (n + b - 1) \div b /\ n + b - 1 \in Nat
  BY DEF ceilDiv
<1>2. p \in Nat /\ p * b <= n + b - 1 /\ n + b - 1 < p * b + b
  BY <1>1, DivFacts
<1> HIDE DEF p
<1>3. ASSUME NEW x \in Nat, x < n PROVE x \div b < p
  <2>1. x \div b \in Nat /\ (x \div b) * b <= x
    BY DivFacts
  <2>2. SUFFICES ASSUME p <= x \div b PROVE FALSE
    BY <1>2, <2>1
  <2>3. p * b <= (x \div b) * b
    BY <1>2, <2>1, <2>2, MulAtMost
  <2>4. p * b \in Nat /\ (x \div b) * b \in Nat
    BY <1>2, <2>1
  <2> QED BY <1>2, <1>3, <2>1, <2>3, <2>4
<1> QED BY <1>2, <1>3 DEF p

\* A column belongs to the aligned piece that its panel belongs to.
LEMMA InAligned ==
  ASSUME NEW n \in Nat, NEW count \in Nat \ {0}, NEW i \in Nat,
         NEW block \in Nat \ {0}, NEW x \in 0 .. n - 1
  PROVE  Within(x, alignedColumnSplit(n, i, count, block)) <=>
           IF block = 1 THEN Within(x, splitRows(n, i, count))
           ELSE Within(x \div block, splitRows(ceilDiv(n, block), i, count))
<1>1. AtLeast(1, block) = block
  BY DEF AtLeast
<1>2. CASE block = 1
  BY <1>1, <1>2 DEF alignedColumnSplit
<1>3. CASE block # 1
  <2> DEFINE p == splitRows(ceilDiv(n, block), i, count)
             q == x \div block
  <2>1. p.lo \in Nat /\ p.hi \in Nat
    <3>1. ceilDiv(n, block) \in Nat
      BY CeilDivFacts
    <3>2. i * ceilDiv(n, block) \in Nat /\ (i + 1) * ceilDiv(n, block) \in Nat
      BY <3>1
    <3> QED BY <3>2, DivFacts DEF splitRows
  <2>2. alignedColumnSplit(n, i, count, block) =
          [lo |-> AtMost(n, p.lo * block), hi |-> AtMost(n, p.hi * block)]
    BY <1>1, <1>3 DEF alignedColumnSplit
  <2>3. q \in Nat /\ q * block <= x /\ x < q * block + block
    BY DivFacts
  <2> HIDE DEF p, q
  <2>4. ASSUME NEW a \in Nat PROVE AtMost(n, a * block) <= x <=> a <= q
    <3>1. a * block \in Nat /\ q * block \in Nat
      BY <2>3
    <3>2. AtMost(n, a * block) <= x <=> a * block <= x
      BY <3>1 DEF AtMost
    <3>3. CASE a <= q
      <4>1. a * block <= q * block
        BY <2>3, <3>3, MulAtMost
      <4> QED BY <2>3, <3>1, <3>2, <3>3, <4>1
    <3>4. CASE q < a
      <4>1. q * block + block <= a * block
        BY <2>3, <3>4, MulLess
      <4> QED BY <2>3, <3>1, <3>2, <3>4, <4>1
    <3> QED BY <2>3, <3>3, <3>4
  <2>5. AtMost(n, p.hi * block) \in Int /\ AtMost(n, p.lo * block) \in Int
    BY <2>1 DEF AtMost
  <2>6. Within(x, alignedColumnSplit(n, i, count, block)) <=> p.lo <= q /\ q < p.hi
    <3>1. Within(x, alignedColumnSplit(n, i, count, block)) <=>
            AtMost(n, p.lo * block) <= x /\ x < AtMost(n, p.hi * block)
      BY <2>2 DEF Within
    <3>2. x < AtMost(n, p.hi * block) <=> ~(AtMost(n, p.hi * block) <= x)
      BY <2>5
    <3>3. AtMost(n, p.lo * block) <= x <=> p.lo <= q
      BY <2>1, <2>4
    <3>4. AtMost(n, p.hi * block) <= x <=> p.hi <= q
      BY <2>1, <2>4
    <3>5. ~(p.hi <= q) <=> q < p.hi
      BY <2>1, <2>3
    <3> QED BY <3>1, <3>2, <3>3, <3>4, <3>5
  <2>7. Within(x, alignedColumnSplit(n, i, count, block)) <=> Within(q, p)
    BY <2>6 DEF Within
  <2> QED BY <1>3, <2>7 DEF p, q
<1> QED BY <1>2, <1>3

\* Every column belongs to one aligned piece.
LEMMA AlignedExists ==
  ASSUME NEW n \in Nat, NEW count \in Nat \ {0}, NEW block \in Nat \ {0},
         NEW x \in 0 .. n - 1
  PROVE  \E i \in 0 .. count - 1 : Within(x, alignedColumnSplit(n, i, count, block))
<1>1. CASE block = 1
  <2>1. PICK i \in 0 .. count - 1 : Within(x, splitRows(n, i, count))
    BY PieceExists
  <2>2. i \in Nat
    OBVIOUS
  <2> QED BY <1>1, <2>1, <2>2, InAligned
<1>2. CASE block # 1
  <2> DEFINE q == x \div block
             panels == ceilDiv(n, block)
  <2>1. panels \in Nat /\ q \in 0 .. panels - 1
    <3>1. q \in Nat
      BY DivFacts
    <3>2. panels \in Nat /\ q < panels
      <4>1. x \in Nat /\ x < n
        OBVIOUS
      <4> QED BY <4>1, CeilDivFacts
    <3> QED BY <3>1, <3>2
  <2> HIDE DEF q, panels
  <2>2. PICK i \in 0 .. count - 1 : Within(q, splitRows(panels, i, count))
    BY <2>1, PieceExists
  <2>3. i \in Nat
    OBVIOUS
  <2>4. Within(x, alignedColumnSplit(n, i, count, block))
    BY <1>2, <2>2, <2>3, InAligned DEF q, panels
  <2> QED BY <2>4
<1> QED BY <1>1, <1>2

LEMMA AlignedUnique ==
  ASSUME NEW n \in Nat, NEW count \in Nat \ {0}, NEW block \in Nat \ {0},
         NEW x \in 0 .. n - 1, NEW i \in Nat, NEW j \in Nat,
         Within(x, alignedColumnSplit(n, i, count, block)),
         Within(x, alignedColumnSplit(n, j, count, block))
  PROVE  i = j
<1>1. CASE block = 1
  <2>1. Within(x, splitRows(n, i, count)) /\ Within(x, splitRows(n, j, count)) /\ x \in Nat
    BY <1>1, InAligned
  <2> QED BY <2>1, PieceUnique
<1>2. CASE block # 1
  <2> DEFINE q == x \div block
             panels == ceilDiv(n, block)
  <2>1. panels \in Nat /\ q \in Nat
    <3>1. x \in Nat
      OBVIOUS
    <3> QED BY <3>1, CeilDivFacts, DivFacts
  <2>2. Within(q, splitRows(panels, i, count)) /\ Within(q, splitRows(panels, j, count))
    BY <1>2, InAligned
  <2> HIDE DEF q, panels
  <2> QED BY <2>1, <2>2, PieceUnique
<1> QED BY <1>1, <1>2

\* Aligned pieces stay inside 0 .. n-1.
LEMMA AlignedBounds ==
  ASSUME NEW n \in Nat, NEW count \in Nat \ {0}, NEW block \in Nat \ {0},
         NEW i \in 0 .. count - 1, NEW x \in Nat,
         Within(x, alignedColumnSplit(n, i, count, block))
  PROVE  x < n
<1>1. AtLeast(1, block) = block
  BY DEF AtLeast
<1>2. CASE block = 1
  BY <1>1, <1>2, PieceBounds DEF alignedColumnSplit
<1>3. CASE block # 1
  <2> DEFINE p == splitRows(ceilDiv(n, block), i, count)
  <2>1. alignedColumnSplit(n, i, count, block) =
          [lo |-> AtMost(n, p.lo * block), hi |-> AtMost(n, p.hi * block)]
    BY <1>1, <1>3 DEF alignedColumnSplit
  <2>2. p.hi \in Nat
    <3>1. ceilDiv(n, block) \in Nat
      BY CeilDivFacts
    <3>2. (i + 1) * ceilDiv(n, block) \in Nat
      BY <3>1
    <3> QED BY <3>2, DivFacts DEF splitRows
  <2> HIDE DEF p
  <2>3. AtMost(n, p.hi * block) <= n /\ AtMost(n, p.hi * block) \in Int
    BY <2>2 DEF AtMost
  <2> QED BY <2>1, <2>3 DEF Within
<1> QED BY <1>2, <1>3

-----------------------------------------------------------------------------
(* The plan and its execution.                                             *)

\* What C holds at each stage of a call, and what the runtime has been asked.
CallerInv(c) ==
  /\ shape[c].rows <= shape[c].m /\ shape[c].cols <= shape[c].n
  /\ call[c] \in {"idle", "refused"} => \A t \in 0 .. MaxTasks - 1 : exec[c][t] = 0
  /\ pc[c] \in {"idle", "plan", "submit"} => call[c] = "idle"
  /\ pc[c] \in {"idle", "plan", "submit", "whole"} => \A x \in Cell : C[c][x] = 0
  /\ pc[c] = "tasks" =>
       /\ call[c] = "open" /\ size[c] = taskCount(plan[c])
       /\ \A x \in Cell : C[c][x] =
            IF \E t \in 0 .. size[c] - 1 : exec[c][t] = 1 /\ Owns(c, t, x) THEN 1 ELSE 0
  /\ pc[c] = "whole" => call[c] \in {"idle", "refused"}
  /\ pc[c] \in {"tail", "done"} => call[c] \in {"idle", "accepted", "settled"}
  /\ pc[c] = "tail" => \A x \in Cell : C[c][x] = IF InPlanned(c, x) THEN 1 ELSE 0
  /\ pc[c] = "done" => \A x \in Cell : C[c][x] = IF InC(c, x) THEN 1 ELSE 0

IndInv == TypeOK /\ \A c \in Callers : CallerInv(c)
-----------------------------------------------------------------------------
\* The tasks are the positions of a grid.
LEMMA GridFacts ==
  ASSUME NEW p, p.columnTasks \in Nat \ {0}, p.rowTasks \in Nat \ {0},
         NEW t \in 0 .. taskCount(p) - 1
  PROVE  /\ gridPosition(p, t).rows \in 0 .. p.rowTasks - 1
         /\ gridPosition(p, t).cols \in 0 .. p.columnTasks - 1
         /\ t = gridPosition(p, t).rows * p.columnTasks + gridPosition(p, t).cols
<1> DEFINE w == p.columnTasks
           h == p.rowTasks
           r == t \div w
<1>1. w \in Nat \ {0} /\ h \in Nat \ {0} /\ t \in Nat /\ t < w * h
  BY DEF taskCount
<1>2. r \in Nat /\ r * w <= t /\ t < r * w + w
  <2> HIDE DEF w
  <2> QED BY <1>1, DivFacts
<1>3. gridPosition(p, t).rows = r /\ gridPosition(p, t).cols = t - r * w
  BY DEF gridPosition
<1> HIDE DEF w, h, r
<1>4. r < h
  <2>1. SUFFICES ASSUME h <= r PROVE FALSE
    BY <1>1, <1>2
  <2>2. h * w <= r * w
    BY <1>1, <1>2, <2>1, MulAtMost
  <2>3. h * w = w * h /\ r * w \in Nat /\ h * w \in Nat
    BY <1>1, <1>2
  <2> QED BY <1>1, <1>2, <2>2, <2>3
<1>5. r * w \in Nat
  BY <1>1, <1>2
<1>6. t - r * w \in 0 .. w - 1 /\ t = r * w + (t - r * w)
  BY <1>1, <1>2, <1>5
<1> QED BY <1>1, <1>2, <1>3, <1>4, <1>6 DEF w, h

LEMMA GridTask ==
  ASSUME NEW p, p.columnTasks \in Nat \ {0}, p.rowTasks \in Nat \ {0},
         NEW r \in 0 .. p.rowTasks - 1, NEW k \in 0 .. p.columnTasks - 1
  PROVE  \E t \in 0 .. taskCount(p) - 1 :
           gridPosition(p, t).rows = r /\ gridPosition(p, t).cols = k
<1> DEFINE w == p.columnTasks
           h == p.rowTasks
           t == r * w + k
<1>1. w \in Nat \ {0} /\ h \in Nat \ {0} /\ r \in Nat /\ k \in Nat /\ r < h /\ k < w
  OBVIOUS
<1> HIDE DEF w, h
<1>2. r * w \in Nat /\ t \in Nat
  BY <1>1
<1>3. t < w * h
  <2>1. r * w + w <= h * w
    BY <1>1, MulLess
  <2>2. h * w = w * h
    BY <1>1
  <2> QED BY <1>1, <1>2, <2>1, <2>2
<1>4. t \div w = r
  <2>1. t >= r * w /\ t < r * w + w
    BY <1>1, <1>2
  <2> HIDE DEF t
  <2>2. t \div w \in Nat /\ t \div w <= r
    BY <1>1, <1>2, <2>1, DivFacts, DivAtMost
  <2>3. CASE r = 0
    BY <2>2, <2>3
  <2>4. CASE r # 0
    <3> DEFINE s == r - 1
    <3>1. s \in Nat /\ s * w + w = r * w /\ r = s + 1
      BY <1>1, <2>4
    <3> HIDE DEF s
    <3>2. ~(t < s * w + w)
      BY <1>1, <1>2, <2>1, <3>1
    <3>3. ~(t \div w <= s)
      BY <1>1, <1>2, <3>1, <3>2, DivAtMost
    <3> QED BY <1>1, <2>2, <3>1, <3>3
  <2> QED BY <2>3, <2>4
<1>5. gridPosition(p, t).rows = r /\ gridPosition(p, t).cols = t - r * w
  BY <1>4 DEF gridPosition, w
<1>6. t - r * w = k
  BY <1>1, <1>2
<1>7. t \in 0 .. taskCount(p) - 1
  BY <1>1, <1>2, <1>3 DEF taskCount, w, h
<1> QED BY <1>5, <1>6, <1>7

\* Every planned cell has one task, which owns no other cells.
LEMMA TaskFacts ==
  ASSUME TypeOK, NEW c \in Callers, NEW x \in Cell
  PROVE  /\ \A t \in 0 .. taskCount(plan[c]) - 1 : Owns(c, t, x) => InPlanned(c, x)
         /\ InPlanned(c, x) => \E t \in 0 .. taskCount(plan[c]) - 1 : Owns(c, t, x)
         /\ \A t, u \in 0 .. taskCount(plan[c]) - 1 : Owns(c, t, x) /\ Owns(c, u, x) => t = u
<1> DEFINE p == plan[c]
           T == 0 .. taskCount(p) - 1
           m == shape[c].rows
           n == shape[c].cols
<1>1. /\ p.columnTasks \in Nat \ {0} /\ p.rowTasks \in Nat \ {0} /\ p.block \in Nat \ {0}
      /\ m \in Nat /\ n \in Nat /\ x[1] \in Nat /\ x[2] \in Nat
  <2>1. p \in [columnTasks : 1 .. MaxTasks, rowTasks : 1 .. MaxTasks, block : Blocks \union {1}]
    BY DEF TypeOK
  <2>2. p.block \in Nat \ {0}
    <3>1. p.block \in Blocks \union {1}
      BY <2>1
    <3>2. \A b \in Blocks \union {1} : b \in Nat \ {0}
      BY GemmAssumptions
    <3> QED BY ONLY <3>1, <3>2
  <2>3. p.columnTasks \in Nat \ {0} /\ p.rowTasks \in Nat \ {0}
    BY <2>1, GemmAssumptions
  <2>4. m \in Nat /\ n \in Nat
    BY GemmAssumptions DEF TypeOK
  <2>5. x[1] \in Nat /\ x[2] \in Nat
    BY GemmAssumptions DEF Cell
  <2> QED BY <2>2, <2>3, <2>4, <2>5
<1>2. \A t : Owns(c, t, x) <=>
        /\ Within(x[1], splitRows(m, gridPosition(p, t).rows, p.rowTasks))
        /\ Within(x[2], alignedColumnSplit(n, gridPosition(p, t).cols, p.columnTasks, p.block))
  BY DEF Owns, taskRows, taskCols
<1>3. InPlanned(c, x) <=> x[1] < m /\ x[2] < n
  BY DEF InPlanned
<1> HIDE DEF p, m, n
<1>4. ASSUME NEW t \in T, Owns(c, t, x) PROVE InPlanned(c, x)
  <2>1. gridPosition(p, t).rows \in 0 .. p.rowTasks - 1
        /\ gridPosition(p, t).cols \in 0 .. p.columnTasks - 1
    BY <1>1, GridFacts
  <2> QED BY <1>1, <1>2, <1>3, <1>4, <2>1, PieceBounds, AlignedBounds
<1>5. ASSUME InPlanned(c, x) PROVE \E t \in T : Owns(c, t, x)
  <2>1. x[1] \in 0 .. m - 1 /\ x[2] \in 0 .. n - 1
    BY <1>1, <1>3, <1>5
  <2>2. PICK r \in 0 .. p.rowTasks - 1 : Within(x[1], splitRows(m, r, p.rowTasks))
    BY <1>1, <2>1, PieceExists
  <2>3. PICK k \in 0 .. p.columnTasks - 1 :
          Within(x[2], alignedColumnSplit(n, k, p.columnTasks, p.block))
    BY <1>1, <2>1, AlignedExists
  <2>4. PICK t \in T : gridPosition(p, t).rows = r /\ gridPosition(p, t).cols = k
    BY <1>1, GridTask
  <2> QED BY <1>2, <2>2, <2>3, <2>4
<1>6. ASSUME NEW t \in T, NEW u \in T, Owns(c, t, x), Owns(c, u, x) PROVE t = u
  <2> DEFINE rt == gridPosition(p, t).rows
             ru == gridPosition(p, u).rows
             kt == gridPosition(p, t).cols
             ku == gridPosition(p, u).cols
  <2>1. /\ rt \in Nat /\ kt \in Nat /\ t = rt * p.columnTasks + kt
        /\ ru \in Nat /\ ku \in Nat /\ u = ru * p.columnTasks + ku
    BY <1>1, GridFacts
  <2>2. /\ Within(x[1], splitRows(m, rt, p.rowTasks))
        /\ Within(x[1], splitRows(m, ru, p.rowTasks))
        /\ Within(x[2], alignedColumnSplit(n, kt, p.columnTasks, p.block))
        /\ Within(x[2], alignedColumnSplit(n, ku, p.columnTasks, p.block))
    BY <1>2, <1>6
  <2>3. x[2] \in 0 .. n - 1
    BY <1>1, <1>3, <1>4, <1>6
  <2> HIDE DEF rt, ru, kt, ku
  <2>4. rt = ru
    BY <1>1, <2>1, <2>2, PieceUnique
  <2>5. kt = ku
    BY <1>1, <2>1, <2>2, <2>3, AlignedUnique
  <2> QED BY <2>1, <2>4, <2>5
<1> QED BY <1>4, <1>5, <1>6 DEF p

\* The rows of a plan share the threads its columns leave.
LEMMA GridBound ==
  ASSUME NEW threads \in 1 .. MaxTasks, NEW columns \in 1 .. threads, NEW rows,
         rows = 1 \/ rows \in 1 .. (threads \div columns)
  PROVE  columns \in 1 .. MaxTasks /\ rows \in 1 .. MaxTasks /\ columns * rows <= MaxTasks
<1>1. threads \in Nat \ {0} /\ threads <= MaxTasks /\ MaxTasks \in Nat
  BY GemmAssumptions
<1>2. (threads \div columns) * columns <= threads /\ threads \div columns \in Nat
  BY <1>1, DivFacts
<1>3. CASE rows = 1
  BY <1>1, <1>3
<1>4. CASE rows \in 1 .. (threads \div columns)
  <2>1. rows * columns <= (threads \div columns) * columns
    <3>1. rows \in Nat /\ columns \in Nat /\ rows <= threads \div columns
      BY <1>1, <1>2, <1>4
    <3> QED BY <1>2, <3>1, MulAtMost
  <2>2. rows <= rows * columns
    BY <1>1, <1>4
  <2>3. rows * columns = columns * rows /\ rows * columns \in Nat
    BY <1>1, <1>4
  <2>4. (threads \div columns) * columns \in Nat
    BY <1>1, <1>2
  <2> QED BY <1>1, <1>2, <1>4, <2>1, <2>2, <2>3, <2>4
<1> QED BY <1>3, <1>4

-----------------------------------------------------------------------------
LEMMA InitInv == Init => IndInv
<1> SUFFICES ASSUME Init PROVE IndInv
  OBVIOUS
<1>1. TypeOK
  <2>1. MaxTasks \in Nat \ {0} /\ MaxM \in Nat /\ MaxN \in Nat
    BY GemmAssumptions
  <2>2. \A c \in Callers : taskCount(plan[c]) <= MaxTasks
    <3>1. taskCount(NoPlan) = 1
      BY DEF NoPlan, taskCount
    <3>2. \A c \in Callers : plan[c] = NoPlan
      BY DEF Init
    <3>3. 1 <= MaxTasks
      BY <2>1
    <3> SUFFICES ASSUME NEW c \in Callers PROVE taskCount(plan[c]) <= MaxTasks
      OBVIOUS
    <3>4. taskCount(plan[c]) = 1
      BY <3>1, <3>2
    <3> QED BY <3>3, <3>4
  <2>3. exec \in [Callers -> [0 .. MaxTasks - 1 -> 0 .. 1]]
    BY DEF Init, Runtime!Init, Runtime!NoWrites, Runtime!Region
  <2>4. /\ call \in [Callers -> Runtime!Stages] /\ size \in [Callers -> 0 .. MaxTasks]
        /\ pc \in [Callers -> Stages] /\ C \in [Callers -> [Cell -> Nat]]
    BY <2>1 DEF Init, Runtime!Init, Runtime!Stages, Stages, Untouched
  <2>5. /\ shape \in [Callers -> [m : 0 .. MaxM, n : 0 .. MaxN, rows : 0 .. MaxM, cols : 0 .. MaxN]]
        /\ plan \in [Callers -> [columnTasks : 1 .. MaxTasks, rowTasks : 1 .. MaxTasks,
                                 block : Blocks \union {1}]]
    BY <2>1 DEF Init, NoShape, NoPlan
  <2> QED BY <2>2, <2>3, <2>4, <2>5 DEF TypeOK
<1>2. \A c \in Callers : CallerInv(c)
  <2> SUFFICES ASSUME NEW c \in Callers PROVE CallerInv(c)
    OBVIOUS
  <2>1. /\ pc[c] = "idle" /\ shape[c] = NoShape /\ C[c] = Untouched
        /\ call[c] = "idle" /\ size[c] = 0 /\ exec[c] = Runtime!NoWrites
    BY DEF Init, Runtime!Init
  <2> QED BY GemmAssumptions, <2>1 DEF CallerInv, Runtime!NoWrites, Runtime!Region, NoShape, Untouched
<1> QED BY <1>1, <1>2 DEF IndInv

\* A caller that does not move keeps its part of the invariant.
LEMMA Frame ==
  ASSUME NEW d \in Callers, CallerInv(d),
         pc'[d] = pc[d], call'[d] = call[d], size'[d] = size[d], exec'[d] = exec[d],
         shape'[d] = shape[d], plan'[d] = plan[d], C'[d] = C[d]
  PROVE  CallerInv(d)'
<1>1. \A t, x : Owns(d, t, x)' <=> Owns(d, t, x)
  BY DEF Owns, taskRows, taskCols
<1>2. \A x : (InPlanned(d, x)' <=> InPlanned(d, x)) /\ (InC(d, x)' <=> InC(d, x))
  BY DEF InPlanned, InC
<1> QED BY <1>1, <1>2 DEF CallerInv

\* One pass over the cells of S adds one to each of them.
LEMMA UpdateFacts ==
  ASSUME TypeOK, NEW c \in Callers, NEW S \in SUBSET Cell, Update(c, S)
  PROVE  /\ C' \in [Callers -> [Cell -> Nat]]
         /\ \A x \in Cell : C'[c][x] = C[c][x] + (IF x \in S THEN 1 ELSE 0)
         /\ \A d \in Callers \ {c} : C'[d] = C[d]
<1> DEFINE v == [x \in Cell |-> C[c][x] + (IF x \in S THEN 1 ELSE 0)]
<1>1. C \in [Callers -> [Cell -> Nat]]
  BY DEF TypeOK
<1>2. C' = [C EXCEPT ![c] = v]
  BY DEF Update
<1>3. v \in [Cell -> Nat]
  BY <1>1
<1>4. \A x \in Cell : v[x] = C[c][x] + (IF x \in S THEN 1 ELSE 0)
  OBVIOUS
<1> HIDE DEF v
<1> QED BY <1>1, <1>2, <1>3, <1>4
-----------------------------------------------------------------------------
LEMMA GemmStep ==
  ASSUME IndInv, NEW c \in Callers, NEW m \in 1 .. MaxM, NEW n \in 1 .. MaxN,
         NEW tailRows \in 0 .. 2, NEW tailCols \in 0 .. 1,
         gemmNoTransReal(c, m, n, tailRows, tailCols)
  PROVE  IndInv'
<1> USE DEF IndInv
<1>1. TypeOK /\ CallerInv(c)
  OBVIOUS
<1>2. TypeOK'
  <2>1. [m |-> m, n |-> n, rows |-> m - tailRows, cols |-> n - tailCols] \in
          [m : 0 .. MaxM, n : 0 .. MaxN, rows : 0 .. MaxM, cols : 0 .. MaxN]
    BY GemmAssumptions DEF gemmNoTransReal
  <2> QED BY <1>1, <2>1 DEF gemmNoTransReal, Goto, runtimeVars, TypeOK, Stages
<1>3. CallerInv(c)'
  <2>1. m - tailRows <= m /\ n - tailCols <= n
    BY GemmAssumptions
  <2> QED BY <1>1, <2>1 DEF gemmNoTransReal, Goto, runtimeVars, TypeOK, CallerInv
<1>4. ASSUME NEW d \in Callers, d # c PROVE CallerInv(d)'
  BY <1>1, <1>4, Frame DEF gemmNoTransReal, Goto, runtimeVars, TypeOK
<1> QED BY <1>2, <1>3, <1>4

LEMMA WithoutPlanStep ==
  ASSUME IndInv, NEW c \in Callers, WithoutPlan(c)
  PROVE  IndInv'
<1> USE DEF IndInv
<1>1. TypeOK /\ CallerInv(c)
  OBVIOUS
<1>u. /\ C' \in [Callers -> [Cell -> Nat]]
      /\ \A x \in Cell : C'[c][x] = C[c][x] + (IF x \in plannedCells(c) THEN 1 ELSE 0)
      /\ \A d \in Callers \ {c} : C'[d] = C[d]
  BY <1>1, UpdateFacts DEF WithoutPlan, plannedCells
<1>2. TypeOK'
  BY <1>1, <1>u DEF WithoutPlan, Goto, runtimeVars, TypeOK, Stages
<1>3. CallerInv(c)'
  <2>1. \A x \in Cell : C'[c][x] = IF InPlanned(c, x) THEN 1 ELSE 0
    BY <1>1, <1>u DEF WithoutPlan, Goto, CallerInv, plannedCells
  <2> QED BY <1>1, <2>1 DEF WithoutPlan, Goto, runtimeVars, TypeOK, CallerInv, InPlanned
<1>4. ASSUME NEW d \in Callers, d # c PROVE CallerInv(d)'
  BY <1>1, <1>4, <1>u, Frame DEF WithoutPlan, Goto, runtimeVars, TypeOK
<1> QED BY <1>2, <1>3, <1>4

LEMMA PlanStep ==
  ASSUME IndInv, NEW c \in Callers, NEW threads \in desiredThreadCount,
         NEW block \in columnBlockForPlan, NEW minRows \in rowMinBlock(shape[c].rows),
         NEW eligible \in BOOLEAN, NEW narrow \in BOOLEAN,
         planForDescriptor(c, threads, block, minRows, eligible, narrow)
  PROVE  IndInv'
<1> USE DEF IndInv
<1>1. TypeOK /\ CallerInv(c)
  OBVIOUS
<1> DEFINE columns == columnTaskCount(threads, shape[c].cols, block)
           rows == rowTaskCount(threads, columns, shape[c].rows, minRows, eligible, narrow)
<1>b. columns \in 1 .. MaxTasks /\ rows \in 1 .. MaxTasks /\ columns * rows <= MaxTasks
  <2>1. /\ shape[c].cols \in Nat /\ shape[c].rows \in Nat /\ block \in Nat \ {0}
        /\ threads \in 1 .. MaxTasks /\ threads \in Nat \ {0}
        /\ minRows \in 1 .. shape[c].rows
    BY <1>1, GemmAssumptions DEF TypeOK, columnBlockForPlan, desiredThreadCount, rowMinBlock
  <2>2. ceilDiv(shape[c].cols, block) \in Nat
    BY <2>1, CeilDivFacts
  <2>3. columns \in 1 .. threads
    BY <2>1, <2>2 DEF columnTaskCount, AtMost, AtLeast
  <2> HIDE DEF columns
  <2>4. threads \div columns \in Nat
    BY <2>1, <2>3, DivFacts
  <2>5. shape[c].rows >= minRows * 2 =>
          shape[c].rows \div minRows \in Nat /\ shape[c].rows \div minRows >= 1
    <3> DEFINE m == shape[c].rows
    <3>1. m \in Nat /\ minRows \in Nat \ {0}
      BY <2>1
    <3> HIDE DEF m
    <3>2. m \div minRows \in Nat /\ m < (m \div minRows) * minRows + minRows
      BY <3>1, DivFacts
    <3>3. m >= minRows * 2 => m \div minRows # 0
      BY <3>1, <3>2
    <3>4. m >= minRows * 2 => m \div minRows \in Nat /\ m \div minRows >= 1
      BY <3>2, <3>3
    <3> QED BY <3>4 DEF m
  <2>6. rows = 1 \/ rows \in 1 .. (threads \div columns)
    BY <2>1, <2>4, <2>5 DEF rowTaskCount, AtMost
  <2> HIDE DEF rows
  <2> QED BY <2>1, <2>3, <2>6, GridBound
<1>p. /\ pc[c] = "plan"
      /\ pc' = [pc EXCEPT ![c] = IF columns * rows <= 1 THEN "whole" ELSE "submit"]
      /\ plan' = [plan EXCEPT ![c] = [columnTasks |-> columns, rowTasks |-> rows, block |-> block]]
  BY DEF planForDescriptor, Goto
<1>u. call' = call /\ size' = size /\ exec' = exec /\ shape' = shape /\ C' = C
  BY DEF planForDescriptor, runtimeVars
<1> HIDE DEF columns, rows
<1>2. TypeOK'
  <2>1. plan' \in [Callers -> [columnTasks : 1 .. MaxTasks, rowTasks : 1 .. MaxTasks,
                               block : Blocks \union {1}]]
    BY <1>1, <1>b, <1>p DEF TypeOK, columnBlockForPlan
  <2>2. \A d \in Callers : taskCount(plan'[d]) <= MaxTasks
    BY <1>1, <1>b, <1>p DEF TypeOK, taskCount
  <2>3. pc' \in [Callers -> Stages]
    BY <1>1, <1>p DEF TypeOK, Stages
  <2> QED BY <1>1, <1>u, <2>1, <2>2, <2>3 DEF TypeOK
<1>3. CallerInv(c)'
  <2>1. pc'[c] \in {"whole", "submit"}
    BY <1>1, <1>p DEF TypeOK
  <2> QED BY <1>1, <1>p, <1>u, <2>1 DEF CallerInv
<1>4. ASSUME NEW d \in Callers, d # c PROVE CallerInv(d)'
  BY <1>1, <1>4, <1>p, <1>u, Frame DEF TypeOK
<1> QED BY <1>2, <1>3, <1>4

LEMMA SubmitStep ==
  ASSUME IndInv, NEW c \in Callers, runSharedTasks(c)
  PROVE  IndInv'
<1> USE DEF IndInv
<1>1. TypeOK /\ CallerInv(c)
  OBVIOUS
<1>p. /\ pc[c] = "submit" /\ pc' = [pc EXCEPT ![c] = "tasks"]
      /\ call[c] = "idle" /\ call' = [call EXCEPT ![c] = "open"]
      /\ size' = [size EXCEPT ![c] = taskCount(plan[c])]
      /\ exec' = exec /\ shape' = shape /\ plan' = plan /\ C' = C
  BY DEF runSharedTasks, Goto, Runtime!Begin
<1>2. TypeOK'
  <2>1. taskCount(plan[c]) \in 0 .. MaxTasks
    <3>1. /\ plan[c] \in [columnTasks : 1 .. MaxTasks, rowTasks : 1 .. MaxTasks,
                          block : Blocks \union {1}]
          /\ taskCount(plan[c]) <= MaxTasks
      BY <1>1 DEF TypeOK
    <3>2. plan[c].columnTasks \in Nat /\ plan[c].rowTasks \in Nat
      BY <3>1
    <3>3. plan[c].columnTasks * plan[c].rowTasks \in Nat
      BY <3>2
    <3> QED BY <3>1, <3>3, GemmAssumptions DEF taskCount
  <2> QED BY <1>1, <1>p, <2>1 DEF TypeOK, Stages, Runtime!Stages
<1>3. CallerInv(c)'
  <2>1. \A t \in 0 .. size'[c] - 1 : exec[c][t] = 0
    <3>1. size'[c] <= MaxTasks /\ size'[c] \in 0 .. MaxTasks
      BY <1>1, <1>2, <1>p DEF TypeOK
    <3>2. \A t \in 0 .. MaxTasks - 1 : exec[c][t] = 0
      BY <1>1, <1>p DEF CallerInv
    <3> QED BY <3>1, <3>2, GemmAssumptions
  <2>2. \A x \in Cell : C[c][x] = 0
    BY <1>1, <1>p DEF CallerInv
  <2>3. pc'[c] = "tasks" /\ call'[c] = "open" /\ size'[c] = taskCount(plan'[c])
    BY <1>1, <1>p DEF TypeOK
  <2>4. \A x \in Cell : C'[c][x] =
          IF \E t \in 0 .. size'[c] - 1 : exec'[c][t] = 1 /\ Owns(c, t, x)' THEN 1 ELSE 0
    BY <1>p, <2>1, <2>2
  <2>5. shape'[c].rows <= shape'[c].m /\ shape'[c].cols <= shape'[c].n
    BY <1>1, <1>p DEF CallerInv
  <2> QED BY <2>3, <2>4, <2>5 DEF CallerInv
<1>4. ASSUME NEW d \in Callers, d # c PROVE CallerInv(d)'
  BY <1>1, <1>4, <1>p, Frame DEF TypeOK
<1> QED BY <1>2, <1>3, <1>4

LEMMA RunTaskStep ==
  ASSUME IndInv, NEW c \in Callers, NEW t \in 0 .. MaxTasks - 1, RunTask(c, t)
  PROVE  IndInv'
<1> USE DEF IndInv
<1>1. TypeOK /\ CallerInv(c)
  OBVIOUS
<1>p. /\ pc[c] = "tasks" /\ pc' = pc /\ call[c] = "open" /\ t < size[c] /\ exec[c][t] = 0
      /\ call' = call /\ size' = size /\ shape' = shape /\ plan' = plan
      /\ exec' = [exec EXCEPT ![c][t] = 1]
  BY DEF RunTask, Runtime!Execute
<1>u. /\ C' \in [Callers -> [Cell -> Nat]]
      /\ \A x \in Cell : C'[c][x] = C[c][x] + (IF x \in taskCells(c, t) THEN 1 ELSE 0)
      /\ \A d \in Callers \ {c} : C'[d] = C[d]
  BY <1>1, UpdateFacts DEF RunTask, taskCells
<1>2. TypeOK'
  <2>1. exec' \in [Callers -> [0 .. MaxTasks - 1 -> 0 .. 1]]
    BY <1>1, <1>p DEF TypeOK
  <2> QED BY <1>1, <1>p, <1>u, <2>1 DEF TypeOK
<1>3. CallerInv(c)'
  <2>1. /\ t \in 0 .. size[c] - 1 /\ size[c] = taskCount(plan[c]) /\ call[c] = "open"
        /\ shape[c].rows <= shape[c].m /\ shape[c].cols <= shape[c].n
        /\ \A x \in Cell : C[c][x] =
             IF \E s \in 0 .. size[c] - 1 : exec[c][s] = 1 /\ Owns(c, s, x) THEN 1 ELSE 0
    BY <1>1, <1>p, GemmAssumptions DEF CallerInv, TypeOK
  <2>2. \A s \in 0 .. size[c] - 1 : exec'[c][s] = IF s = t THEN 1 ELSE exec[c][s]
    <3>1. size[c] \in 0 .. MaxTasks
      BY <1>1 DEF TypeOK
    <3>2. \A s \in 0 .. MaxTasks - 1 : exec'[c][s] = IF s = t THEN 1 ELSE exec[c][s]
      BY <1>1, <1>p DEF TypeOK
    <3> QED BY <3>1, <3>2, GemmAssumptions
  <2>3. ASSUME NEW x \in Cell
        PROVE  C'[c][x] =
          IF \E s \in 0 .. size[c] - 1 : exec'[c][s] = 1 /\ Owns(c, s, x) THEN 1 ELSE 0
    <3>1. C'[c][x] = C[c][x] + (IF Owns(c, t, x) THEN 1 ELSE 0)
      BY <1>u DEF taskCells
    <3>2. CASE Owns(c, t, x)
      <4>1. \A s \in 0 .. size[c] - 1 : Owns(c, s, x) => s = t
        BY <1>1, <2>1, <3>2, TaskFacts
      <4>2. C[c][x] = 0
        BY <1>p, <2>1, <4>1
      <4>3. exec'[c][t] = 1
        BY <2>1, <2>2
      <4> QED BY <2>1, <3>1, <3>2, <4>2, <4>3
    <3>3. CASE ~Owns(c, t, x)
      <4>1. (\E s \in 0 .. size[c] - 1 : exec'[c][s] = 1 /\ Owns(c, s, x))
              <=> (\E s \in 0 .. size[c] - 1 : exec[c][s] = 1 /\ Owns(c, s, x))
        BY <2>2, <3>3
      <4> QED BY <2>1, <3>1, <3>3, <4>1
    <3> QED BY <3>2, <3>3
  <2>4. \A s, x : Owns(c, s, x)' <=> Owns(c, s, x)
    BY <1>p DEF Owns, taskRows, taskCols
  <2> QED BY <1>p, <2>1, <2>3, <2>4 DEF CallerInv
<1>4. ASSUME NEW d \in Callers, d # c PROVE CallerInv(d)'
  BY <1>1, <1>4, <1>p, <1>u, Frame DEF TypeOK
<1> QED BY <1>2, <1>3, <1>4

LEMMA DoneStep ==
  ASSUME IndInv, NEW c \in Callers, TasksDone(c)
  PROVE  IndInv'
<1> USE DEF IndInv
<1>1. TypeOK /\ CallerInv(c)
  OBVIOUS
<1>p. /\ pc[c] = "tasks" /\ pc' = [pc EXCEPT ![c] = "tail"]
      /\ call[c] = "open" /\ exec[c] = Runtime!WrittenOnce(size[c])
      /\ call' = [call EXCEPT ![c] = "accepted"]
      /\ size' = size /\ exec' = exec /\ shape' = shape /\ plan' = plan /\ C' = C
  BY DEF TasksDone, Goto, Runtime!Accept
<1>2. TypeOK'
  BY <1>1, <1>p DEF TypeOK, Stages, Runtime!Stages
<1>3. CallerInv(c)'
  <2>1. /\ size[c] = taskCount(plan[c]) /\ size[c] \in 0 .. MaxTasks
        /\ shape[c].rows <= shape[c].m /\ shape[c].cols <= shape[c].n
        /\ \A x \in Cell : C[c][x] =
             IF \E s \in 0 .. size[c] - 1 : exec[c][s] = 1 /\ Owns(c, s, x) THEN 1 ELSE 0
    BY <1>1, <1>p DEF CallerInv, TypeOK
  <2>2. \A s \in 0 .. size[c] - 1 : exec[c][s] = 1
    BY <1>p, <2>1, GemmAssumptions DEF Runtime!WrittenOnce, Runtime!Region
  <2>3. \A x \in Cell :
          InPlanned(c, x) <=> \E s \in 0 .. size[c] - 1 : exec[c][s] = 1 /\ Owns(c, s, x)
    BY <1>1, <2>1, <2>2, TaskFacts
  <2>4. \A x \in Cell : C'[c][x] = IF InPlanned(c, x)' THEN 1 ELSE 0
    BY <1>p, <2>1, <2>3 DEF InPlanned
  <2>5. pc'[c] = "tail" /\ call'[c] = "accepted"
    BY <1>1, <1>p DEF TypeOK
  <2> QED BY <1>p, <2>1, <2>4, <2>5 DEF CallerInv
<1>4. ASSUME NEW d \in Callers, d # c PROVE CallerInv(d)'
  BY <1>1, <1>4, <1>p, Frame DEF TypeOK
<1> QED BY <1>2, <1>3, <1>4

LEMMA RefusedStep ==
  ASSUME IndInv, NEW c \in Callers, TasksRefused(c)
  PROVE  IndInv'
<1> USE DEF IndInv
<1>1. TypeOK /\ CallerInv(c)
  OBVIOUS
<1>p. /\ pc[c] = "tasks" /\ pc' = [pc EXCEPT ![c] = "whole"]
      /\ call[c] = "open" /\ exec[c] = Runtime!NoWrites
      /\ call' = [call EXCEPT ![c] = "refused"]
      /\ size' = size /\ exec' = exec /\ shape' = shape /\ plan' = plan /\ C' = C
  BY DEF TasksRefused, Goto, Runtime!Refuse
<1>2. TypeOK'
  BY <1>1, <1>p DEF TypeOK, Stages, Runtime!Stages
<1>3. CallerInv(c)'
  <2>1. \A s \in 0 .. MaxTasks - 1 : exec[c][s] = 0
    BY <1>p, GemmAssumptions DEF Runtime!NoWrites, Runtime!Region
  <2>2. size[c] \in 0 .. MaxTasks
    BY <1>1 DEF TypeOK
  <2>3. \A s \in 0 .. size[c] - 1 : exec[c][s] = 0
    BY <2>1, <2>2, GemmAssumptions
  <2>4. \A x \in Cell : C[c][x] = 0
    BY <1>1, <1>p, <2>3 DEF CallerInv
  <2>5. pc'[c] = "whole" /\ call'[c] = "refused"
    BY <1>1, <1>p DEF TypeOK
  <2>6. shape[c].rows <= shape[c].m /\ shape[c].cols <= shape[c].n
    BY <1>1 DEF CallerInv
  <2> QED BY <1>p, <2>1, <2>4, <2>5, <2>6 DEF CallerInv
<1>4. ASSUME NEW d \in Callers, d # c PROVE CallerInv(d)'
  BY <1>1, <1>4, <1>p, Frame DEF TypeOK
<1> QED BY <1>2, <1>3, <1>4

LEMMA WholeStep ==
  ASSUME IndInv, NEW c \in Callers, fallbackWholeTask(c)
  PROVE  IndInv'
<1> USE DEF IndInv
<1>1. TypeOK /\ CallerInv(c)
  OBVIOUS
<1>p. /\ pc[c] = "whole" /\ pc' = [pc EXCEPT ![c] = "tail"]
      /\ shape' = shape /\ plan' = plan
  BY DEF fallbackWholeTask, Goto
<1>r. /\ size' = size
      /\ exec' \in [Callers -> [0 .. MaxTasks - 1 -> 0 .. 1]]
      /\ \A d \in Callers \ {c} : exec'[d] = exec[d]
      /\ \/ call[c] = "refused" /\ call' = [call EXCEPT ![c] = "settled"]
         \/ call[c] # "refused" /\ call' = call /\ exec' = exec
  <2>1. CASE call[c] = "refused"
    <3>1. /\ call' = [call EXCEPT ![c] = "settled"] /\ size' = size
          /\ exec' = [exec EXCEPT ![c] = Runtime!WrittenOnce(size[c])]
      BY <2>1 DEF fallbackWholeTask, Runtime!Fallback
    <3>2. Runtime!WrittenOnce(size[c]) \in [0 .. MaxTasks - 1 -> 0 .. 1]
      BY DEF Runtime!WrittenOnce, Runtime!Region
    <3> QED BY <1>1, <2>1, <3>1, <3>2 DEF TypeOK
  <2>2. CASE call[c] # "refused"
    BY <1>1, <2>2 DEF fallbackWholeTask, runtimeVars, TypeOK
  <2> QED BY <2>1, <2>2
<1>u. /\ C' \in [Callers -> [Cell -> Nat]]
      /\ \A x \in Cell : C'[c][x] = C[c][x] + (IF x \in plannedCells(c) THEN 1 ELSE 0)
      /\ \A d \in Callers \ {c} : C'[d] = C[d]
  BY <1>1, UpdateFacts DEF fallbackWholeTask, plannedCells
<1>2. TypeOK'
  BY <1>1, <1>p, <1>r, <1>u DEF TypeOK, Stages, Runtime!Stages
<1>3. CallerInv(c)'
  <2>1. \A x \in Cell : C'[c][x] = IF InPlanned(c, x)' THEN 1 ELSE 0
    BY <1>1, <1>p, <1>u DEF CallerInv, plannedCells, InPlanned
  <2>2. pc'[c] = "tail" /\ call'[c] \in {"idle", "settled"}
    BY <1>1, <1>p, <1>r DEF TypeOK, CallerInv
  <2>3. call'[c] = "idle" => \A s \in 0 .. MaxTasks - 1 : exec'[c][s] = 0
    BY <1>1, <1>r DEF CallerInv, TypeOK
  <2>4. shape[c].rows <= shape[c].m /\ shape[c].cols <= shape[c].n
    BY <1>1 DEF CallerInv
  <2> QED BY <1>p, <2>1, <2>2, <2>3, <2>4 DEF CallerInv
<1>4. ASSUME NEW d \in Callers, d # c PROVE CallerInv(d)'
  BY <1>1, <1>4, <1>p, <1>r, <1>u, Frame DEF TypeOK
<1> QED BY <1>2, <1>3, <1>4

LEMMA TailStep ==
  ASSUME IndInv, NEW c \in Callers, GemvTail(c)
  PROVE  IndInv'
<1> USE DEF IndInv
<1>1. TypeOK /\ CallerInv(c)
  OBVIOUS
<1>p. /\ pc[c] = "tail" /\ pc' = [pc EXCEPT ![c] = "done"]
      /\ call' = call /\ size' = size /\ exec' = exec /\ shape' = shape /\ plan' = plan
  BY DEF GemvTail, Goto, runtimeVars
<1>u. /\ C' \in [Callers -> [Cell -> Nat]]
      /\ \A x \in Cell : C'[c][x] = C[c][x] + (IF x \in tailCells(c) THEN 1 ELSE 0)
      /\ \A d \in Callers \ {c} : C'[d] = C[d]
  BY <1>1, UpdateFacts DEF GemvTail, tailCells
<1>2. TypeOK'
  BY <1>1, <1>p, <1>u DEF TypeOK, Stages
<1>3. CallerInv(c)'
  <2>1. shape[c].rows <= shape[c].m /\ shape[c].cols <= shape[c].n
    BY <1>1 DEF CallerInv
  <2>2. ASSUME NEW x \in Cell PROVE C'[c][x] = IF InC(c, x) THEN 1 ELSE 0
    <3>1. C[c][x] = IF InPlanned(c, x) THEN 1 ELSE 0
      BY <1>1, <1>p DEF CallerInv
    <3>2. InPlanned(c, x) => InC(c, x)
      <4>1. x[1] \in Nat /\ x[2] \in Nat
        BY GemmAssumptions DEF Cell
      <4>2. /\ shape[c].rows \in Nat /\ shape[c].m \in Nat
            /\ shape[c].cols \in Nat /\ shape[c].n \in Nat
        BY <1>1, GemmAssumptions DEF TypeOK
      <4> QED BY <2>1, <4>1, <4>2 DEF InPlanned, InC
    <3>3. x \in tailCells(c) <=> InC(c, x) /\ ~InPlanned(c, x)
      BY DEF tailCells
    <3>4. C'[c][x] = C[c][x] + (IF x \in tailCells(c) THEN 1 ELSE 0)
      BY <1>u
    <3> QED BY <3>1, <3>2, <3>3, <3>4
  <2>3. \A x \in Cell : C'[c][x] = IF InC(c, x)' THEN 1 ELSE 0
    BY <1>p, <2>2 DEF InC
  <2>4. pc'[c] = "done"
    BY <1>1, <1>p DEF TypeOK
  <2> QED BY <1>1, <1>p, <2>1, <2>3, <2>4 DEF CallerInv
<1>4. ASSUME NEW d \in Callers, d # c PROVE CallerInv(d)'
  BY <1>1, <1>4, <1>p, <1>u, Frame DEF TypeOK
<1> QED BY <1>2, <1>3, <1>4

LEMMA ReturnStep ==
  ASSUME IndInv, NEW c \in Callers, Return(c)
  PROVE  IndInv'
<1> USE DEF IndInv
<1>1. TypeOK /\ CallerInv(c)
  OBVIOUS
<1>p. /\ pc[c] = "done" /\ pc' = [pc EXCEPT ![c] = "idle"]
      /\ shape' = [shape EXCEPT ![c] = NoShape]
      /\ plan' = [plan EXCEPT ![c] = NoPlan]
      /\ C' = [C EXCEPT ![c] = Untouched]
  BY DEF Return, Goto
<1>r. /\ call' \in [Callers -> Runtime!Stages] /\ call'[c] = "idle"
      /\ size' \in [Callers -> 0 .. MaxTasks]
      /\ exec' \in [Callers -> [0 .. MaxTasks - 1 -> 0 .. 1]]
      /\ \A s \in 0 .. MaxTasks - 1 : exec'[c][s] = 0
      /\ \A d \in Callers \ {c} : call'[d] = call[d] /\ size'[d] = size[d] /\ exec'[d] = exec[d]
  <2>1. CASE call[c] = "idle"
    BY <1>1, <2>1 DEF Return, runtimeVars, TypeOK, CallerInv
  <2>2. CASE call[c] # "idle"
    <3>1. /\ call' = [call EXCEPT ![c] = "idle"] /\ size' = [size EXCEPT ![c] = 0]
          /\ exec' = [exec EXCEPT ![c] = Runtime!NoWrites]
      BY <2>2 DEF Return, Runtime!Finish
    <3>2. /\ Runtime!NoWrites \in [0 .. MaxTasks - 1 -> 0 .. 1]
          /\ \A s \in 0 .. MaxTasks - 1 : Runtime!NoWrites[s] = 0
      BY DEF Runtime!NoWrites, Runtime!Region
    <3>3. 0 \in 0 .. MaxTasks /\ "idle" \in Runtime!Stages
      BY GemmAssumptions DEF Runtime!Stages
    <3> QED BY <1>1, <3>1, <3>2, <3>3 DEF TypeOK
  <2> QED BY <2>1, <2>2
<1>2. TypeOK'
  <2>1. NoShape \in [m : 0 .. MaxM, n : 0 .. MaxN, rows : 0 .. MaxM, cols : 0 .. MaxN]
    BY GemmAssumptions DEF NoShape
  <2>2. NoPlan \in [columnTasks : 1 .. MaxTasks, rowTasks : 1 .. MaxTasks, block : Blocks \union {1}]
        /\ taskCount(NoPlan) <= MaxTasks
    BY GemmAssumptions DEF NoPlan, taskCount
  <2>3. Untouched \in [Cell -> Nat]
    BY DEF Untouched
  <2>4. \A d \in Callers : taskCount(plan'[d]) <= MaxTasks
    BY <1>1, <1>p, <2>2 DEF TypeOK
  <2> QED BY <1>1, <1>p, <1>r, <2>1, <2>2, <2>3, <2>4 DEF TypeOK, Stages
<1>3. CallerInv(c)'
  <2>1. shape'[c] = NoShape /\ C'[c] = Untouched /\ pc'[c] = "idle"
    BY <1>1, <1>p DEF TypeOK
  <2> QED BY <1>r, <2>1 DEF CallerInv, NoShape, Untouched
<1>4. ASSUME NEW d \in Callers, d # c PROVE CallerInv(d)'
  BY <1>1, <1>4, <1>p, <1>r, Frame DEF TypeOK
<1> QED BY <1>2, <1>3, <1>4

-----------------------------------------------------------------------------
LEMMA StepInv == IndInv /\ [Next]_vars => IndInv'
<1> SUFFICES ASSUME IndInv, [Next]_vars PROVE IndInv'
  OBVIOUS
<1>1. CASE Next
  <2>1. PICK c \in Callers :
        \/ \E m \in 1 .. MaxM, n \in 1 .. MaxN, tailRows \in 0 .. 2, tailCols \in 0 .. 1 :
             gemmNoTransReal(c, m, n, tailRows, tailCols)
        \/ WithoutPlan(c)
        \/ \E threads \in desiredThreadCount, block \in columnBlockForPlan,
              minRows \in rowMinBlock(shape[c].rows), eligible, narrow \in BOOLEAN :
             planForDescriptor(c, threads, block, minRows, eligible, narrow)
        \/ runSharedTasks(c)
        \/ \E t \in 0 .. MaxTasks - 1 : RunTask(c, t)
        \/ TasksDone(c) \/ TasksRefused(c)
        \/ fallbackWholeTask(c) \/ GemvTail(c) \/ Return(c)
    BY <1>1 DEF Next
  <2> QED BY <2>1, GemmStep, WithoutPlanStep, PlanStep, SubmitStep, RunTaskStep, DoneStep,
             RefusedStep, WholeStep, TailStep, ReturnStep
<1>2. CASE UNCHANGED vars
  <2>1. TypeOK'
    BY <1>2 DEF vars, runtimeVars, IndInv, TypeOK
  <2>2. \A c \in Callers : CallerInv(c)'
    BY <1>2, Frame DEF vars, runtimeVars, IndInv
  <2> QED BY <2>1, <2>2 DEF IndInv
<1> QED BY <1>1, <1>2

THEOREM Invariance == Spec => []IndInv
  BY InitInv, StepInv, PTL DEF Spec

\* A plan never has more tasks than the runtime, and its task array, take.
THEOREM TypeCorrect == Spec => []TypeOK
  BY Invariance, PTL DEF IndInv

\* GEMM returns with every cell of C updated exactly once and none beside it.
THEOREM CellsUpdatedOnce == Spec => []CellsOnce
<1>1. IndInv => CellsOnce
  BY DEF IndInv, CallerInv, CellsOnce
<1> QED BY <1>1, Invariance, PTL

\* Tasks that may run side by side write disjoint parts of C.
THEOREM TasksDisjoint == Spec => []NoSharedCell
<1>1. IndInv => NoSharedCell
  <2> SUFFICES ASSUME IndInv, NEW c \in Callers, pc[c] = "tasks",
                      NEW t \in 0 .. size[c] - 1, NEW u \in 0 .. size[c] - 1, t # u,
                      NEW x \in Cell, Owns(c, t, x), Owns(c, u, x)
               PROVE  FALSE
    BY DEF NoSharedCell
  <2>1. size[c] = taskCount(plan[c]) /\ TypeOK
    BY DEF IndInv, CallerInv
  <2> QED BY <2>1, TaskFacts
<1> QED BY <1>1, Invariance, PTL
-----------------------------------------------------------------------------
(* The job queue: the invariant follows one job, which is not taken yet,   *)
(* in the hands of one task, or done.                                      *)

\* The types the argument needs; `next` and the counts are unbounded here.
QueueTyping ==
  /\ call \in [Callers -> Runtime!Stages]
  /\ size \in [Callers -> 0 .. MaxTasks]
  /\ exec \in [Callers -> [Task -> 0 .. 1]]
  /\ pc \in [Callers -> {"idle", "queue", "true", "false"}]
  /\ jobs \in [Callers -> 0 .. MaxJobs]
  /\ next \in [Callers -> Nat]
  /\ slot \in [Callers -> [Task -> {"none", "claim", "job", "done"}]]
  /\ index \in [Callers -> [Task -> Nat]]
  /\ ran \in [Callers -> [Job -> Nat]]

QueueHasJob(c, i, j) == slot[c][i] = "job" /\ index[c][i] = j
QueueTaken(c, j)     == j < next[c] /\ j < jobs[c]

QueueAtWork(c) ==
  /\ call[c] = "open" /\ size[c] >= 2
  /\ \A i \in Task : slot[c][i] = "none" <=> exec[c][i] = 0
  /\ (\A i \in Task : slot[c][i] = "none") => next[c] = 0
  /\ \A i \in Task : slot[c][i] = "done" => next[c] >= jobs[c]
  /\ \A i \in Task : slot[c][i] = "job" => QueueTaken(c, index[c][i])
  /\ \A i, h \in Task :
       slot[c][i] = "job" /\ slot[c][h] = "job" /\ index[c][i] = index[c][h] => i = h
  /\ \A i \in Task : slot[c][i] = "job" => ran[c][index[c][i]] = 0
  /\ \A j \in Job :
       IF QueueTaken(c, j) THEN ran[c][j] = 1 \/ (ran[c][j] = 0 /\ \E i \in Task : QueueHasJob(c, i, j))
       ELSE ran[c][j] = 0

QueueCallerInv(c) ==
  /\ pc[c] = "idle" =>
       call[c] = "idle" /\ exec[c] = AllOf(Task, 0) /\ ran[c] = AllOf(Job, 0)
  /\ pc[c] = "queue" => QueueAtWork(c)
  /\ pc[c] # "queue" => next[c] = 0 /\ slot[c] = AllOf(Task, "none")
  /\ pc[c] = "true" => ran[c] = RanOnce(jobs[c]) /\ call[c] \in {"idle", "accepted", "settled"}
  /\ pc[c] = "false" => ran[c] = AllOf(Job, 0) /\ call[c] \in {"idle", "refused"}
  /\ call[c] = "idle" => exec[c] = AllOf(Task, 0)

QueueInv == QueueTyping /\ \A c \in Callers : QueueCallerInv(c)
\* The runtime, in the terms of the queue.
LEMMA QueueRuntimeTypes ==
  /\ Runtime!Region = Task
  /\ Runtime!NoWrites = AllOf(Task, 0)
  /\ Runtime!Stages = {"idle", "open", "accepted", "refused", "settled"}
  /\ \A n : Runtime!WrittenOnce(n) = [i \in Task |-> IF i < n THEN 1 ELSE 0]
BY DEF Runtime!Region, Runtime!NoWrites, Runtime!Stages, Runtime!WrittenOnce, Task, AllOf

\* Tasks and jobs are numbered from 0.
LEMMA QueueFacts ==
  /\ Task \subseteq Nat /\ Job \subseteq Nat /\ 0 \in Task
  /\ \A j \in Nat : j < MaxJobs => j \in Job
  /\ \A n \in Nat : n <= MaxJobs => \A j \in Nat : j < n => j \in Job
BY QueueAssumptions DEF Task, Job

\* No caller has a queue at first.
LEMMA QueueInitInv == QueueInit => QueueInv
BY QueueRuntimeTypes, QueueFacts, QueueAssumptions
      DEF QueueInit, QueueInv, QueueTyping, QueueCallerInv,
          Runtime!Init, AllOf

\* What a step leaves alone for a caller keeps the invariant of that caller.
LEMMA QueueFrame ==
  ASSUME NEW d \in Callers, QueueCallerInv(d),
         call'[d] = call[d], size'[d] = size[d], exec'[d] = exec[d], pc'[d] = pc[d],
         jobs'[d] = jobs[d], next'[d] = next[d], slot'[d] = slot[d],
         index'[d] = index[d], ran'[d] = ran[d]
  PROVE  QueueCallerInv(d)'
BY DEF QueueCallerInv, QueueAtWork, QueueTaken, QueueHasJob

\* A queue is opened, or is too small for it (runQueued).
LEMMA RunQueuedStep ==
  ASSUME QueueInv, NEW c \in Callers, NEW count \in 0 .. MaxJobs, NEW limit \in Limits,
         NEW helpers \in 0 .. MaxTasks - 1, runQueued(c, count, limit, helpers)
  PROVE  QueueInv'
<1> DEFINE n == workers(count, limit, helpers)
<1>1. n \in 0 .. MaxTasks
  BY QueueAssumptions DEF workers, AtMost
<1>2. QueueTyping'
  BY <1>1, QueueRuntimeTypes
     DEF runQueued, Goto, QueueInv, QueueTyping, Runtime!Begin,
         runtimeVars
<1>3. ASSUME NEW d \in Callers, d # c PROVE QueueCallerInv(d)'
  <2>1. QueueCallerInv(d)
    BY DEF QueueInv
  <2> QED BY <1>3, <2>1, QueueFrame
     DEF runQueued, Goto, QueueInv, QueueTyping, Runtime!Begin,
         runtimeVars
<1>4. QueueCallerInv(c)'
  <2>1. QueueCallerInv(c) /\ pc[c] = "idle"
    BY DEF QueueInv, runQueued, Goto
  <2>2. /\ next'[c] = 0 /\ slot'[c] = AllOf(Task, "none") /\ ran'[c] = AllOf(Job, 0)
        /\ exec'[c] = AllOf(Task, 0)
    BY <2>1 DEF runQueued, QueueCallerInv, Runtime!Begin, runtimeVars
  <2>3. CASE n <= 1
    BY <2>1, <2>2, <2>3 DEF runQueued, Goto, QueueCallerInv, QueueInv, QueueTyping, runtimeVars
  <2>4. CASE n > 1
    <3>1. pc'[c] = "queue" /\ call'[c] = "open" /\ size'[c] = n
      BY <1>1, <2>4 DEF runQueued, Goto, QueueInv, QueueTyping, Runtime!Begin
    <3>2. QueueAtWork(c)'
      BY <1>1, <1>2, <2>2, <2>4, <3>1, QueueFacts
         DEF QueueAtWork, QueueTaken, QueueHasJob, QueueTyping, AllOf
    <3> QED BY <2>2, <3>1, <3>2 DEF QueueCallerInv
  <2> QED BY <1>1, <2>3, <2>4
<1> QED BY <1>2, <1>3, <1>4 DEF QueueInv

\* A task of the runtime enters the queue.
LEMMA QueueStartTaskStep ==
  ASSUME QueueInv, NEW c \in Callers, NEW i \in Task, StartTask(c, i)
  PROVE  QueueInv'
<1>1. QueueTyping'
  BY QueueRuntimeTypes DEF StartTask, QueueInv, QueueTyping, Runtime!Execute
<1>2. ASSUME NEW d \in Callers, d # c PROVE QueueCallerInv(d)'
  <2>1. QueueCallerInv(d)
    BY DEF QueueInv
  <2> QED BY <1>2, <2>1, QueueFrame
     DEF StartTask, QueueInv, QueueTyping, Runtime!Execute
<1>3. QueueCallerInv(c)'
  <2>1. QueueAtWork(c) /\ pc'[c] = "queue" /\ pc[c] = "queue" /\ exec[c][i] = 0
    BY DEF QueueInv, QueueCallerInv, StartTask, Runtime!Execute
  <2>2. slot[c][i] = "none"
    BY <2>1 DEF QueueAtWork
  <2>3. /\ \A h \in Task : slot'[c][h] = IF h = i THEN "claim" ELSE slot[c][h]
        /\ \A h \in Task : exec'[c][h] = IF h = i THEN 1 ELSE exec[c][h]
        /\ call' = call /\ size' = size /\ next' = next /\ jobs' = jobs
        /\ index' = index /\ ran' = ran
    BY DEF StartTask, QueueInv, QueueTyping, Runtime!Execute
  <2>4. QueueAtWork(c)'
    BY <2>1, <2>2, <2>3 DEF QueueAtWork, QueueTaken, QueueHasJob
  <2> QED BY <2>1, <2>3, <2>4 DEF QueueCallerInv, QueueAtWork
<1> QED BY <1>1, <1>2, <1>3 DEF QueueInv

\* A task takes the next job, if there is one.
LEMMA QueueClaimStep ==
  ASSUME QueueInv, NEW c \in Callers, NEW i \in Task, Claim(c, i)
  PROVE  QueueInv'
<1> USE DEF runtimeVars
<1>1. QueueTyping'
  BY DEF Claim, QueueInv, QueueTyping
<1>2. ASSUME NEW d \in Callers, d # c PROVE QueueCallerInv(d)'
  <2>1. QueueCallerInv(d)
    BY DEF QueueInv
  <2> QED BY <1>2, <2>1, QueueFrame DEF Claim, QueueInv, QueueTyping
<1>3. QueueCallerInv(c)'
  <2>1. slot[c][i] = "claim" /\ QueueCallerInv(c)
    BY DEF Claim, QueueInv
  <2>2. pc[c] = "queue" /\ QueueAtWork(c)
    BY <2>1 DEF QueueCallerInv, AllOf
  <2>3. /\ next[c] \in Nat /\ jobs[c] \in 0 .. MaxJobs /\ next'[c] = next[c] + 1
        /\ \A h \in Task : slot'[c][h] =
             IF h # i THEN slot[c][h] ELSE IF next[c] >= jobs[c] THEN "done" ELSE "job"
        /\ \A h \in Task : index'[c][h] =
             IF h # i THEN index[c][h] ELSE IF next[c] >= jobs[c] THEN 0 ELSE next[c]
        /\ call' = call /\ size' = size /\ jobs' = jobs /\ ran' = ran /\ exec' = exec
        /\ pc' = pc
    BY DEF Claim, QueueInv, QueueTyping
  <2>4. \A h \in Task : index[c][h] \in Nat
    BY DEF QueueInv, QueueTyping
  <2>5. \A j \in Nat : QueueTaken(c, j)' <=> QueueTaken(c, j) \/ (j = next[c] /\ j < jobs[c])
    BY <2>3 DEF QueueTaken
  <2>6. \A h \in Task : slot'[c][h] # "none" <=> slot[c][h] # "none"
    BY <2>1, <2>3
  <2>7. QueueAtWork(c)'
    <3>1. /\ call'[c] = "open" /\ size'[c] >= 2
          /\ \A h \in Task : slot'[c][h] = "none" <=> exec'[c][h] = 0
      BY <2>2, <2>3, <2>6 DEF QueueAtWork
    <3>2. (\A h \in Task : slot'[c][h] = "none") => next'[c] = 0
      BY <2>1, <2>6
    <3>3. \A h \in Task : slot'[c][h] = "done" => next'[c] >= jobs'[c]
      BY <2>2, <2>3 DEF QueueAtWork
    <3>4. \A h \in Task : slot'[c][h] = "job" => QueueTaken(c, index[c][h])'
      <4> SUFFICES ASSUME NEW h \in Task, slot'[c][h] = "job"
                   PROVE  index'[c][h] < next'[c] /\ index'[c][h] < jobs'[c]
        BY <2>3 DEF QueueTaken
      <4>1. CASE h = i
        BY <2>3, <4>1
      <4>2. CASE h # i
        BY <2>2, <2>3, <2>4, <4>2 DEF QueueAtWork, QueueTaken
      <4> QED BY <4>1, <4>2
    <3>5. \A g, h \in Task :
            slot'[c][g] = "job" /\ slot'[c][h] = "job" /\ index'[c][g] = index'[c][h] => g = h
      BY <2>2, <2>3, <2>4 DEF QueueAtWork, QueueTaken
    <3>6. \A h \in Task : slot'[c][h] = "job" => ran'[c][index'[c][h]] = 0
      <4> SUFFICES ASSUME NEW h \in Task, slot'[c][h] = "job" PROVE ran'[c][index'[c][h]] = 0
        OBVIOUS
      <4>1. CASE h = i
        <5>1. next[c] \in Job /\ index'[c][h] = next[c] /\ ~QueueTaken(c, next[c])
          BY <2>3, <4>1, QueueFacts DEF QueueTaken
        <5> QED BY <2>2, <2>3, <5>1 DEF QueueAtWork
      <4>2. CASE h # i
        BY <2>2, <2>3, <4>2 DEF QueueAtWork
      <4> QED BY <4>1, <4>2
    <3>7. ASSUME NEW j \in Job
          PROVE  IF QueueTaken(c, j)'
                 THEN ran'[c][j] = 1 \/ (ran'[c][j] = 0 /\ \E h \in Task : QueueHasJob(c, h, j)')
                 ELSE ran'[c][j] = 0
      <4>0. j \in Nat
        BY QueueFacts
      <4>1. CASE j = next[c] /\ j < jobs[c]
        <5>1. QueueHasJob(c, i, j)'
          BY <2>3, <4>1 DEF QueueHasJob
        <5>2. ~QueueTaken(c, j)
          BY <2>3, <4>1 DEF QueueTaken
        <5> QED BY <2>2, <2>3, <2>5, <4>0, <4>1, <5>1, <5>2 DEF QueueAtWork
      <4>2. CASE ~(j = next[c] /\ j < jobs[c])
        <5>1. \A h \in Task : QueueHasJob(c, h, j) => QueueHasJob(c, h, j)'
          BY <2>1, <2>3 DEF QueueHasJob
        <5> QED BY <2>2, <2>3, <2>5, <4>0, <4>2, <5>1 DEF QueueAtWork
      <4> QED BY <4>1, <4>2
    <3> QED BY <3>1, <3>2, <3>3, <3>4, <3>5, <3>6, <3>7 DEF QueueAtWork, QueueTaken, QueueHasJob
  <2> QED BY <2>2, <2>3, <2>7 DEF QueueCallerInv, QueueAtWork
<1> QED BY <1>1, <1>2, <1>3 DEF QueueInv

\* A job is run.
LEMMA QueueRunJobStep ==
  ASSUME QueueInv, NEW c \in Callers, NEW i \in Task, RunJob(c, i)
  PROVE  QueueInv'
<1> USE DEF runtimeVars
<1> DEFINE k == index[c][i]
<1>1. slot[c][i] = "job" /\ QueueCallerInv(c)
  BY DEF RunJob, QueueInv
<1>2. pc[c] = "queue" /\ QueueAtWork(c)
  BY <1>1 DEF QueueCallerInv, AllOf
<1>3. k \in Job /\ ran[c][k] = 0 /\ QueueTaken(c, k)
  <2>1. QueueTaken(c, k) /\ ran[c][k] = 0
    BY <1>1, <1>2 DEF QueueAtWork
  <2>2. k \in Nat /\ jobs[c] \in 0 .. MaxJobs
    BY DEF QueueInv, QueueTyping
  <2> QED BY <2>1, <2>2, QueueFacts DEF QueueTaken
<1>4. QueueTyping'
  BY <1>3 DEF RunJob, QueueInv, QueueTyping
<1>5. ASSUME NEW d \in Callers, d # c PROVE QueueCallerInv(d)'
  <2>1. QueueCallerInv(d)
    BY DEF QueueInv
  <2> QED BY <1>5, <2>1, QueueFrame DEF RunJob, QueueInv, QueueTyping
<1>6. QueueCallerInv(c)'
  <2>1. /\ \A h \in Task : slot'[c][h] = IF h = i THEN "claim" ELSE slot[c][h]
        /\ \A h \in Task : h # i => index'[c][h] = index[c][h]
        /\ \A j \in Job : ran'[c][j] = IF j = k THEN 1 ELSE ran[c][j]
        /\ call' = call /\ size' = size /\ jobs' = jobs /\ next' = next /\ exec' = exec
        /\ pc' = pc
    BY <1>3 DEF RunJob, QueueInv, QueueTyping
  <2>2. \A j : QueueTaken(c, j)' <=> QueueTaken(c, j)
    BY <2>1 DEF QueueTaken
  <2>3. QueueAtWork(c)'
    <3>1. /\ call'[c] = "open" /\ size'[c] >= 2
          /\ \A h \in Task : slot'[c][h] = "none" <=> exec'[c][h] = 0
          /\ (\A h \in Task : slot'[c][h] = "none") => next'[c] = 0
          /\ \A h \in Task : slot'[c][h] = "done" => next'[c] >= jobs'[c]
      BY <1>1, <1>2, <2>1 DEF QueueAtWork
    <3>2. ASSUME NEW h \in Task, slot'[c][h] = "job"
          PROVE  /\ h # i /\ index'[c][h] = index[c][h] /\ slot[c][h] = "job"
                 /\ index[c][h] # k /\ index[c][h] \in Job
      <4>1. h # i /\ slot[c][h] = "job" /\ index'[c][h] = index[c][h]
        BY <2>1, <3>2
      <4>2. index[c][h] # k /\ QueueTaken(c, index[c][h])
        BY <1>1, <1>2, <4>1 DEF QueueAtWork
      <4>3. index[c][h] \in Nat /\ jobs[c] \in 0 .. MaxJobs
        BY DEF QueueInv, QueueTyping
      <4> QED BY <4>1, <4>2, <4>3, QueueFacts DEF QueueTaken
    <3>3. \A h \in Task : slot'[c][h] = "job" =>
            index'[c][h] < next'[c] /\ index'[c][h] < jobs'[c]
      BY <1>2, <2>1, <3>2 DEF QueueAtWork, QueueTaken
    <3>4. \A g, h \in Task :
            slot'[c][g] = "job" /\ slot'[c][h] = "job" /\ index'[c][g] = index'[c][h] => g = h
      BY <1>2, <3>2 DEF QueueAtWork
    <3>5. \A h \in Task : slot'[c][h] = "job" => ran'[c][index'[c][h]] = 0
      BY <1>2, <2>1, <3>2 DEF QueueAtWork
    <3>6. ASSUME NEW j \in Job
          PROVE  IF QueueTaken(c, j)'
                 THEN ran'[c][j] = 1 \/ (ran'[c][j] = 0 /\ \E h \in Task : QueueHasJob(c, h, j)')
                 ELSE ran'[c][j] = 0
      <4>1. CASE j = k
        BY <1>3, <2>1, <2>2, <4>1
      <4>2. CASE j # k
        <5>1. \A h \in Task : QueueHasJob(c, h, j) => QueueHasJob(c, h, j)'
          BY <2>1, <4>2 DEF QueueHasJob
        <5> QED BY <1>2, <2>1, <2>2, <4>2, <5>1 DEF QueueAtWork
      <4> QED BY <4>1, <4>2
    <3> QED BY <3>1, <3>3, <3>4, <3>5, <3>6 DEF QueueAtWork, QueueTaken, QueueHasJob
  <2> QED BY <1>2, <2>1, <2>3 DEF QueueCallerInv, QueueAtWork
<1> QED BY <1>4, <1>5, <1>6 DEF QueueInv

\* The runtime has run all tasks.
LEMMA QueueAcceptedStep ==
  ASSUME QueueInv, NEW c \in Callers, Accepted(c)
  PROVE  QueueInv'
<1>1. QueueTyping'
  BY QueueRuntimeTypes DEF Accepted, Goto, QueueInv, QueueTyping, Runtime!Accept, AllOf
<1>2. ASSUME NEW d \in Callers, d # c PROVE QueueCallerInv(d)'
  <2>1. QueueCallerInv(d)
    BY DEF QueueInv
  <2> QED BY <1>2, <2>1, QueueFrame
     DEF Accepted, Goto, QueueInv, QueueTyping, Runtime!Accept
<1>3. QueueCallerInv(c)'
  <2>1. pc[c] = "queue" /\ QueueAtWork(c) /\ exec[c] = Runtime!WrittenOnce(size[c])
    BY DEF Accepted, Goto, QueueInv, QueueCallerInv, Runtime!Accept
  <2>2. exec[c][0] = 1
    <3>1. exec[c] = [i \in Task |-> IF i < size[c] THEN 1 ELSE 0]
      BY <2>1, QueueRuntimeTypes
    <3>2. 0 < size[c]
      BY <2>1 DEF QueueAtWork, QueueInv, QueueTyping
    <3> QED BY <3>1, <3>2, QueueFacts
  <2>3. slot[c][0] = "done"
    BY <2>1, <2>2, QueueFacts DEF QueueAtWork, Accepted
  <2>4. next[c] >= jobs[c] /\ next[c] \in Nat /\ jobs[c] \in 0 .. MaxJobs
    BY <2>1, <2>3, QueueFacts DEF QueueAtWork, QueueInv, QueueTyping
  <2>5. ASSUME NEW j \in Job PROVE ran[c][j] = IF j < jobs[c] THEN 1 ELSE 0
    <3>1. ~ \E i \in Task : QueueHasJob(c, i, j)
      BY DEF Accepted, QueueHasJob
    <3>2. QueueTaken(c, j) <=> j < jobs[c]
      BY <2>4, QueueFacts DEF QueueTaken
    <3> QED BY <2>1, <3>1, <3>2 DEF QueueAtWork
  <2>6. ran[c] = RanOnce(jobs[c])
    BY <2>5 DEF RanOnce, QueueInv, QueueTyping
  <2>7. /\ pc'[c] = "true" /\ call'[c] = "accepted" /\ ran' = ran /\ jobs' = jobs
        /\ next'[c] = 0 /\ slot'[c] = AllOf(Task, "none")
    BY DEF Accepted, Goto, QueueInv, QueueTyping, Runtime!Accept
  <2> QED BY <2>6, <2>7 DEF QueueCallerInv
<1> QED BY <1>1, <1>2, <1>3 DEF QueueInv

\* The runtime has refused the call.
LEMMA QueueRefusedStep ==
  ASSUME QueueInv, NEW c \in Callers, Refused(c)
  PROVE  QueueInv'
<1>1. QueueTyping'
  BY QueueRuntimeTypes DEF Refused, Goto, QueueInv, QueueTyping, Runtime!Refuse
<1>2. ASSUME NEW d \in Callers, d # c PROVE QueueCallerInv(d)'
  <2>1. QueueCallerInv(d)
    BY DEF QueueInv
  <2> QED BY <1>2, <2>1, QueueFrame
     DEF Refused, Goto, QueueInv, QueueTyping, Runtime!Refuse
<1>3. QueueCallerInv(c)'
  <2>1. pc[c] = "queue" /\ QueueAtWork(c) /\ exec[c] = AllOf(Task, 0)
    BY QueueRuntimeTypes DEF Refused, Goto, QueueInv, QueueCallerInv, Runtime!Refuse
  <2>2. \A i \in Task : slot[c][i] = "none"
    BY <2>1 DEF QueueAtWork, AllOf
  <2>3. next[c] = 0
    BY <2>1, <2>2 DEF QueueAtWork
  <2>4. slot[c] = AllOf(Task, "none")
    BY <2>2 DEF AllOf, QueueInv, QueueTyping
  <2>5. ASSUME NEW j \in Job PROVE ran[c][j] = 0
    <3>1. ~QueueTaken(c, j)
      BY <2>3, QueueFacts DEF QueueTaken
    <3> QED BY <2>1, <3>1 DEF QueueAtWork
  <2>6. ran[c] = AllOf(Job, 0)
    BY <2>5 DEF AllOf, QueueInv, QueueTyping
  <2>7. /\ pc'[c] = "false" /\ call'[c] = "refused" /\ ran' = ran /\ next' = next
        /\ slot' = slot
    BY DEF Refused, Goto, QueueInv, QueueTyping, Runtime!Refuse
  <2> QED BY <2>3, <2>4, <2>6, <2>7 DEF QueueCallerInv
<1> QED BY <1>1, <1>2, <1>3 DEF QueueInv

\* The caller runs the jobs itself.
LEMMA QueueSerialFallbackStep ==
  ASSUME QueueInv, NEW c \in Callers, SerialFallback(c)
  PROVE  QueueInv'
<1> USE DEF runtimeVars
<1>1. QueueTyping'
  <2>1. ran' \in [Callers -> [Job -> Nat]]
    BY DEF SerialFallback, QueueInv, QueueTyping
  <2>2. /\ call' \in [Callers -> Runtime!Stages] /\ size' \in [Callers -> 0 .. MaxTasks]
        /\ exec' \in [Callers -> [Task -> 0 .. 1]]
    <3>1. Runtime!WrittenOnce(size[c]) \in [Task -> 0 .. 1]
      BY QueueRuntimeTypes
    <3>2. CASE call[c] = "refused"
      <4>1. /\ call' = [call EXCEPT ![c] = "settled"] /\ size' = size
            /\ exec' = [exec EXCEPT ![c] = Runtime!WrittenOnce(size[c])]
        BY <3>2 DEF SerialFallback, Runtime!Fallback
      <4> QED
        BY <3>1, <4>1, QueueRuntimeTypes DEF QueueInv, QueueTyping
    <3>3. CASE call[c] # "refused"
      BY <3>3 DEF SerialFallback, QueueInv, QueueTyping
    <3> QED BY <3>2, <3>3
  <2> QED BY <2>1, <2>2 DEF SerialFallback, Goto, QueueInv, QueueTyping
<1>2. ASSUME NEW d \in Callers, d # c PROVE QueueCallerInv(d)'
  <2>1. QueueCallerInv(d)
    BY DEF QueueInv
  <2> QED BY <1>2, <2>1, QueueFrame
     DEF SerialFallback, Goto, QueueInv, QueueTyping, Runtime!Fallback
<1>3. QueueCallerInv(c)'
  <2>1. pc[c] = "false" /\ QueueCallerInv(c)
    BY DEF SerialFallback, Goto, QueueInv
  <2>2. ran'[c] = RanOnce(jobs[c])
    BY <2>1 DEF SerialFallback, QueueInv, QueueTyping, QueueCallerInv, AllOf, RanOnce
  <2>3. pc'[c] = "true" /\ jobs' = jobs /\ next' = next /\ slot' = slot
    BY DEF SerialFallback, Goto, QueueInv, QueueTyping
  <2>4. CASE call[c] = "refused"
    <3>1. call'[c] = "settled"
      BY <2>4 DEF SerialFallback, QueueInv, QueueTyping, Runtime!Fallback
    <3> QED BY <2>1, <2>2, <2>3, <3>1 DEF QueueCallerInv
  <2>5. CASE call[c] # "refused"
    <3>1. call'[c] = "idle" /\ exec' = exec
      BY <2>1, <2>5 DEF SerialFallback, QueueCallerInv
    <3> QED BY <2>1, <2>2, <2>3, <2>5, <3>1 DEF QueueCallerInv
  <2> QED BY <2>4, <2>5
<1> QED BY <1>1, <1>2, <1>3 DEF QueueInv

\* The routine returns.
LEMMA QueueReturnStep ==
  ASSUME QueueInv, NEW c \in Callers, ReturnFromQueue(c)
  PROVE  QueueInv'
<1> USE DEF runtimeVars
<1>1. QueueTyping'
  <2>1. /\ call' \in [Callers -> Runtime!Stages] /\ size' \in [Callers -> 0 .. MaxTasks]
        /\ exec' \in [Callers -> [Task -> 0 .. 1]]
    <3>1. AllOf(Task, 0) \in [Task -> 0 .. 1] /\ 0 \in 0 .. MaxTasks
      BY QueueAssumptions DEF AllOf
    <3>2. CASE call[c] = "idle"
      BY <3>2 DEF ReturnFromQueue, QueueInv, QueueTyping
    <3>3. CASE call[c] # "idle"
      <4>1. /\ call' = [call EXCEPT ![c] = "idle"]
            /\ size' = [size EXCEPT ![c] = 0]
            /\ exec' = [exec EXCEPT ![c] = AllOf(Task, 0)]
        BY <3>3, QueueRuntimeTypes DEF ReturnFromQueue, Runtime!Finish
      <4>2. call' \in [Callers -> Runtime!Stages]
        BY <4>1, QueueRuntimeTypes DEF QueueInv, QueueTyping
      <4>3. size' \in [Callers -> 0 .. MaxTasks]
        BY <3>1, <4>1 DEF QueueInv, QueueTyping
      <4>4. exec' \in [Callers -> [Task -> 0 .. 1]]
        BY <3>1, <4>1 DEF QueueInv, QueueTyping
      <4> QED BY <4>2, <4>3, <4>4
    <3> QED BY <3>2, <3>3
  <2>2. ran' \in [Callers -> [Job -> Nat]]
    BY DEF ReturnFromQueue, QueueInv, QueueTyping, AllOf
  <2>3. jobs' \in [Callers -> 0 .. MaxJobs]
    BY QueueAssumptions DEF ReturnFromQueue, QueueInv, QueueTyping
  <2> QED BY <2>1, <2>2, <2>3 DEF ReturnFromQueue, Goto, QueueInv, QueueTyping
<1>2. ASSUME NEW d \in Callers, d # c PROVE QueueCallerInv(d)'
  <2>1. QueueCallerInv(d)
    BY DEF QueueInv
  <2> QED BY <1>2, <2>1, QueueFrame
     DEF ReturnFromQueue, Goto, QueueInv, QueueTyping, Runtime!Finish
<1>3. QueueCallerInv(c)'
  <2>1. pc[c] = "true" /\ QueueCallerInv(c)
    BY DEF ReturnFromQueue, Goto, QueueInv
  <2>2. /\ pc'[c] = "idle" /\ ran'[c] = AllOf(Job, 0) /\ next' = next /\ slot' = slot
        /\ call'[c] = "idle" /\ exec'[c] = AllOf(Task, 0)
    BY <2>1, QueueRuntimeTypes
       DEF ReturnFromQueue, Goto, QueueInv, QueueTyping, Runtime!Finish, QueueCallerInv
  <2> QED BY <2>1, <2>2 DEF QueueCallerInv
<1> QED BY <1>1, <1>2, <1>3 DEF QueueInv

\* The invariant is inductive: any number of callers, tasks and jobs, and any
\* answer of the runtime (thread_pool.zig:295-318).
THEOREM QueueInvariance ==
  QueueSpec => []QueueInv
<1>1. ASSUME QueueInv, [QueueNext]_(queueVars) PROVE QueueInv'
  <2>1. ASSUME NEW c \in Callers, NEW count \in 0 .. MaxJobs, NEW limit \in Limits,
               NEW helpers \in 0 .. MaxTasks - 1, runQueued(c, count, limit, helpers)
        PROVE  QueueInv'
    BY <1>1, <2>1, RunQueuedStep
  <2>2. ASSUME NEW c \in Callers, NEW i \in Task, StartTask(c, i) PROVE QueueInv'
    BY <1>1, <2>2, QueueStartTaskStep
  <2>3. ASSUME NEW c \in Callers, NEW i \in Task, Claim(c, i) PROVE QueueInv'
    BY <1>1, <2>3, QueueClaimStep
  <2>4. ASSUME NEW c \in Callers, NEW i \in Task, RunJob(c, i) PROVE QueueInv'
    BY <1>1, <2>4, QueueRunJobStep
  <2>5. ASSUME NEW c \in Callers, Accepted(c) PROVE QueueInv'
    BY <1>1, <2>5, QueueAcceptedStep
  <2>6. ASSUME NEW c \in Callers, Refused(c) PROVE QueueInv'
    BY <1>1, <2>6, QueueRefusedStep
  <2>7. ASSUME NEW c \in Callers, SerialFallback(c) PROVE QueueInv'
    BY <1>1, <2>7, QueueSerialFallbackStep
  <2>8. ASSUME NEW c \in Callers, ReturnFromQueue(c) PROVE QueueInv'
    BY <1>1, <2>8, QueueReturnStep
  <2>9. CASE UNCHANGED queueVars
    BY <1>1, <2>9
       DEF queueVars, runtimeVars, QueueInv, QueueTyping, QueueCallerInv, QueueAtWork,
           QueueTaken, QueueHasJob
  <2> QED BY <1>1, <2>1, <2>2, <2>3, <2>4, <2>5, <2>6, <2>7, <2>8, <2>9 DEF QueueNext
<1> QED BY <1>1, QueueInitInv, PTL DEF QueueSpec

\* "Queued jobs execute exactly once and refusal leaves output untouched":
\* every job has run exactly once when the routine goes on, none when it is
\* told false.
THEOREM QueuedJobsOnce ==
  QueueSpec => []JobsOnce
<1>1. QueueInv => JobsOnce
  BY DEF QueueInv, QueueCallerInv, JobsOnce
<1> QED BY <1>1, QueueInvariance, PTL

\* A job is in the hands of one task, which owns its scratch area meanwhile.
THEOREM QueuedJobsApart ==
  QueueSpec => []JobsApart
<1>1. QueueInv => JobsApart
  <2> SUFFICES ASSUME QueueInv, NEW c \in Callers, NEW i \in Task, slot[c][i] = "job"
               PROVE  /\ ran[c][index[c][i]] = 0
                      /\ \A h \in Task \ {i} :
                           slot[c][h] = "job" => index[c][h] # index[c][i]
    BY DEF JobsApart
  <2>1. QueueAtWork(c)
    BY DEF QueueInv, QueueCallerInv, AllOf
  <2> QED BY <2>1 DEF QueueAtWork
<1> QED BY <1>1, QueueInvariance, PTL
=============================================================================
