----------------------------- MODULE VectorCheck -----------------------------
(***************************************************************************)
(* The correctness check a Level 1 routine must pass before it is timed    *)
(* (bench/tools/run_level1_report.py, check_level1_op): vectors with       *)
(* guards around them, strides of either sign, one call, then a look at    *)
(* the result, the guards, the gaps and the operands that are only read.   *)
(* Numbers are small integers, with NotANumber for a NaN.                  *)
(***************************************************************************)
EXTENDS Integers, Sequences, FiniteSets, SequencesExt

CONSTANTS Counts,           \* vector lengths (the code uses 257)
          Strides,          \* nonzero increments
          GuardElements,    \* canaries on either side of a vector
          MaxStray          \* things a wrong routine may do

NotANumber == 99
Canary     == 88

\* Routines: by what they write; only the stable ones may have a negative stride.
Operations == {"copy", "swap", "axpy", "scal", "dot", "amax"}
StableNegativeOps == {"copy", "swap", "axpy", "dot"}
Mutable == [copy |-> {"y"}, swap |-> {"x", "y"}, axpy |-> {"y"}, scal |-> {"x"},
            dot |-> {}, amax |-> {}]

VARIABLES case,         \* the routine, the count and the two strides
          phase,
          memory,       \* vector -> cell -> value, guards included
          snapshot,     \* the same before the call
          answer,       \* what the routine returned
          strays,       \* history: what a wrong routine did
          result        \* of the check

vars == <<case, phase, memory, snapshot, answer, strays, result>>

-----------------------------------------------------------------------------
Abs(v) == IF v < 0 THEN -v ELSE v

Layout(count, inc) ==
    LET span == IF count = 0 THEN 0 ELSE 1 + (count - 1) * Abs(inc)
    IN [count |-> count, inc |-> inc, magnitude |-> Abs(inc), span |-> span,
        start |-> IF count > 0 /\ inc < 0 THEN span - 1 ELSE 0]

\* The place of the i-th element, counted from 0.
Index(layout, i) ==
    IF layout.inc < 0 THEN layout.start - i * layout.magnitude
    ELSE layout.start + i * layout.magnitude

IsActive(layout, place) ==
    /\ place >= 0 /\ place < layout.span
    /\ ~(layout.inc < 0 /\ place > layout.start)
    /\ LET distance == IF layout.inc < 0 THEN layout.start - place ELSE place
       IN distance % layout.magnitude = 0 /\ distance \div layout.magnitude < layout.count

LayoutOf(name) == Layout(case.count, case.inc[name])

\* Allocation cells of a vector, from the first guard to the last.
Cells(layout) == 0 .. layout.span + 2 * GuardElements - 1

\* Every data cell gets a number of its own, gaps included; guards get the canary.
Filled(layout, seed) ==
    [cell \in Cells(layout) |->
        IF cell >= GuardElements /\ cell < GuardElements + layout.span
        THEN seed + cell ELSE Canary]

At(array, layout, i) == array[GuardElements + Index(layout, i)]
Logical(array, layout) == [i \in 1 .. layout.count |-> At(array, layout, i - 1)]

\* The cells modified_element_count counts.
ModifiedElements(before, array, layout, activeMayChange) ==
    {cell \in Cells(layout) :
        LET inData == cell >= GuardElements /\ cell < GuardElements + layout.span
        IN /\ ~(activeMayChange /\ inData /\ IsActive(layout, cell - GuardElements))
           /\ array[cell] # before[cell]}

-----------------------------------------------------------------------------
\* Arithmetic and max with a NaN: every comparison with one is false, and max keeps
\* the value it has unless a later one compares greater.
Error(a, b) == IF a = NotANumber \/ b = NotANumber THEN NotANumber ELSE Abs(a - b)
Greater(a, b) == a # NotANumber /\ b # NotANumber /\ a > b
AtMost(a, b)  == a # NotANumber /\ b # NotANumber /\ a <= b

MaxInOrder(values) ==
    IF values = << >> THEN 0
    ELSE FoldLeft(LAMBDA best, v : IF Greater(v, best) THEN v ELSE best, values[1], Tail(values))

MaxRealError(array, layout, expected) ==
    MaxInOrder([i \in DOMAIN expected |-> Error(At(array, layout, i - 1), expected[i])])

\* What the routine should leave behind and return, from its logical operands.
SumOf(values) == FoldLeft(LAMBDA a, b : a + b, 0, values)
LargestPlace(values) ==
    CHOOSE i \in DOMAIN values : /\ \A j \in DOMAIN values : values[j] <= values[i]
                                 /\ \A j \in 1 .. i - 1 : values[j] < values[i]
Expected(op, x, y) ==
    [x   |-> CASE op = "swap" -> y
               [] op = "scal" -> [i \in DOMAIN x |-> 2 * x[i]]
               [] OTHER       -> x,
     y   |-> CASE op \in {"copy", "swap"} -> x
               [] op = "axpy" -> [i \in DOMAIN x |-> 2 * x[i] + y[i]]
               [] OTHER       -> y,
     ret |-> CASE op = "dot"  -> SumOf([i \in DOMAIN x |-> x[i] * y[i]])
               [] op = "amax" -> LargestPlace(x)
               [] OTHER       -> 0]

Operands(name) == Logical(snapshot[name], LayoutOf(name))

-----------------------------------------------------------------------------
NoResult == [status |-> "none", memory |-> "not-run"]
Refused(status) == [status |-> status, memory |-> "not-run"]

Init ==
    /\ case \in [op : Operations, count : Counts, inc : [{"x", "y"} -> Strides]]
    /\ phase = "start" /\ memory = << >> /\ snapshot = << >> /\ answer = 0
    /\ strays = {} /\ result = NoResult

NegativeStride == case.inc["x"] < 0 \/ case.inc["y"] < 0

\* The policy, the library, the symbol; then the operands are filled and captured.
CheckLevel1Op ==
    /\ phase = "start"
    /\ \/ /\ NegativeStride => case.op \in StableNegativeOps
          /\ memory' = [name \in {"x", "y"} |->
                           Filled(LayoutOf(name), IF name = "x" THEN 1 ELSE 21)]
          /\ snapshot' = memory'
          /\ phase' = "call" /\ UNCHANGED result
       \/ /\ result' = Refused("missing") /\ phase' = "done"
          /\ UNCHANGED <<memory, snapshot>>
    /\ UNCHANGED <<case, answer, strays>>

\* Where BLAS puts element i: the first one lies at (1 - count) * inc if inc is negative.
BlasPlace(layout, i) ==
    (IF layout.inc < 0 THEN (1 - layout.count) * layout.inc ELSE 0) + i * layout.inc

Written(name, values) ==
    [cell \in DOMAIN memory[name] |->
        LET hit == {i \in DOMAIN values :
                       GuardElements + BlasPlace(LayoutOf(name), i - 1) = cell}
        IN IF hit = {} THEN memory[name][cell] ELSE values[CHOOSE i \in hit : TRUE]]

BlasOperand(name) ==
    [i \in 1 .. case.count |-> memory[name][GuardElements + BlasPlace(LayoutOf(name), i - 1)]]

\* The routine under test does what BLAS says ...
Routine ==
    /\ phase = "call"
    /\ LET right == Expected(case.op, BlasOperand("x"), BlasOperand("y"))
       IN /\ memory' = [name \in {"x", "y"} |->
                           IF name \in Mutable[case.op] THEN Written(name, right[name])
                           ELSE memory[name]]
          /\ answer' = right.ret
    /\ phase' = "look"
    /\ UNCHANGED <<case, snapshot, strays, result>>

\* ... and possibly something else, anywhere in the two allocations.
Stray ==
    /\ phase = "look" /\ Cardinality(strays) < MaxStray
    /\ \/ \E name \in {"x", "y"}, value \in {0, NotANumber} :
          \E cell \in DOMAIN memory[name] :
            /\ memory' = [memory EXCEPT ![name][cell] = value]
            /\ strays' = strays \cup {<<name, cell>>}
            /\ UNCHANGED answer
       \/ \E value \in {0, NotANumber} :
            /\ answer' = value /\ strays' = strays \cup {<<"ret", 0>>} /\ UNCHANGED memory
    /\ UNCHANGED <<case, phase, snapshot, result>>

\* The error the check of each routine looks at.
CheckedError ==
    LET right   == Expected(case.op, Operands("x"), Operands("y"))
        x       == MaxRealError(memory["x"], LayoutOf("x"), right.x)
        y       == MaxRealError(memory["y"], LayoutOf("y"), right.y)
    IN CASE case.op \in {"copy", "axpy"} -> y
         [] case.op = "scal"            -> x
         [] case.op = "swap"            -> MaxInOrder(<<x, y>>)
         [] case.op \in {"dot", "amax"} -> Error(answer, right.ret)

\* Storage first, then the error.
FinishLevel1Check(error) ==
    LET modified == UNION {ModifiedElements(snapshot[name], memory[name], LayoutOf(name),
                                            name \in Mutable[case.op]) : name \in {"x", "y"}}
    IN IF modified # {}
       THEN [status |-> "correctness_failed", memory |-> "failed"]
       ELSE [status |-> IF AtMost(error, 0) THEN "sampled-ok" ELSE "correctness_failed",
             memory |-> "guarded-ok"]

Look ==
    /\ phase = "look"
    /\ result' = FinishLevel1Check(CheckedError)
    /\ phase' = "done"
    /\ UNCHANGED <<case, memory, snapshot, answer, strays>>

Ended == phase = "done" /\ UNCHANGED vars

Next == CheckLevel1Op \/ Routine \/ Stray \/ Look \/ Ended

Spec == Init /\ [][Next]_vars

-----------------------------------------------------------------------------
TypeOK ==
    /\ phase \in {"start", "call", "look", "done"}
    /\ result.status \in {"none", "missing", "sampled-ok", "correctness_failed"}
    /\ result.memory \in {"not-run", "guarded-ok", "failed"}
    /\ phase \in {"call", "look"} => \A name \in {"x", "y"} :
           DOMAIN memory[name] = Cells(LayoutOf(name)) /\ DOMAIN snapshot[name] = DOMAIN memory[name]
    /\ Cardinality(strays) <= MaxStray

\* The cells BLAS lets the routine write.
Writable(name) ==
    IF name \in Mutable[case.op]
    THEN {GuardElements + BlasPlace(LayoutOf(name), i) : i \in 0 .. case.count - 1} ELSE {}

\* "guarded-ok" is said only of a routine that left every guard, every gap and every
\* operand it may only read as it was.  (modified_element_count, finish_level1_check.)
GuardedMeansUntouched ==
    result.memory = "guarded-ok" =>
        \A name \in {"x", "y"} : \A cell \in DOMAIN memory[name] \ Writable(name) :
            memory[name][cell] = snapshot[name][cell]

\* No false alarm: a routine that wrote only what and where BLAS says passes, for every
\* pair of strides.  (VectorLayout, check_level1_op.)
RightPasses ==
    (phase = "done" /\ result.status # "missing" /\ strays = {}) =>
        result = [status |-> "sampled-ok", memory |-> "guarded-ok"]

Right == Expected(case.op, [i \in 1 .. case.count |->
                               snapshot["x"][GuardElements + BlasPlace(LayoutOf("x"), i - 1)]],
                           [i \in 1 .. case.count |->
                               snapshot["y"][GuardElements + BlasPlace(LayoutOf("y"), i - 1)]])
LeftBehind(name, i) == memory[name][GuardElements + BlasPlace(LayoutOf(name), i - 1)]

\* A routine that leaves no NaN behind and passes has left and returned exactly the right
\* numbers.  (max_real_error, finish_level1_check.)
OkNumbersAreRight ==
    LET left == {<<name, i>> : name \in {"x", "y"}, i \in 1 .. case.count}
    IN (result.status = "sampled-ok" /\ \A p \in left : LeftBehind(p[1], p[2]) # NotANumber) =>
        /\ answer = Right.ret \/ case.op \notin {"dot", "amax"}
        /\ \A p \in left : LeftBehind(p[1], p[2]) = Right[p[1]][p[2]]

\* The report's metadata says of the check that it is made "with logical-stride references":
\* a routine that passes has left the reference values.  (run_level1_report.py:1866-1867.)
OkValuesAreRight ==
    result.status = "sampled-ok" =>
        \A name \in {"x", "y"}, i \in 1 .. case.count : LeftBehind(name, i) = Right[name][i]
=============================================================================
