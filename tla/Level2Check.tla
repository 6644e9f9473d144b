----------------------------- MODULE Level2Check -----------------------------
(***************************************************************************)
(* The correctness check a Level 2 routine must pass before it is timed    *)
(* (bench/tools/run_level2_report.py, run_worker): operands are filled, a  *)
(* reference is computed from the same dense, packed or banded storage,    *)
(* the routine is called once and every element of its result is compared. *)
(* A number is a pair of small integers, real and imaginary part.          *)
(***************************************************************************)
EXTENDS Integers, Sequences, FiniteSets, SequencesExt

CONSTANTS Sizes,            \* matrix orders
          Bandwidths,       \* for compact bands
          MaxStray          \* results a wrong routine gets wrong

VARIABLES case,         \* one of Cases
          phase,
          operands,     \* matrix, x, y, alpha, beta, initial result
          expected,     \* the reference
          actual,       \* what the routine leaves
          strays,       \* history: results it got wrong
          result        \* of the check

vars == <<case, phase, operands, expected, actual, strays, result>>

-----------------------------------------------------------------------------
\* Numbers.
Number(re, im) == [re |-> re, im |-> im]
Zero == Number(0, 0)
One  == Number(1, 0)
NotANumber == Number(9999, 9999)
Plus(a, b)  == Number(a.re + b.re, a.im + b.im)
Times(a, b) == Number(a.re * b.re - a.im * b.im, a.re * b.im + a.im * b.re)
Conj(a) == Number(a.re, -a.im)
RealPart(a) == Number(a.re, 0)
ConjIf(yes, a) == IF yes THEN Conj(a) ELSE a

Total(n, term(_)) ==
    LET sum[i \in 0 .. n] == IF i = 0 THEN Zero ELSE Plus(sum[i - 1], term(i - 1)) IN sum[n]

\* scalar_value: a real routine has no imaginary parts.
Fill(count, seed, complex) ==
    [p \in 0 .. count - 1 |-> Number(seed + p, IF complex THEN seed - 2 * p ELSE 0)]

-----------------------------------------------------------------------------
\* The cases of each family.  op says what is computed, storage how the matrix lies.
Transposes(complex) == IF complex THEN {"N", "T", "C"} ELSE {"N", "T"}

CaseSet(op, storage, complex, uplo, trans, diag, k) ==
    [op : op, storage : storage, complex : {complex}, uplo : uplo, trans : trans,
     diag : diag, k : k, m : Sizes, n : Sizes]

DenseCases(complex) ==
    CaseSet({"gemv"}, {"dense"}, complex, {"U"}, Transposes(complex), {"N"}, {0})
    \cup CaseSet({"mv"}, {"dense"}, complex, {"U"}, {"N"}, {"N"}, {0})
    \cup CaseSet({"ger"}, {"dense"}, complex, {"U"}, Transposes(complex) \ {"T"}, {"N"}, {0})
TriangularCases(complex) ==
    CaseSet({"trmv", "trsv"}, {"dense"}, complex, {"U", "L"}, Transposes(complex), {"N", "U"}, {0})
RankUpdateCases(complex) ==
    CaseSet({"rank1", "rank2"}, {"dense"}, complex, {"U", "L"}, {"N"}, {"N"}, {0})
PackedStructuredMvCases(complex) ==
    CaseSet({"mv"}, {"packed"}, complex, {"U", "L"}, {"N"}, {"N"}, {0})
PackedTriangularCases(complex) ==
    CaseSet({"trmv", "trsv"}, {"packed"}, complex, {"U", "L"}, Transposes(complex), {"N", "U"}, {0})
PackedRankCases(complex) ==
    CaseSet({"rank1", "rank2"}, {"packed"}, complex, {"U", "L"}, {"N"}, {"N"}, {0})
BandedCases(complex) ==
    CaseSet({"gemv"}, {"band"}, complex, {"U"}, Transposes(complex), {"N"}, Bandwidths)
    \cup CaseSet({"mv"}, {"band"}, complex, {"U", "L"}, {"N"}, {"N"}, Bandwidths)
TriangularBandedCases(complex) ==
    CaseSet({"trmv", "trsv"}, {"band"}, complex, {"U", "L"}, Transposes(complex), {"N", "U"},
            Bandwidths)

\* Only the legacy gemv and ger take rectangles; a bandwidth is less than the order.
Rectangular(c) == c.op \in {"gemv", "ger"} /\ c.storage = "dense"
Cases == {c \in UNION {DenseCases(z) \cup TriangularCases(z) \cup RankUpdateCases(z)
                       \cup PackedStructuredMvCases(z) \cup PackedTriangularCases(z)
                       \cup PackedRankCases(z) \cup BandedCases(z) \cup TriangularBandedCases(z)
                       : z \in BOOLEAN} : c.k < c.n /\ (c.m = c.n \/ Rectangular(c))}

\* The leading dimension, and the length of the storage.
Lda(c) == IF c.storage # "band" THEN c.m
          ELSE IF c.op = "gemv" THEN 2 * c.k + 1
          ELSE c.k + 1
StorageLength(c) == IF c.storage = "packed" THEN (c.n * (c.n + 1)) \div 2 ELSE Lda(c) * c.n

-----------------------------------------------------------------------------
\* How the reference finds an element, rows and columns counted from 0.
bugPackedLowerByRows(n, uplo, row, col) ==
    IF uplo = "U" THEN (col * (col + 1)) \div 2 + row ELSE (row * (row + 1)) \div 2 + col
PackedIndex(n, uplo, row, col) ==
    IF uplo = "U" THEN (col * (col + 1)) \div 2 + row
    ELSE col * n - (col * (col - 1)) \div 2 + row - col

Stored(c, row, col) ==
    CASE c.storage = "dense"  -> row + col * Lda(c)
      [] c.storage = "packed" -> PackedIndex(c.n, c.uplo, row, col)
      [] c.storage = "band"   ->
            (IF c.op = "gemv" \/ c.uplo = "U" THEN c.k + row - col ELSE row - col) + col * Lda(c)

OutsideBand(c, row, col) == c.storage = "band" /\ (row - col > c.k \/ col - row > c.k)

\* packed_structured_value, structured_band_value and the symmetric references.
StructuredValue(c, matrix, row, col) ==
    LET direct == IF c.uplo = "U" THEN row <= col ELSE row >= col
        value  == IF direct THEN matrix[Stored(c, row, col)] ELSE matrix[Stored(c, col, row)]
    IN IF OutsideBand(c, row, col) THEN Zero
       ELSE IF c.complex /\ row = col THEN RealPart(value)
       ELSE IF c.complex /\ ~direct THEN Conj(value)
       ELSE value

\* triangular_packed_value, triangular_band_value and the dense triangular references.
TriangularValue(c, matrix, row, col) ==
    IF OutsideBand(c, row, col) \/ (c.uplo = "U" /\ row > col) \/ (c.uplo = "L" /\ row < col)
      THEN Zero
    ELSE IF row = col /\ c.diag = "U" THEN One
    ELSE matrix[Stored(c, row, col)]

GeneralValue(c, matrix, row, col) ==
    IF OutsideBand(c, row, col) THEN Zero ELSE matrix[Stored(c, row, col)]

InTriangle(c) == {p \in (0 .. c.n - 1) \X (0 .. c.n - 1) :
                     IF c.uplo = "U" THEN p[1] <= p[2] ELSE p[1] >= p[2]}

\* Rows and columns swapped, and conjugated, as trans says.
Transposed(c, value(_, _), out, in) ==
    ConjIf(c.trans = "C", IF c.trans = "N" THEN value(out, in) ELSE value(in, out))

\* Lengths of the result and of the operand of a product.
OutLength(c) == IF c.trans = "N" THEN c.m ELSE c.n
InLength(c)  == IF c.trans = "N" THEN c.n ELSE c.m

\* alpha * op(A) * x + beta * y
MvExpected(c, value(_, _), x, y0, alpha, beta) ==
    [i \in 0 .. OutLength(c) - 1 |->
        Plus(Times(alpha, Total(InLength(c), LAMBDA j : Times(Transposed(c, value, i, j), x[j]))),
             Times(beta, y0[i]))]
GeneralMvExpected(c, matrix, x, y0, alpha, beta) ==
    MvExpected(c, LAMBDA row, col : GeneralValue(c, matrix, row, col), x, y0, alpha, beta)
StructuredMvExpected(c, matrix, x, y0, alpha, beta) ==
    MvExpected(c, LAMBDA row, col : StructuredValue(c, matrix, row, col), x, y0, alpha, beta)

\* op(A) * x for a triangular A
TriangularMvExpected(c, matrix, x) ==
    LET value(row, col) == TriangularValue(c, matrix, row, col)
    IN [i \in 0 .. c.n - 1 |->
           Total(c.n, LAMBDA j : Times(Transposed(c, value, i, j), x[j]))]

\* The update of one element, and the array after all of them.
RankUpdate(c, x, y, alpha, row, col) ==
    IF c.op = "rank1" THEN Times(alpha, Times(x[row], ConjIf(c.complex, x[col])))
    ELSE Plus(Times(alpha, Times(x[row], ConjIf(c.complex, y[col]))),
              Times(ConjIf(c.complex, alpha), Times(y[row], ConjIf(c.complex, x[col]))))

RankExpected(c, matrix, x, y, alpha) ==
    [q \in DOMAIN matrix |->
        LET hit == {p \in InTriangle(c) : Stored(c, p[1], p[2]) = q}
        IN IF hit = {} THEN matrix[q]
           ELSE LET p     == CHOOSE p \in hit : TRUE
                    value == Plus(matrix[q], RankUpdate(c, x, y, alpha, p[1], p[2]))
                IN IF c.complex /\ p[1] = p[2] THEN RealPart(value) ELSE value]

GerExpected(c, matrix, x, y, alpha) ==
    [q \in DOMAIN matrix |->
        Plus(matrix[q], Times(Times(alpha, x[q % Lda(c)]),
                              ConjIf(c.trans = "C", y[q \div Lda(c)])))]

-----------------------------------------------------------------------------
\* Matrices of the triangular cases.  In the dense one the triangle that must not be read
\* holds numbers of its own; the packed and the banded one are filled through their index.
SafeTriangularMatrix(c) ==
    LET seen(row, col) == IF c.uplo = "U" THEN row < col ELSE row > col
    IN [q \in 0 .. c.n * c.n - 1 |->
           CASE q % c.n = q \div c.n         -> Number(2, IF c.complex THEN 1 ELSE 0)
             [] seen(q % c.n, q \div c.n)    -> Number(1 + q, IF c.complex THEN 1 - q ELSE 0)
             [] OTHER                        -> Number(20 + q, IF c.complex THEN 15 ELSE 0)]

ThroughIndex(c, places, first) ==
    [q \in DOMAIN first |->
        LET hit == {p \in places : Stored(c, p[1], p[2]) = q}
        IN IF hit = {} THEN first[q]
           ELSE LET p == CHOOSE p \in hit : TRUE
                IN Number(1 + p[1] + 2 * p[2], IF c.complex THEN p[2] - 2 * p[1] ELSE 0)]

SafePackedTriangularMatrix(c) ==
    ThroughIndex(c, InTriangle(c), [q \in 0 .. StorageLength(c) - 1 |-> Zero])

SafeTriangularBandMatrix(c) ==
    ThroughIndex(c, {p \in InTriangle(c) : ~OutsideBand(c, p[1], p[2])},
                 Fill(StorageLength(c), 30, c.complex))

-----------------------------------------------------------------------------
\* What each family prepares: the operands, what the result array holds before the call
\* and what it must hold after it.
Prepared(matrix, x, y, alpha, beta, initial, reference) ==
    [matrix |-> matrix, x |-> x, y |-> y, alpha |-> alpha, beta |-> beta,
     initial |-> initial, reference |-> reference]

MvAlpha(c) == Number(2, IF c.complex THEN 1 ELSE 0)
MvBeta(c)  == Number(1, IF c.complex THEN -1 ELSE 0)

\* A product into y.
Product(c, matrix, answer(_, _, _, _)) ==
    LET x  == Fill(InLength(c), 2, c.complex)
        y0 == Fill(OutLength(c), 3, c.complex)
    IN Prepared(matrix, x, y0, MvAlpha(c), MvBeta(c), y0, answer(x, y0, MvAlpha(c), MvBeta(c)))

\* run_worker's legacy routines.
LegacyGemv(c) ==
    LET matrix == Fill(StorageLength(c), 1, c.complex)
    IN Product(c, matrix, LAMBDA x, y, a, b : GeneralMvExpected(c, matrix, x, y, a, b))
LegacySymv(c) ==
    LET matrix == Fill(StorageLength(c), 1, c.complex)
    IN Product(c, matrix, LAMBDA x, y, a, b : StructuredMvExpected(c, matrix, x, y, a, b))
LegacyGer(c) ==
    LET matrix0 == Fill(StorageLength(c), 1, c.complex)
        x == Fill(c.m, 2, c.complex)
        y == Fill(c.n, 3, c.complex)
    IN Prepared(matrix0, x, y, MvAlpha(c), Zero, matrix0,
                GerExpected(c, matrix0, x, y, MvAlpha(c)))

\* A solve starts from the product of a solution it knows, and expects that solution back.
ProductOrSolve(c, matrix) ==
    LET solution == Fill(c.n, 2, c.complex)
        product  == TriangularMvExpected(c, matrix, solution)
    IN IF c.op = "trsv" THEN Prepared(matrix, solution, << >>, Zero, Zero, product, solution)
       ELSE Prepared(matrix, solution, << >>, Zero, Zero, solution, product)

RunTriangularCases(c)       == ProductOrSolve(c, SafeTriangularMatrix(c))
RunPackedTriangularCases(c) == ProductOrSolve(c, SafePackedTriangularMatrix(c))
RunTriangularBandedCases(c) == ProductOrSolve(c, SafeTriangularBandMatrix(c))

RunPackedStructuredMvCases(c) ==
    LET matrix == Fill(StorageLength(c), 1, c.complex)
    IN Product(c, matrix, LAMBDA x, y, a, b : StructuredMvExpected(c, matrix, x, y, a, b))

RunBandedCases(c) ==
    LET matrix == Fill(StorageLength(c), 1, c.complex)
    IN Product(c, matrix,
               LAMBDA x, y, a, b : IF c.op = "gemv" THEN GeneralMvExpected(c, matrix, x, y, a, b)
                                   ELSE StructuredMvExpected(c, matrix, x, y, a, b))

\* her and hpr take a real alpha; the second vector exists for rank 2 only.
RankOperands(c) ==
    LET matrix0 == Fill(StorageLength(c), 1, c.complex)
        x == Fill(c.n, 2, c.complex)
        y == IF c.op = "rank2" THEN Fill(c.n, 3, c.complex) ELSE << >>
        alpha == Number(2, IF c.complex /\ c.op = "rank2" THEN -1 ELSE 0)
    IN Prepared(matrix0, x, y, alpha, Zero, matrix0, RankExpected(c, matrix0, x, y, alpha))
RunRankUpdateCases(c) == RankOperands(c)
RunPackedRankCases(c) == RankOperands(c)

PreparedOperands(c) ==
    CASE c.op \in {"trmv", "trsv"} /\ c.storage = "dense"  -> RunTriangularCases(c)
      [] c.op \in {"trmv", "trsv"} /\ c.storage = "packed" -> RunPackedTriangularCases(c)
      [] c.op \in {"trmv", "trsv"} /\ c.storage = "band"   -> RunTriangularBandedCases(c)
      [] c.op \in {"rank1", "rank2"} /\ c.storage = "dense"  -> RunRankUpdateCases(c)
      [] c.op \in {"rank1", "rank2"} /\ c.storage = "packed" -> RunPackedRankCases(c)
      [] c.op = "gemv" /\ c.storage = "dense" -> LegacyGemv(c)
      [] c.op = "mv" /\ c.storage = "dense"   -> LegacySymv(c)
      [] c.op = "ger"                         -> LegacyGer(c)
      [] c.op = "mv" /\ c.storage = "packed"  -> RunPackedStructuredMvCases(c)
      [] c.op \in {"gemv", "mv"} /\ c.storage = "band" -> RunBandedCases(c)

-----------------------------------------------------------------------------
\* BLAS itself: the element in row i and column j, counted from 1.
BlasElement(c, a, i, j) ==
    CASE c.storage = "dense" -> a[(i - 1) + (j - 1) * c.m]
      [] c.storage = "packed" /\ c.uplo = "U" -> a[i + ((j - 1) * j) \div 2 - 1]
      [] c.storage = "packed" /\ c.uplo = "L" -> a[i + ((2 * c.n - j) * (j - 1)) \div 2 - 1]
      [] c.storage = "band" ->
            IF c.op = "gemv" THEN a[(c.k + 1 + i - j) - 1 + (j - 1) * (2 * c.k + 1)]
            ELSE IF c.uplo = "U" THEN a[(c.k + 1 + i - j) - 1 + (j - 1) * (c.k + 1)]
            ELSE a[(1 + i - j) - 1 + (j - 1) * (c.k + 1)]

InBand(c, i, j) == c.storage # "band" \/ (i - j <= c.k /\ j - i <= c.k)
Inside(c, i, j) == IF c.uplo = "U" THEN i <= j ELSE i >= j

BlasMatrix(c, a, i, j) ==
    IF ~InBand(c, i, j) THEN Zero ELSE
    CASE c.op = "gemv" -> BlasElement(c, a, i, j)
      [] c.op = "mv"   ->
            IF i = j THEN (IF c.complex THEN RealPart(BlasElement(c, a, i, i))
                           ELSE BlasElement(c, a, i, i))
            ELSE IF Inside(c, i, j) THEN BlasElement(c, a, i, j)
            ELSE ConjIf(c.complex, BlasElement(c, a, j, i))
      [] OTHER         ->
            IF i = j /\ c.diag = "U" THEN One
            ELSE IF Inside(c, i, j) THEN BlasElement(c, a, i, j) ELSE Zero

BlasOp(c, a, i, j) ==
    CASE c.trans = "N" -> BlasMatrix(c, a, i, j)
      [] c.trans = "T" -> BlasMatrix(c, a, j, i)
      [] c.trans = "C" -> Conj(BlasMatrix(c, a, j, i))

BlasProduct(c, a, x) ==
    [i \in 0 .. OutLength(c) - 1 |->
        Total(InLength(c), LAMBDA j : Times(BlasOp(c, a, i + 1, j + 1), x[j]))]

\* An array in the same storage, with the wanted elements.
BlasArray(c, a, wanted(_, _)) ==
    [q \in DOMAIN a |->
        LET at  == [p \in DOMAIN a |-> Number(p, 0)]
            hit == {p \in (1 .. c.m) \X (1 .. c.n) :
                       /\ c.op = "ger" \/ Inside(c, p[1], p[2])
                       /\ BlasElement(c, at, p[1], p[2]) = Number(q, 0)}
        IN IF hit = {} THEN a[q]
           ELSE LET p == CHOOSE p \in hit : TRUE IN wanted(p[1], p[2])]

BlasUpdate(c, o, i, j) ==
    LET term == CASE c.op = "ger" ->
                       Times(o.alpha, Times(o.x[i - 1], ConjIf(c.trans = "C", o.y[j - 1])))
                  [] c.op = "rank1" ->
                       Times(o.alpha, Times(o.x[i - 1], ConjIf(c.complex, o.x[j - 1])))
                  [] c.op = "rank2" ->
                       Plus(Times(o.alpha, Times(o.x[i - 1], ConjIf(c.complex, o.y[j - 1]))),
                            Times(ConjIf(c.complex, o.alpha),
                                  Times(o.y[i - 1], ConjIf(c.complex, o.x[j - 1]))))
        sum  == Plus(BlasElement(c, o.matrix, i, j), term)
    IN IF c.op # "ger" /\ c.complex /\ i = j THEN RealPart(sum) ELSE sum

\* What BLAS leaves; a solve of an unexpected right-hand side leaves zeros.
Blas(c, o) ==
    CASE c.op \in {"gemv", "mv"} ->
            LET product == BlasProduct(c, o.matrix, o.x)
            IN [i \in DOMAIN o.y |->
                   Plus(Times(o.alpha, product[i]), Times(o.beta, o.y[i]))]
      [] c.op = "trmv" -> BlasProduct(c, o.matrix, o.initial)
      [] c.op = "trsv" -> IF BlasProduct(c, o.matrix, o.x) = o.initial THEN o.x
                          ELSE [i \in 0 .. c.n - 1 |-> Zero]
      [] OTHER -> BlasArray(c, o.matrix, LAMBDA i, j : BlasUpdate(c, o, i, j))

-----------------------------------------------------------------------------
Init ==
    /\ case \in Cases
    /\ phase = "start" /\ operands = << >> /\ expected = << >> /\ actual = << >>
    /\ strays = {} /\ result = "none"

Prepare ==
    /\ phase = "start"
    /\ operands' = PreparedOperands(case)
    /\ expected' = operands'.reference
    /\ phase' = "call"
    /\ UNCHANGED <<case, actual, strays, result>>

Routine ==
    /\ phase = "call"
    /\ actual' = Blas(case, operands)
    /\ phase' = "look"
    /\ UNCHANGED <<case, operands, expected, strays, result>>

\* A wrong routine: some element of the result is zero or no number.
Stray ==
    /\ phase = "look" /\ Cardinality(strays) < MaxStray
    /\ \E i \in DOMAIN actual, value \in {Zero, NotANumber} :
          actual' = [actual EXCEPT ![i] = value] /\ strays' = strays \cup {i}
    /\ UNCHANGED <<case, phase, operands, expected, result>>

\* Every comparison with a NaN is false, for max as for the limit.  Squares of errors
\* stand for errors.
Error(a, b) == IF a = NotANumber THEN -1
               ELSE (a.re - b.re) * (a.re - b.re) + (a.im - b.im) * (a.im - b.im)
Greater(a, b) == a >= 0 /\ b >= 0 /\ a > b
MaxError ==
    LET last == Cardinality(DOMAIN expected) - 1
        max[i \in 0 .. last] ==
            LET e == Error(actual[i], expected[i])
            IN IF i = 0 THEN e ELSE IF Greater(e, max[i - 1]) THEN e ELSE max[i - 1]
    IN max[last]

CheckedVector == IF Greater(MaxError, 0) THEN "correctness_failed" ELSE "sampled-ok"

\* emit: the row is "ok" only if the check is.
Look ==
    /\ phase = "look"
    /\ result' = CheckedVector
    /\ phase' = "done"
    /\ UNCHANGED <<case, operands, expected, actual, strays>>

Ended == phase = "done" /\ UNCHANGED vars

Next == Prepare \/ Routine \/ Stray \/ Look \/ Ended

Spec == Init /\ [][Next]_vars

-----------------------------------------------------------------------------
TypeOK ==
    /\ case \in Cases
    /\ phase \in {"start", "call", "look", "done"}
    /\ result \in {"none", "sampled-ok", "correctness_failed"}
    /\ phase \in {"look", "done"} => DOMAIN actual = DOMAIN expected
    /\ strays \subseteq DOMAIN actual

\* No false alarm: a routine that leaves what BLAS prescribes passes, in every storage,
\* triangle, transposition and diagonal.  (The references of run_level2_report.)
RightPasses == (phase = "done" /\ strays = {}) => result = "sampled-ok"

\* A routine whose results are all numbers passes only if every one is what BLAS
\* prescribes.  (checked_vector.)
OkNumbersAreRight ==
    (result = "sampled-ok" /\ \A i \in DOMAIN actual : actual[i] # NotANumber) =>
        actual = Blas(case, operands)
=============================================================================
