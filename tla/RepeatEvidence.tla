--------------------------- MODULE RepeatEvidence ---------------------------
(***************************************************************************)
(* The arithmetic of bench/tools/report_comparison.py on measured values.  *)
(* A value is a natural number; 0 stands for every text the parser refuses *)
(* (no number, not finite, not positive).  An operator that raises answers *)
(* 0.  A median is kept doubled and a ratio is kept as a multiple of       *)
(* 1/Scale, so that both are whole.                                        *)
(***************************************************************************)
EXTENDS Integers, Sequences, FiniteSets, SequencesExt

CONSTANTS Scale,    \* a multiple of every measured value and of every doubled median
          Folded    \* name of a library -> its lower-case letters and digits

ScaleAssumption == Scale \in Nat \ {0}

Usable(value) == value > 0

\* Labels that name the same library of the full report are one label.
NormalizedLibraryLabel(label) ==
    IF Folded[label] \in {"zynum", "zynumblas", "libzynum", "libzynumblas"} THEN "Zynum" ELSE label

Ascending(values) == SortSeq(values, LAMBDA a, b : a < b)

\* Twice the median.
PositiveFiniteMedian(values) ==
    IF values = << >> \/ \E i \in DOMAIN values : ~Usable(values[i]) THEN 0
    ELSE LET ordered == Ascending(values)
             middle  == Len(values) \div 2
         IN IF Len(values) % 2 = 1 THEN 2 * ordered[middle + 1]
            ELSE ordered[middle] + ordered[middle + 1]

NearestRankPercentile(values, percent) ==
    IF values = << >> \/ \E i \in DOMAIN values : ~Usable(values[i]) THEN 0
    ELSE Ascending(values)[(Len(values) * percent + 99) \div 100]

PositiveFiniteRatio(a, b) == IF Usable(a) /\ Usable(b) THEN (a * Scale) \div b ELSE 0

\* Of the fields a probe must measure, none is blank or unusable.
ValidPerformance(row, fields) == \A field \in fields : Usable(row[field])

BestHigher(values) == CHOOSE v \in values : \A w \in values : v >= w
BestLower(values)  == CHOOSE v \in values : \A w \in values : v <= w

\* The evidence of the eligible repeats of one library and case, in repeat order.
Summary(values) ==
    [least   |-> IF values = << >> THEN 0 ELSE BestLower(ToSet(values)),
     median  |-> PositiveFiniteMedian(values),
     most    |-> IF values = << >> THEN 0 ELSE BestHigher(ToSet(values)),
     samples |-> values]

\* Samples are paired by their place in the two lists.  Twice the median, 0 if refused.
PairedMedianRatio(candidate, comparator) ==
    IF candidate = << >> \/ Len(candidate) # Len(comparator) THEN 0
    ELSE PositiveFiniteMedian(
             [i \in DOMAIN candidate |-> PositiveFiniteRatio(candidate[i], comparator[i])])
=============================================================================
