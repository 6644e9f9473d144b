------------------------------ MODULE FullReport ------------------------------
(***************************************************************************)
(* bench/tools/render_full_benchmark_report.py: reads every CSV file below *)
(* a directory, refuses all of them when one row of a known kind is not    *)
(* checked evidence, and publishes one report of all families.  The files  *)
(* are listed first and opened one by one; meanwhile others may publish a  *)
(* new version of a file or remove it.                                     *)
(* A row is a function of its columns.  A cell that should be a number has *)
(* one, 0 for a text the parser refuses; metric_samples has a sequence of  *)
(* them; a cell that is empty has Blank or is left out.                    *)
(***************************************************************************)
EXTENDS RepeatEvidence

CONSTANTS Requests,     \* command lines with the directory they are given
          Versions,     \* what a runner may publish in place of a file
          MaxChanges,   \* how many files others publish or remove meanwhile
          TextOrder,    \* name of a library -> its place among the names in text order
          Blank

VARIABLES request,      \* comparators and expected repeats
          inputs,       \* the directory: place in sorted order -> file, or Blank
          listing,      \* csv_files, as places
          position,     \* files opened so far
          accepted,     \* the rows taken: semantic_slots, case_cardinalities and groups in one
          recognized, ignored,
          opened,       \* ghost: the files as they were opened
          phase, report, exit, changes

vars == <<request, inputs, listing, position, accepted, recognized, ignored, opened,
          phase, report, exit, changes>>

\* ---------------------------------------------------------------- who writes what
EVIDENCE_FIELDS == {"process_repeats", "successful_repeats", "metric_min", "metric_median",
                    "metric_max", "metric_samples"}

\* What the probes of the matrix-matrix families have in common.
MATRIX_FIELDS == EVIDENCE_FIELDS \cup
    {"level", "routine", "kind", "library", "library_path", "shape", "n", "uplo", "alpha_re",
     "alpha_im", "lda", "ldb", "reps", "flop_count", "best_ns", "median_ns", "p95_ns", "max_ns",
     "gflops", "median_gflops", "metric", "status", "check_status", "check_max_abs_error",
     "check_max_rel_error", "check_samples", "check_raw_output"}

SYMM_FIELDS == MATRIX_FIELDS \cup {"m", "side", "beta_re", "beta_im", "order", "ldc"}
RANK_K_FIELDS == MATRIX_FIELDS \cup {"k", "trans", "beta_re", "beta_im", "ldc"}
TRIANGULAR_FIELDS == MATRIX_FIELDS \cup {"family", "m", "side", "trans", "diag", "order"}
ROTG_FIELDS == EVIDENCE_FIELDS \cup
    {"level", "routine", "kind", "library", "library_path", "case", "corpus_size", "samples",
     "calls_per_sample", "total_calls", "best_ns_per_call", "median_ns_per_call",
     "p95_ns_per_call", "max_ns_per_call", "median_full_ns_per_call", "median_harness_ns_per_call",
     "nonpositive_pairs", "metric", "status", "check_status", "check_max_abs_error",
     "check_max_rel_error", "check_samples", "expected_flag", "observed_flag", "checksum",
     "check_raw_output"}
LEVEL1_FIELDS == EVIDENCE_FIELDS \cup
    {"group", "op", "variant", "library", "library_path", "n", "incx", "incy", "copy_bytes",
     "copy_kind", "copy_elements", "seconds", "repeat", "metric", "status", "returncode",
     "rate_gops", "bandwidth_gbps", "symbol", "abi_surface", "preflight_symbol",
     "preflight_abi_surface", "capability_status", "check_status", "check_max_abs_error",
     "check_memory_status", "check_raw_output", "raw_output"}
LEVEL2_FIELDS == EVIDENCE_FIELDS \cup
    {"level", "case", "kind", "library", "n", "time_ns", "rate_gops", "metric", "status",
     "check_status", "check_max_abs_error", "check_raw_output", "shape", "m", "storage", "lda",
     "k", "kl", "ku", "uplo", "trans", "diag", "incx", "incy"}
GEMM_FIELDS ==
    {"kind", "transa", "transb", "shape_index", "label", "m", "n", "k", "library", "gflops",
     "best_ns", "median_ns", "p95_ns", "max_ns", "reps", "process_repeats", "median_ns_samples",
     "batch_calls", "batch_calls_samples", "check"}

\* ---------------------------------------------------------------- classify_header
\* The columns each kind of file is known by, in the order they are tried.
Signatures == <<
    <<"gemm", {"kind", "transa", "transb", "shape_index", "label", "m", "n", "k", "library",
               "gflops", "check"}>>,
    <<"level1", {"group", "op", "variant", "library", "n", "metric", "check_status"}>>,
    <<"scalar-latency", {"routine", "kind", "library", "case", "median_ns_per_call", "metric",
                         "check_status"}>>,
    <<"level2", {"case", "kind", "library", "n", "rate_gops", "check_status"}>>,
    <<"trmm-trsm", {"routine", "family", "kind", "library", "shape", "m", "n", "side", "trans",
                    "diag", "check_status"}>>,
    <<"symm-hemm", {"routine", "kind", "library", "shape", "m", "n", "side", "beta_re",
                    "check_status"}>>,
    <<"rank-k", {"routine", "kind", "library", "shape", "n", "k", "uplo", "trans",
                 "check_status"}>> >>

ClassifyHeader(fields) ==
    LET fits == SelectSeq(Signatures, LAMBDA s : s[2] \subseteq fields)
    IN IF fits = << >> THEN Blank ELSE fits[1][1]

CATEGORY_ORDER ==
    <<"level1", "scalar-latency", "level2", "gemm", "rank-k", "symm-hemm", "trmm-trsm">>

\* ---------------------------------------------------------------- a cell, a case
Cell(row, field) == IF field \in DOMAIN row THEN row[field] ELSE Blank

Text(row, field, default) == IF Cell(row, field) = Blank THEN default ELSE row[field]

\* The text that tells cases apart: these columns, with what an empty one stands for.
WithDefaults(row, fields, defaults) ==
    [f \in fields |-> Text(row, f, IF f \in DOMAIN defaults THEN defaults[f] ELSE Blank)]

Level1Case(row) ==
    WithDefaults(row, {"group", "op", "variant", "incx", "incy", "n", "metric"},
                 [variant |-> "default", incx |-> "1", incy |-> "1"])

\* The name of the square shape of this order.
SquareShape(n) == <<"sq", n>>

Level2Case(row) ==
    LET n == Cell(row, "n")
    IN WithDefaults(row, {"case", "kind", "shape", "m", "n", "storage", "lda", "k", "kl", "ku",
                          "uplo", "trans", "diag", "incx", "incy", "metric"},
                    [m |-> n, shape |-> SquareShape(n), metric |-> "gops"])

ScalarLatencyCase(row) ==
    WithDefaults(row, {"routine", "kind", "case", "corpus_size", "expected_flag", "metric"},
                 [metric |-> "ns_per_call"])

GemmCase(row) ==
    WithDefaults(row, {"kind", "transa", "transb", "label", "m", "n", "k"},
                 [transa |-> "N", transb |-> "N"])

RankKCase(row) ==
    WithDefaults(row, {"routine", "kind", "shape", "n", "k", "uplo", "trans", "alpha_re",
                       "alpha_im", "beta_re", "beta_im", "lda", "ldb", "ldc", "reps", "metric"}, << >>)

SymmCase(row) ==
    WithDefaults(row, {"routine", "kind", "shape", "m", "n", "side", "uplo", "alpha_re", "alpha_im",
                       "beta_re", "beta_im", "order", "lda", "ldb", "ldc", "reps", "metric"}, << >>)

TriangularCase(row) ==
    WithDefaults(row, {"routine", "family", "kind", "shape", "m", "n", "side", "uplo", "trans",
                       "diag", "alpha_re", "alpha_im", "order", "lda", "ldb", "reps", "metric"},
                 << >>)

CaseId(category, row) ==
    CASE category = "level1"         -> Level1Case(row)
      [] category = "scalar-latency" -> ScalarLatencyCase(row)
      [] category = "level2"         -> Level2Case(row)
      [] category = "gemm"           -> GemmCase(row)
      [] category = "rank-k"         -> RankKCase(row)
      [] category = "symm-hemm"      -> SymmCase(row)
      [] category = "trmm-trsm"      -> TriangularCase(row)

\* ---------------------------------------------------------------- the measured value
MetricName(category, row) ==
    CASE category = "level1"         -> Text(row, "metric", "")
      [] category = "scalar-latency" -> Text(row, "metric", "ns_per_call")
      [] category = "level2"         -> Text(row, "metric", "gops")
      [] category = "gemm"           -> "gflops"
      [] OTHER                       -> Text(row, "metric", "gflops")

FallbackField(category, row) ==
    CASE category = "level1" -> IF MetricName(category, row) = "bandwidth_gbps"
                                THEN "bandwidth_gbps" ELSE "rate_gops"
      [] category = "scalar-latency" -> "median_ns_per_call"
      [] category = "level2" -> "rate_gops"
      [] OTHER -> "gflops"

\* Values are multiples of 1/Scale, and 0 if refused.
MedianMetric(category, row) ==
    Text(row, "metric_median", Text(row, FallbackField(category, row), 0)) * Scale

\* From the median time where there is one, else the rate as it stands.
GemmMetric(row) ==
    LET elapsed == Cell(row, "median_ns")
        factor  == IF Text(row, "kind", "") \in {"cgemm", "zgemm"} THEN 8 ELSE 2
        work    == factor * Text(row, "m", 0) * Text(row, "n", 0) * Text(row, "k", 0)
    IN IF elapsed = Blank THEN Text(row, "gflops", 0) * Scale ELSE PositiveFiniteRatio(work, elapsed)

Metric(category, row) == IF category = "gemm" THEN GemmMetric(row) ELSE MedianMetric(category, row)

\* ---------------------------------------------------------------- one row
NormalizedLibrary(name) == NormalizedLibraryLabel(name)

\* The declared counts; a number of samples for the samples themselves.
EvidenceCardinality(row) ==
    [process    |-> Cell(row, "process_repeats"),
     successful |-> Cell(row, "successful_repeats"),
     samples    |-> IF Cell(row, "metric_samples") = Blank THEN Blank ELSE Len(row["metric_samples"])]

\* Whether the declared counts contradict each other or the expected one.
CardinalityRefused(category, row, expected) ==
    LET count    == EvidenceCardinality(row)
        declared == {f \in DOMAIN count : count[f] # Blank}
        repeats  == IF "process" \in declared THEN count.process ELSE count.successful
        measured == IF "successful" \in declared THEN count.successful ELSE count.process
    IN \/ category # "level1" /\ declared \notin {{}, DOMAIN count}
       \/ category = "level1" /\ ("process" \in declared) # ("successful" \in declared)
       \/ \E f \in declared : count[f] = 0
       \/ {"process", "successful"} \subseteq declared /\ count.process # count.successful
       \/ expected # Blank /\ repeats # expected
       \/ "samples" \in declared /\ measured # Blank /\ count.samples # measured

CHECK_FIELDS == {"check_status", "check", "correctness_status", "correctness"}
ACCEPTED_CHECKS == {"ok", "passed", "sampled", "checked-ok", "sampled-ok", "correctness-ok",
                    "correctness-passed"}

CheckedRowRefused(category, row, expected) ==
    LET checks == {Cell(row, f) : f \in CHECK_FIELDS} \ {Blank}
    IN \/ Cell(row, "status") \notin {"ok", Blank}
       \/ checks = {} \/ ~(checks \subseteq ACCEPTED_CHECKS)
       \/ CardinalityRefused(category, row, expected)

PERFORMANCE_EVIDENCE_FIELDS ==
    {"seconds", "time_ns", "rate_gops", "bandwidth_gbps", "gflops", "median_gflops", "best_ns",
     "median_ns", "p95_ns", "max_ns", "best_ns_per_call", "median_ns_per_call",
     "p95_ns_per_call", "max_ns_per_call", "median_full_ns_per_call",
     "median_harness_ns_per_call"}

\* Whatever is measured must be usable, also where the report does not use it.
PerformanceRefused(row) ==
    \/ \E f \in PERFORMANCE_EVIDENCE_FIELDS \cup {"metric_min", "metric_median", "metric_max"} :
           Cell(row, f) # Blank /\ ~Usable(row[f])
    \/ Cell(row, "metric_samples") # Blank
       /\ \E i \in DOMAIN row["metric_samples"] : ~Usable(row["metric_samples"][i])

RowRefused(category, row, expected) ==
    \/ CheckedRowRefused(category, row, expected) \/ PerformanceRefused(row)
    \/ Text(row, "library", "") = ""
    \/ Metric(category, row) = 0

Entry(category, row, path) ==
    [category |-> category, case |-> CaseId(category, row),
     library |-> NormalizedLibrary(row["library"]), metric |-> MetricName(category, row),
     value |-> Metric(category, row), cardinality |-> EvidenceCardinality(row), path |-> path]

SameCase(e, f) == e.category = f.category /\ e.case = f.case

\* A slot that is taken, or a case whose libraries were repeated differently often.
Contradicts(e, taken) ==
    \/ \E f \in taken : SameCase(e, f) /\ e.library = f.library
    \/ e.category # "level1" /\ \E f \in taken : SameCase(e, f) /\ e.cardinality # f.cardinality

\* The rows of one file in their order, up to the first that is refused.
ReadRows(category, file, path) ==
    FoldLeft(LAMBDA got, row :
                 IF got.refused \/ RowRefused(category, row, request.expected)
                 THEN [got EXCEPT !.refused = TRUE]
                 ELSE LET e == Entry(category, row, path)
                      IN IF Contradicts(e, got.entries) THEN [got EXCEPT !.refused = TRUE]
                         ELSE [got EXCEPT !.entries = @ \cup {e}],
             [entries |-> accepted, refused |-> FALSE], file.rows)
-----------------------------------------------------------------------------
\* ---------------------------------------------------------------- the report
LowerIsBetter(category) == category = "scalar-latency"

\* The best of some results; of equal ones the first name.
BestRow(category, rows) ==
    CHOOSE x \in rows : \A y \in rows :
        \/ IF LowerIsBetter(category) THEN x.value < y.value ELSE x.value > y.value
        \/ x.value = y.value /\ TextOrder[x.library] <= TextOrder[y.library]

\* The results of one case: against the requested comparators, or whichever there are.
CaseResult(category, case, entries, requested) ==
    LET zynum    == {x \in entries : x.library = "Zynum"}
        others   == entries \ zynum
        compared == IF requested = << >> THEN others
                    ELSE {x \in others : x.library \in ToSet(requested)}
        best     == BestRow(category, compared)
        own      == CHOOSE x \in zynum : TRUE
        ratio    == IF LowerIsBetter(category) THEN PositiveFiniteRatio(best.value, own.value)
                    ELSE PositiveFiniteRatio(own.value, best.value)
    IN [case |-> case, metric |-> (CHOOSE x \in entries : TRUE).metric,
        zynum_value         |-> IF zynum = {} THEN Blank ELSE own.value,
        fastest_comparator  |-> IF compared = {} THEN Blank ELSE best.library,
        comparator_value    |-> IF compared = {} THEN Blank ELSE best.value,
        ratio               |-> IF zynum = {} \/ compared = {} THEN Blank ELSE ratio,
        status              |-> CASE zynum = {}      -> "missing-zynum"
                                  [] zynum # {} /\ compared = {} -> "missing-comparator"
                                  [] OTHER -> IF ratio >= Scale THEN "passed" ELSE "failed",
        missing_comparators |-> SelectSeq(requested, LAMBDA l : l \notin {x.library : x \in others}),
        source_files        |-> {x.path : x \in entries},
        libraries           |-> {<<x.library, x.value>> : x \in entries}]

AggregateCategory(category, requested) ==
    LET entries == {e \in accepted : e.category = category}
        cases   == SetToSeq({e.case : e \in entries})      \* in the order of their texts
    IN [i \in DOMAIN cases |->
           CaseResult(category, cases[i], {e \in entries : e.case = cases[i]}, requested)]

CategoryStatus(results) ==
    IF \A r \in ToSet(results) : r.ratio = Blank THEN "missing"
    ELSE IF \E r \in ToSet(results) : r.status = "failed" THEN "failed"
    ELSE IF \E r \in ToSet(results) : r.status # "passed" \/ r.missing_comparators # << >> THEN "incomplete"
    ELSE "passed"

StatusCounts(results) ==
    LET count(those) == Len(SelectSeq(results, LAMBDA r : r.status \in those))
    IN [total |-> Len(results), passed |-> count({"passed"}), failed |-> count({"failed"}),
        missing |-> count({"missing-zynum", "missing-comparator"}),
        comparator_incomplete |-> Len(SelectSeq(results, LAMBDA r : r.missing_comparators # << >>))]

\* ---------------------------------------------------------------- the chart
Valued(result, library) == \E lv \in result.libraries : lv[1] = library

\* The lines of one library: its longest runs of cases without a gap, as <<first, last>>.
Segments(rows, library) ==
    {<<a, b>> \in (DOMAIN rows) \X (DOMAIN rows) :
        /\ a <= b /\ \A i \in a..b : Valued(rows[i], library)
        /\ a > 1 => ~Valued(rows[a - 1], library)
        /\ b < Len(rows) => ~Valued(rows[b + 1], library)}

\* One panel for each metric; its axis reaches to the highest value.
RenderSvg(results) ==
    LET libraries == {lv[1] : lv \in UNION {r.libraries : r \in ToSet(results)}}
        panel(metric) ==
            LET rows == SelectSeq(results, LAMBDA r : r.metric = metric)
                bars == UNION {{<<i, lv[1], lv[2]>> : lv \in rows[i].libraries} : i \in DOMAIN rows}
            IN [metric |-> metric, cases |-> [i \in DOMAIN rows |-> rows[i].case], bars |-> bars,
                axis |-> BestHigher({b[3] : b \in bars}), lowerBetter |-> metric = "ns_per_call",
                lines |-> [l \in libraries |-> Segments(rows, l)]]
    IN {panel(metric) : metric \in {r.metric : r \in ToSet(results)}}

Requested == [i \in DOMAIN request.comparators |-> NormalizedLibrary(request.comparators[i])]

\* The rows seen are those accepted: one that is rejected ends the run.
CategoryReport(category) ==
    LET results == AggregateCategory(category, Requested)
    IN [id |-> category, status |-> CategoryStatus(results), results |-> results,
        svg   |-> RenderSvg(results),
        files |-> {f[1] : f \in {g \in ToSet(recognized) : g[2] = category}},
        rows  |-> Cardinality({e \in accepted : e.category = category}),
        cases |-> StatusCounts(results)]

RenderReport ==
    [expected_process_repeats |-> request.expected, requested_comparators |-> Requested,
     scanned |-> Len(listing), recognized |-> [i \in DOMAIN recognized |-> recognized[i][1]],
     ignored |-> ignored,
     categories |-> [i \in DOMAIN CATEGORY_ORDER |-> CategoryReport(CATEGORY_ORDER[i])]]
-----------------------------------------------------------------------------
Init == /\ request \in Requests
        /\ inputs = IF request.directory = Blank THEN << >> ELSE request.directory
        /\ listing = << >> /\ position = 0 /\ accepted = {} /\ recognized = << >> /\ ignored = << >>
        /\ opened = << >> /\ phase = "list" /\ report = Blank /\ exit = Blank /\ changes = 0

End(code) == phase' = "done" /\ exit' = code

\* Somebody asks for no directory, or for a number of repeats that is not positive.
RequestRefused ==
    request.directory = Blank \/ (request.expected # Blank /\ request.expected <= 0)

\* csv_files, sorted; the directory may not be readable.
ListInputs ==
    /\ phase = "list"
    /\ \/ /\ ~RequestRefused /\ phase' = "read" /\ UNCHANGED exit
          /\ listing' = SelectSeq([i \in DOMAIN inputs |-> i], LAMBDA i : inputs[i] # Blank)
       \/ End(2) /\ UNCHANGED listing
    /\ UNCHANGED <<request, inputs, position, accepted, recognized, ignored, opened, report, changes>>

\* Where the reading of a file ends early: it may be gone, or not be readable.
FailsAt(file) == IF file = Blank THEN "open" ELSE file.fails

KindOf(file) == IF FailsAt(file) = "open" THEN Blank ELSE ClassifyHeader(file.fields)

\* A file that cannot be opened or has no known header is only listed as ignored.
IgnoreInput(path, file) ==
    /\ FailsAt(file) # "header" /\ KindOf(file) = Blank
    /\ ignored' = Append(ignored, path)
    /\ UNCHANGED <<recognized, accepted, phase, exit>>

\* An OSError, or a text that is no UTF-8, gives exit 2; csv.Error is caught by nobody.
HeaderUnreadable(file) ==
    /\ FailsAt(file) = "header"
    /\ \E code \in {1, 2} : End(code)
    /\ UNCHANGED <<recognized, ignored, accepted>>

\* The rows are taken one by one, up to the first that is refused or cannot be read.
TakeInput(path, file) ==
    LET category == KindOf(file)
        got      == ReadRows(category, file, path)
    IN /\ FailsAt(file) # "header" /\ category # Blank
       /\ recognized' = Append(recognized, <<path, category>>) /\ UNCHANGED ignored
       /\ accepted' = got.entries
       /\ CASE got.refused -> End(2)
            [] ~got.refused /\ file.fails = "rows" -> \E code \in {1, 2} : End(code)
            [] ~got.refused /\ file.fails # "rows" -> UNCHANGED <<phase, exit>>

ReadInput ==
    /\ phase = "read" /\ position < Len(listing)
    /\ LET path == listing[position + 1]
           file == inputs[path]
       IN /\ opened' = Append(opened, IF FailsAt(file) = "open" THEN Blank ELSE file)
          /\ IgnoreInput(path, file) \/ HeaderUnreadable(file) \/ TakeInput(path, file)
    /\ position' = position + 1
    /\ UNCHANGED <<request, inputs, listing, report, changes>>

\* publish_outputs installs all files or none; its error after a complete installation is
\* answered like any other.
Publish ==
    /\ phase = "read" /\ position = Len(listing)
    /\ \/ report' = RenderReport /\ \E code \in {0, 2} : End(code)
       \/ UNCHANGED report /\ End(2)
    /\ UNCHANGED <<request, inputs, listing, position, accepted, recognized, ignored, opened, changes>>

\* A runner publishes a file in one step, or somebody removes it.
Others ==
    /\ phase = "read" /\ changes < MaxChanges /\ changes' = changes + 1
    /\ \E i \in DOMAIN inputs, file \in Versions \cup {Blank} : inputs' = [inputs EXCEPT ![i] = file]
    /\ UNCHANGED <<request, listing, position, accepted, recognized, ignored, opened, phase, report, exit>>

Next == ListInputs \/ ReadInput \/ Publish \/ Others \/ (phase = "done" /\ UNCHANGED vars)

Spec == Init /\ [][Next]_vars

-----------------------------------------------------------------------------
\* The reader keeps its counts: every listed file is opened once and is either recognized
\* or listed as ignored, but for one whose header cannot be read.
TypeOK ==
    /\ phase \in {"list", "read", "done"} /\ exit \in {Blank, 0, 1, 2}
    /\ position \in 0..Len(listing) /\ Len(opened) = position
    /\ phase = "read" \/ report # Blank => Len(recognized) + Len(ignored) = position
    /\ changes \in 0..MaxChanges

Published == phase = "done" /\ report # Blank

\* The rows of the files as they were opened: <<place in opened, row number>>.
RowsRead ==
    UNION {{<<k, r>> : r \in DOMAIN opened[k].rows} :
               k \in {j \in DOMAIN opened : opened[j] # Blank /\ opened[j].producer # "other"}}
TheRow(p) == opened[p[1]].rows[p[2]]
Producer(p) == opened[p[1]].producer

\* Everything a row says but what was measured, how often, and by whom.
Identity(row) ==
    [f \in DOMAIN row \ (PERFORMANCE_EVIDENCE_FIELDS \cup EVIDENCE_FIELDS \cup CHECK_FIELDS
                         \cup {"library", "status"}) |-> row[f]]

CategoryOf(producer) == CHOOSE i \in DOMAIN report.categories : report.categories[i].id = producer

\* A published report rests on every row of every file that was opened, and each of them
\* is checked evidence that was repeated as often as it says; nothing is filtered away, and
\* the numbers of rows and cases are those of the files.  (checked_row, read_inputs.)
OnlyCheckedEvidence ==
    Published =>
        /\ \A p \in RowsRead :
             LET row    == TheRow(p)
                 checks == {Cell(row, "check_status"), Cell(row, "check")} \ {Blank}
             IN /\ Cell(row, "status") # "error" /\ checks # {} /\ "failed" \notin checks
                /\ \A f \in DOMAIN row \cap PERFORMANCE_EVIDENCE_FIELDS : row[f] # 0
                /\ Cell(row, "process_repeats") = Cell(row, "successful_repeats")
                /\ request.expected # Blank => row["process_repeats"] = request.expected
                /\ \E result \in ToSet(report.categories[CategoryOf(Producer(p))].results) :
                       \E lv \in result.libraries : lv[1] = NormalizedLibrary(row["library"])
        /\ \A i \in DOMAIN report.categories :
             LET rows == {p \in RowsRead : Producer(p) = report.categories[i].id}
             IN /\ report.categories[i].rows = Cardinality(rows)
                /\ report.categories[i].cases.total = Cardinality({Identity(TheRow(p)) : p \in rows})

\* No measurement is counted twice, under whatever spelling and in whichever file, and the
\* libraries of one case were repeated equally often (Level 1 excepted).  (semantic_slots,
\* case_cardinalities.)
OneMeasurementPerSlot ==
    Published =>
        \A p, q \in RowsRead :
            LET a == TheRow(p)  b == TheRow(q)
            IN p # q /\ Producer(p) = Producer(q) /\ Identity(a) = Identity(b) =>
                   /\ NormalizedLibrary(a["library"]) # NormalizedLibrary(b["library"])
                   /\ Producer(p) # "level1" =>
                         Cell(a, "successful_repeats") = Cell(b, "successful_repeats")

\* The charts of a report draw every value once, in the panel of its metric and within its
\* axis, and no line passes over a case in which its library was not measured.  (render_svg.)
ChartsShowAll ==
    Published =>
        \A i \in DOMAIN report.categories :
            LET category == report.categories[i]
                drawn    == UNION {{<<panel.cases[b[1]], b[2], b[3]>> : b \in panel.bars} :
                                       panel \in category.svg}
            IN /\ Cardinality(drawn) = category.rows
               /\ \A e \in {x \in accepted : x.category = category.id} :
                     <<e.case, e.library, e.value>> \in drawn
               /\ \A panel \in category.svg :
                    /\ \A b \in panel.bars : b[3] <= panel.axis
                    /\ \A l \in DOMAIN panel.lines : \A s, t \in panel.lines[l] :
                          s = t \/ s[2] + 1 < t[1] \/ t[2] + 1 < s[1]
                    /\ \A l \in DOMAIN panel.lines : \A k \in DOMAIN panel.cases :
                          (\E s \in panel.lines[l] : k \in s[1]..s[2])
                              <=> \E b \in panel.bars : b[1] = k /\ b[2] = l

\* Which of two rows of one case is no worse, told from their times and rates alone.
Value(row) ==
    LET said == SelectSeq(<<"metric_median", "median_ns", "median_ns_per_call", "gflops", "rate_gops">>,
                          LAMBDA f : Cell(row, f) # Blank)
    IN row[said[1]]
NoWorse(producer, a, b) ==
    IF producer \in {"scalar-latency", "gemm"} THEN Value(a) <= Value(b) ELSE Value(a) >= Value(b)

\* A family that passes has Zynum and a comparator in every case, every one of them where
\* some were asked for, and Zynum is nowhere behind: a missing comparator does not pass.
\* (category_status, aggregate_category.)
PassedMeansFastest ==
    Published =>
        \A i \in DOMAIN report.categories :
            report.categories[i].status = "passed" =>
                LET rows    == {p \in RowsRead : Producer(p) = report.categories[i].id}
                    of(p)   == {TheRow(q) : q \in {r \in rows : Identity(TheRow(r)) = Identity(TheRow(p))}}
                    name(a) == NormalizedLibrary(a["library"])
                    asked   == ToSet(Requested)
                IN /\ rows # {}
                   /\ \A p \in rows :
                        LET zynum  == {a \in of(p) : name(a) = "Zynum"}
                            others == {a \in of(p) : name(a) # "Zynum" /\ (asked # {} => name(a) \in asked)}
                        IN /\ zynum # {} /\ others # {}
                           /\ asked \subseteq {name(a) : a \in others}
                           /\ \A z \in zynum, o \in others : NoWorse(report.categories[i].id, z, o)
=============================================================================
