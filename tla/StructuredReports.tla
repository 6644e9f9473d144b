-------------------------- MODULE StructuredReports --------------------------
(***************************************************************************)
(* The four fresh-process report runners with their checkers: one command  *)
(* line is run, and any checker options may then be put to the file.  The  *)
(* dimensions, libraries and scalars are those of the command line, a      *)
(* scalar as a pair of sixteenths; measured values are those of            *)
(* RepeatEvidence.  Columns that only repeat what was asked are left out   *)
(* of a row: that they do is what ProbeRowMatches says.                    *)
(***************************************************************************)
EXTENDS FreshProcess

CONSTANTS Requests,     \* the command lines
          Options       \* the options of the checkers

IsReal(scalar) == scalar[2] = 0

\* What the command line parsers let through.
WellFormed(r) ==
    /\ r.reps >= 1
    /\ \A i \in DOMAIN r.shape : /\ r.shape[i].shape # ""
                                /\ \A d \in DOMAIN r.shape[i] \ {"shape"} : r.shape[i][d] >= 1

-----------------------------------------------------------------------------
(* What the runners of SYMM, rank-k and triangular reports share.  A reply is one row, or *)
(* none (a failing process, no or several rows, columns missing), or a process that could *)
(* not be started; "wrong" is the column in which a row contradicts the question.         *)

ErrorRow(case) == [case |-> case, status |-> "error", check |-> "error", gflops |-> 0,
                   value |-> 0, times |-> "unusable", pairs |-> 0, extra |-> "asked"]

ProbeRow(case, reply, groupKey) ==
    [case |-> case, status |-> reply.status, check |-> reply.check, gflops |-> reply.gflops,
     value |-> reply.value, times |-> reply.times, pairs |-> reply.pairs,
     extra |-> IF reply.wrong \in groupKey THEN "other" ELSE "asked"]

\* The median time must be a whole number of nanoseconds.
RepeatRowEligible(row, statuses) ==
    row.status = "ok" /\ row.check \in statuses /\ Usable(row.value) /\ row.times = "whole"

FailureStatus(rows) ==
    LET said == {rows[i].status : i \in DOMAIN rows} \cup {rows[i].check : i \in DOMAIN rows}
    IN IF "error" \in said THEN <<"error", "error">>
       ELSE IF "missing" \in said THEN <<"missing", "missing">>
       ELSE <<"correctness_failed", "correctness_failed">>

\* The evidence of all eligible repeats, put to the row of one of them.
Evidence(base, values, repeats, failure) ==
    Summary(values)
    @@ [successful |-> Len(values), repeats |-> repeats]
    @@ IF Len(values) = repeats THEN base
       ELSE [base EXCEPT !.status = failure[1], !.check = failure[2]]

\* The row of the fastest eligible repeat, or else of the first repeat.
AggregateRates(rows, statuses) ==
    LET eligible == SelectSeq(rows, LAMBDA row : RepeatRowEligible(row, statuses))
        base == IF eligible = << >> THEN rows[1]
                ELSE FirstMost(eligible, LAMBDA row : row.gflops)
    IN Evidence(base, [i \in DOMAIN eligible |-> eligible[i].value], Len(rows), FailureStatus(rows))

RowAllowed(o, row) == \A field \in DOMAIN o.filter : row.case[field] \in o.filter[field]

\* The rows of a report are compared within a case, and apart by the columns of the group key
\* that the runner did not compare with the question.
Keyed(rows) == [i \in DOMAIN rows |-> [rows[i] EXCEPT !.case = <<rows[i].case, rows[i].extra>>]]

MetricValue(o, row) ==
    CASE o.stat \in {"median", "paired-median"} -> row.median
      [] o.stat = "best" -> 2 * row.most
      [] o.stat = "min"  -> 2 * row.least

\* The worst of the paired ratios, or the ratio to the best comparator.
Passes(o, zynum, others) ==
    LET ratio == IF o.stat = "paired-median"
                 THEN BestLower({PairedMedianRatio(zynum.samples, row.samples) : row \in others})
                 ELSE 2 * PositiveFiniteRatio(MetricValue(o, zynum),
                                              BestHigher({MetricValue(o, row) : row \in others}))
    IN IF ratio = 0 THEN "refused" ELSE IF ratio < 2 * o.ratio THEN "fails" ELSE "passes"

bugUncheckedZynumSkipped(rows, o, statuses) ==
    LET used == {i \in DOMAIN rows : /\ RowAllowed(o, rows[i]) /\ rows[i].status = "ok"
                                     /\ rows[i].check \in statuses}
    IN IF ~Usable(o.ratio) \/ Doubled(Keyed(rows), used) THEN 2
       ELSE Conclude(Rows(Keyed(rows), used), o, {}, LAMBDA z, others : Passes(o, z, others))
\* The exit status: an unchecked row of Zynum refuses the report, an unchecked row of another
\* library is left out.  With --allow-unchecked every row takes part.
CheckRates(rows, o, statuses) ==
    LET allowed == {i \in DOMAIN rows : RowAllowed(o, rows[i])}
        checked(row) == row.status = "ok" /\ row.check \in statuses
        used    == {i \in allowed : o.unchecked \/ checked(rows[i])}
    IN IF \/ ~Usable(o.ratio)
          \/ \E i \in allowed \ used : rows[i].library = o.zynum
          \/ \E i \in used : ~Usable(MetricValue(o, rows[i]))
          \/ Doubled(Keyed(rows), used)
       THEN 2
       ELSE Conclude(Rows(Keyed(rows), used), o, {}, LAMBDA z, others : Passes(o, z, others))

-----------------------------------------------------------------------------
(* bench/tools/run_symm_report.py and check_symm_report.py. *)

SymmRoutine(name, kind, complex) == [routine |-> name, kind |-> kind, complex |-> complex]
SYMM_ROUTINES ==
    <<SymmRoutine("ssymm", "f32", FALSE), SymmRoutine("dsymm", "f64", FALSE),
      SymmRoutine("csymm", "c32", TRUE), SymmRoutine("zsymm", "c64", TRUE),
      SymmRoutine("chemm", "c32", TRUE), SymmRoutine("zhemm", "c64", TRUE)>>

Rectangle(name, m, n) == [shape |-> name, m |-> m, n |-> n]
SymmShapes == <<Rectangle("square128", 128, 128), Rectangle("tall512x128", 512, 128),
                Rectangle("wide128x512", 128, 512)>>

REAL_ALPHA == <<12, 0>>
REAL_BETA == <<4, 0>>
COMPLEX_ALPHA == <<12, -2>>
COMPLEX_BETA == <<4, 1>>
SymmCheckedStatuses == {"checked-ok"}

\* A real routine takes the real ones among the requested scalars.
SymmScalars(routine, requested, realDefault, complexDefault) ==
    IF requested = << >> THEN <<IF routine.complex THEN complexDefault ELSE realDefault>>
    ELSE IF routine.complex THEN requested ELSE SelectSeq(requested, IsReal)

\* Routine by routine, shape by shape, and so on; shapes and scalars keep their repeats.  A
\* real routine that is left without a scalar refuses the command line.
SymmRequestedCases(r) ==
    LET routines == Listed(SYMM_ROUTINES, "routine", r.routine)
        alphas(routine) == SymmScalars(routine, r.alpha, REAL_ALPHA, COMPLEX_ALPHA)
        betas(routine)  == SymmScalars(routine, r.beta, REAL_BETA, COMPLEX_BETA)
    IN IF \E routine \in ToSet(routines) : alphas(routine) = << >> \/ betas(routine) = << >>
       THEN << >>
       ELSE FlattenSeq([i \in DOMAIN routines |->
                Product(<< <<[routine |-> routines[i].routine, kind |-> routines[i].kind]>>,
                           OrElse(r.shape, SymmShapes),
                           Alternatives("side", Unique(OrElse(r.side, <<"L", "R">>))),
                           Alternatives("uplo", Unique(OrElse(r.uplo, <<"U", "L">>))),
                           Alternatives("alpha", alphas(routines[i])),
                           Alternatives("beta", betas(routines[i]))>>)])

SymmSchedule == AgreedSchedule(request.process, request.legacy)

SymmErrorRow(case) == ErrorRow(case)

\* The columns of the answer that must repeat the question, and those a checker groups by.
SymmCompared ==
    {"level", "routine", "kind", "library", "library_path", "shape", "m", "n", "side", "uplo",
     "alpha_re", "alpha_im", "beta_re", "beta_im", "order", "lda", "ldb", "ldc", "reps",
     "flop_count", "metric", "check_samples"}
SymmGroupKey ==
    {"routine", "kind", "shape", "m", "n", "side", "uplo", "alpha_re", "alpha_im", "beta_re",
     "beta_im", "order", "lda", "ldb", "ldc", "reps", "process_repeats", "metric"}

SymmProbeRowMatches(reply) == reply.wrong \notin SymmCompared

SymmRunOneProcess(case, reply) ==
    IF reply.kind # "row" THEN SymmErrorRow(case)
    ELSE IF SymmProbeRowMatches(reply) THEN ProbeRow(case, reply, SymmGroupKey)
    ELSE SymmErrorRow(case)

\* The rows that say "ok" must have every performance value.
SymmValid(rows) == \A i \in DOMAIN rows :
    rows[i].status = "ok" =>
        ValidPerformance(rows[i], {"gflops", "value"}) /\ rows[i].times # "unusable"

SymmAggregateRepeats(rows) == AggregateRates(rows, SymmCheckedStatuses)

SymmLibraries == Chosen(request.libraries, request.skip)

SymmPrepare == Prepare(IF WellFormed(request) THEN SymmRequestedCases(request) ELSE << >>,
                       SymmLibraries, SymmSchedule)
SymmMeasure == Measure(SymmSchedule, SymmRunOneProcess, LAMBDA reply : FALSE)
SymmFold    == Fold(SymmSchedule, SymmValid, SymmAggregateRepeats)

SymmNext == /\ request.tool = "symm"
            /\ SymmPrepare \/ SymmMeasure \/ SymmFold \/ Finalize \/ Publish

\* The columns the checker filters by, and its exit status.
SymmFilters == {"routine", "kind", "shape", "m", "n", "side", "uplo", "alpha", "beta"}
SymmCheckReport(rows, o) == CheckRates(rows, o, SymmCheckedStatuses)

-----------------------------------------------------------------------------
(* bench/tools/run_rank_k_report.py and check_rank_k_report.py. *)

RankKRoutine(name, kind, trans, realAlpha, realBeta) ==
    [routine |-> name, kind |-> kind, trans |-> trans, realAlpha |-> realAlpha,
     realBeta |-> realBeta]
RANK_K_ROUTINES ==
    <<RankKRoutine("ssyrk", "f32", <<"N", "T">>, TRUE, TRUE),
      RankKRoutine("dsyrk", "f64", <<"N", "T">>, TRUE, TRUE),
      RankKRoutine("csyrk", "c32", <<"N", "T">>, FALSE, FALSE),
      RankKRoutine("zsyrk", "c64", <<"N", "T">>, FALSE, FALSE),
      RankKRoutine("cherk", "c32", <<"N", "C">>, TRUE, TRUE),
      RankKRoutine("zherk", "c64", <<"N", "C">>, TRUE, TRUE),
      RankKRoutine("ssyr2k", "f32", <<"N", "T">>, TRUE, TRUE),
      RankKRoutine("dsyr2k", "f64", <<"N", "T">>, TRUE, TRUE),
      RankKRoutine("csyr2k", "c32", <<"N", "T">>, FALSE, FALSE),
      RankKRoutine("zsyr2k", "c64", <<"N", "T">>, FALSE, FALSE),
      RankKRoutine("cher2k", "c32", <<"N", "C">>, FALSE, TRUE),
      RankKRoutine("zher2k", "c64", <<"N", "C">>, FALSE, TRUE)>>

Update(name, n, k) == [shape |-> name, n |-> n, k |-> k]
RankKShapes == <<Update("n128_k32", 128, 32), Update("n128_k128", 128, 128),
                 Update("n128_k512", 128, 512), Update("n512_k128", 512, 128)>>

RankKCheckedStatuses == {"sampled-ok", "checked-ok"}

\* One routine that needs a real scalar refuses the whole command line.
RankKValidScalars(routines, alphas, betas) ==
    /\ (\E i \in DOMAIN alphas : ~IsReal(alphas[i])) => \A i \in DOMAIN routines : ~routines[i].realAlpha
    /\ (\E i \in DOMAIN betas : ~IsReal(betas[i])) => \A i \in DOMAIN routines : ~routines[i].realBeta

\* Transposes that a routine does not have are dropped, not refused.
RankKRequestedCases(r) ==
    LET routines == Listed(RANK_K_ROUTINES, "routine", r.routine)
        alphas   == OrElse(r.alpha, <<REAL_ALPHA>>)
        betas    == OrElse(r.beta, <<REAL_BETA>>)
    IN IF ~RankKValidScalars(routines, alphas, betas) THEN << >>
       ELSE FlattenSeq([i \in DOMAIN routines |->
                Product(<< <<[routine |-> routines[i].routine, kind |-> routines[i].kind]>>,
                           OrElse(r.shape, RankKShapes),
                           Alternatives("uplo", Unique(OrElse(r.uplo, <<"U", "L">>))),
                           Alternatives("trans", SelectSeq(routines[i].trans,
                                       LAMBDA t : r.trans = << >> \/ t \in ToSet(r.trans))),
                           Alternatives("alpha", alphas), Alternatives("beta", betas)>>)])

RankKSchedule == AgreedSchedule(request.process, request.legacy)

RankKErrorRow(case) == ErrorRow(case)

\* Nobody compares the metric, by which the checker groups.
RankKCompared ==
    {"routine", "kind", "library", "library_path", "shape", "n", "k", "uplo", "trans", "alpha_re",
     "alpha_im", "beta_re", "beta_im", "lda", "ldb", "ldc", "reps", "flop_count"}
RankKGroupKey ==
    {"routine", "kind", "shape", "n", "k", "uplo", "trans", "alpha_re", "alpha_im", "beta_re",
     "beta_im", "lda", "ldb", "ldc", "reps", "process_repeats", "metric"}

RankKProbeRowMatches(reply) == reply.wrong \notin RankKCompared

RankKRunOneProcess(case, reply) ==
    IF reply.kind # "row" THEN RankKErrorRow(case)
    ELSE IF RankKProbeRowMatches(reply) THEN ProbeRow(case, reply, RankKGroupKey)
    ELSE RankKErrorRow(case)

RankKValid(rows) == \A i \in DOMAIN rows :
    rows[i].status = "ok" =>
        ValidPerformance(rows[i], {"gflops", "value"}) /\ rows[i].times # "unusable"

RankKAggregateRepeats(rows) == AggregateRates(rows, RankKCheckedStatuses)

RankKLibraries == Chosen(request.libraries, request.skip)

RankKPrepare == Prepare(IF WellFormed(request) THEN RankKRequestedCases(request) ELSE << >>,
                        RankKLibraries, RankKSchedule)
RankKMeasure == Measure(RankKSchedule, RankKRunOneProcess, LAMBDA reply : FALSE)
RankKFold    == Fold(RankKSchedule, RankKValid, RankKAggregateRepeats)

RankKNext == /\ request.tool = "rank_k"
             /\ RankKPrepare \/ RankKMeasure \/ RankKFold \/ Finalize \/ Publish

RankKFilters == {"routine", "kind", "shape", "n", "k", "uplo", "trans", "alpha", "beta"}
RankKCheckReport(rows, o) == CheckRates(rows, o, RankKCheckedStatuses)

-----------------------------------------------------------------------------
(* bench/tools/run_triangular_matrix_report.py and check_triangular_matrix_report.py. *)

TriangularRoutine(name, family, kind, complex) ==
    [routine |-> name, family |-> family, kind |-> kind, complex |-> complex]
TRIANGULAR_ROUTINES ==
    <<TriangularRoutine("strmm", "trmm", "f32", FALSE), TriangularRoutine("dtrmm", "trmm", "f64", FALSE),
      TriangularRoutine("ctrmm", "trmm", "c32", TRUE), TriangularRoutine("ztrmm", "trmm", "c64", TRUE),
      TriangularRoutine("strsm", "trsm", "f32", FALSE), TriangularRoutine("dtrsm", "trsm", "f64", FALSE),
      TriangularRoutine("ctrsm", "trsm", "c32", TRUE), TriangularRoutine("ztrsm", "trsm", "c64", TRUE)>>

TriangularShapes == SymmShapes
TriangularCheckedStatuses == {"checked-ok"}

TriangularTransposes(routine, requested) ==
    LET legal == IF routine.complex THEN <<"N", "T", "C">> ELSE <<"N", "T">>
    IN SelectSeq(Unique(OrElse(requested, legal)), LAMBDA t : t \in ToSet(legal))

\* A real routine without a real alpha has no case at all; nobody says so.
TriangularAlphas(routine, requested) ==
    IF requested = << >> THEN <<IF routine.complex THEN COMPLEX_ALPHA ELSE REAL_ALPHA>>
    ELSE IF routine.complex THEN requested ELSE SelectSeq(requested, IsReal)

TriangularRequestedCases(r) ==
    LET routines == Listed(TRIANGULAR_ROUTINES, "routine", r.routine)
    IN FlattenSeq([i \in DOMAIN routines |->
           Product(<< <<[routine |-> routines[i].routine, family |-> routines[i].family,
                         kind |-> routines[i].kind]>>,
                      OrElse(r.shape, TriangularShapes),
                      Alternatives("side", Unique(OrElse(r.side, <<"L", "R">>))),
                      Alternatives("uplo", Unique(OrElse(r.uplo, <<"U", "L">>))),
                      Alternatives("trans", TriangularTransposes(routines[i], r.trans)),
                      Alternatives("diag", Unique(OrElse(r.diag, <<"N", "U">>))),
                      Alternatives("alpha", TriangularAlphas(routines[i], r.alpha))>>)])

TriangularSchedule == AgreedSchedule(request.process, request.legacy)

TriangularErrorRow(case) == ErrorRow(case)

TriangularCompared ==
    {"level", "routine", "family", "kind", "library", "library_path", "shape", "m", "n", "side",
     "uplo", "trans", "diag", "alpha_re", "alpha_im", "order", "lda", "ldb", "reps", "flop_count",
     "metric", "check_samples"}
TriangularGroupKey ==
    {"routine", "family", "kind", "shape", "m", "n", "side", "uplo", "trans", "diag", "alpha_re",
     "alpha_im", "order", "lda", "ldb", "reps", "process_repeats", "metric"}

TriangularProbeRowMatches(reply) == reply.wrong \notin TriangularCompared

TriangularRunOneProcess(case, reply) ==
    IF reply.kind # "row" THEN TriangularErrorRow(case)
    ELSE IF TriangularProbeRowMatches(reply) THEN ProbeRow(case, reply, TriangularGroupKey)
    ELSE TriangularErrorRow(case)

TriangularValid(rows) == \A i \in DOMAIN rows :
    rows[i].status = "ok" =>
        ValidPerformance(rows[i], {"gflops", "value"}) /\ rows[i].times # "unusable"

TriangularAggregateRepeats(rows) == AggregateRates(rows, TriangularCheckedStatuses)

TriangularLibraries == Chosen(request.libraries, request.skip)

TriangularPrepare ==
    Prepare(IF WellFormed(request) THEN TriangularRequestedCases(request) ELSE << >>,
            TriangularLibraries, TriangularSchedule)
TriangularMeasure == Measure(TriangularSchedule, TriangularRunOneProcess, LAMBDA reply : FALSE)
TriangularFold    == Fold(TriangularSchedule, TriangularValid, TriangularAggregateRepeats)

TriangularNext ==
    /\ request.tool = "triangular"
    /\ TriangularPrepare \/ TriangularMeasure \/ TriangularFold \/ Finalize \/ Publish

TriangularFilters ==
    {"routine", "family", "kind", "shape", "m", "n", "side", "uplo", "trans", "diag", "alpha"}
TriangularCheckReport(rows, o) == CheckRates(rows, o, TriangularCheckedStatuses)

-----------------------------------------------------------------------------
(* bench/tools/run_rotg_latency_report.py and check_rotg_latency_report.py: a latency, *)
(* so the lower value is the better one.                                               *)

ROTG_CASES == <<"zero", "a_zero", "b_zero", "balanced", "a_dominant", "b_dominant",
                "tiny_exponent", "huge_exponent", "mixed_exponent">>
ROTMG_CASES == <<"flag_neg2_zero_p2", "flag_neg1_negative_d1", "flag_neg1_negative_q2",
                 "flag_zero_q1_dominant", "flag_one_q2_dominant", "flag_neg1_tiny_scale",
                 "flag_neg1_huge_scale">>

RotgRoutine(name, kind, modified) == [routine |-> name, kind |-> kind, modified |-> modified]
ROTG_ROUTINES ==
    <<RotgRoutine("srotg", "f32", FALSE), RotgRoutine("drotg", "f64", FALSE),
      RotgRoutine("crotg", "c32", FALSE), RotgRoutine("zrotg", "c64", FALSE),
      RotgRoutine("srotmg", "f32", TRUE), RotgRoutine("drotmg", "f64", TRUE)>>

RotgCheckedStatuses == {"sampled-ok", "checked-ok"}

RotgCasesForRoutine(routine) == IF routine.modified THEN ROTMG_CASES ELSE ROTG_CASES

\* A corpus case no selected routine has refuses the command line; one that only some
\* routine has leaves the others out.
RotgRequestedCases(r) ==
    LET routines  == Listed(ROTG_ROUTINES, "routine", r.routine)
        wanted    == Unique(r.case)
        supported == UNION {ToSet(RotgCasesForRoutine(routine)) : routine \in ToSet(routines)}
        compatible(routine) ==
            IF wanted = << >> THEN RotgCasesForRoutine(routine)
            ELSE SelectSeq(wanted, LAMBDA c : c \in ToSet(RotgCasesForRoutine(routine)))
    IN IF ~(ToSet(wanted) \subseteq supported) THEN << >>
       ELSE FlattenSeq([i \in DOMAIN routines |->
                Product(<< <<[routine |-> routines[i].routine, kind |-> routines[i].kind]>>,
                           Alternatives("case", compatible(routines[i]))>>)])

\* A probe that cannot be started ends the run.
RotgCannotStart(reply) == reply.kind = "oserror"

RotgErrorRow(case) == ErrorRow(case)

\* Nobody compares the size of the corpus, by which the checker groups.
RotgCompared ==
    {"level", "routine", "kind", "library", "library_path", "case", "samples", "calls_per_sample",
     "total_calls", "metric", "expected_flag"}
RotgGroupKey == {"routine", "kind", "case", "corpus_size", "samples", "calls_per_sample",
                 "process_repeats", "metric"}

RotgProbeRowMatches(reply) == reply.wrong \notin RotgCompared

RotgRunOneProcess(case, reply) ==
    IF reply.kind # "row" THEN RotgErrorRow(case)
    ELSE IF RotgProbeRowMatches(reply) THEN ProbeRow(case, reply, RotgGroupKey)
    ELSE RotgErrorRow(case)

\* "pairs" counts the samples in which the harness took longer than the call.
RotgRepeatRowEligible(row) ==
    row.status = "ok" /\ row.check \in RotgCheckedStatuses /\ Usable(row.value) /\ row.pairs = 0

RotgFailureStatus(rows) ==
    LET said == {rows[i].status : i \in DOMAIN rows} \cup {rows[i].check : i \in DOMAIN rows}
    IN IF "error" \in said THEN <<"error", "error">>
       ELSE IF "correctness_failed" \in said THEN <<"correctness_failed", "correctness_failed">>
       ELSE <<"timing_failed", "checked-ok">>

RotgValid(rows) == \A i \in DOMAIN rows :
    rows[i].status = "ok" => ValidPerformance(rows[i], {"value"}) /\ rows[i].times # "unusable"

RotgAggregateRepeats(rows) ==
    LET eligible == SelectSeq(rows, RotgRepeatRowEligible)
        base == IF eligible = << >> THEN rows[1] ELSE FirstMost(eligible, LAMBDA row : -row.value)
    IN Evidence(base, [i \in DOMAIN eligible |-> eligible[i].value], Len(rows),
                RotgFailureStatus(rows))

RotgLibraries == Chosen(request.libraries, request.skip)

RotgPrepare == Prepare(IF WellFormed(request) THEN RotgRequestedCases(request) ELSE << >>,
                       RotgLibraries, request.process)
RotgMeasure == Measure(request.process, RotgRunOneProcess, RotgCannotStart)
RotgFold    == Fold(request.process, RotgValid, RotgAggregateRepeats)

RotgNext == /\ request.tool = "rotg"
            /\ RotgPrepare \/ RotgMeasure \/ RotgFold \/ Finalize \/ Publish

-----------------------------------------------------------------------------
RotgFilters == {"routine", "kind", "case"}

RotgStatusOk(row) == row.status = "ok" /\ row.check \in RotgCheckedStatuses

RotgRowEligible(row) == /\ RotgStatusOk(row) /\ Usable(row.median)
                        /\ row.repeats > 0 /\ row.successful = row.repeats

RotgPasses(o, zynum, others) ==
    LET ratio == PositiveFiniteRatio(zynum.median, BestLower({row.median : row \in others}))
    IN IF ratio = 0 THEN "refused" ELSE IF ratio > o.ratio THEN "fails" ELSE "passes"

\* Every row of Zynum is judged before any comparison; rows of libraries that nobody
\* asked for are not looked at.
RotgCheckReport(rows, o) ==
    LET chosen == {i \in DOMAIN rows : /\ RowAllowed(o, rows[i])
                                       /\ rows[i].library \in o.comparators \cup {o.zynum}}
        used   == {i \in chosen : RotgRowEligible(rows[i])}
    IN IF \/ ~Usable(o.ratio)
          \/ \E i \in chosen \ used : rows[i].library = o.zynum \/ RotgStatusOk(rows[i])
          \/ Doubled(Keyed(rows), used)
       THEN 2
       ELSE Conclude(Rows(Keyed(rows), used), o, {}, LAMBDA z, others : RotgPasses(o, z, others))

-----------------------------------------------------------------------------
(* Any of the four. *)

Init == Start(Requests)

Next == SymmNext \/ RankKNext \/ TriangularNext \/ RotgNext \/ Drift \/ Ended

Spec == Init /\ [][Next]_vars

Filters == CASE request.tool = "symm"       -> SymmFilters
             [] request.tool = "rank_k"     -> RankKFilters
             [] request.tool = "triangular" -> TriangularFilters
             [] request.tool = "rotg"       -> RotgFilters

CheckReport(o) ==
    CASE request.tool = "symm"       -> SymmCheckReport(report, o)
      [] request.tool = "rank_k"     -> RankKCheckReport(report, o)
      [] request.tool = "triangular" -> TriangularCheckReport(report, o)
      [] request.tool = "rotg"       -> RotgCheckReport(report, o)

TypeOK ==
    /\ request \in Requests
    /\ phase \in {"prepare", "run", "finalize", "publish", "done"}
    /\ exit \in {Running, 0, 1, 2}
    /\ position \in 0 .. Len(selected) * Len(cases) * request.repeats
    /\ Len(ran) = position
    /\ drifted \in BOOLEAN
    /\ report # << >> => report = outputs

-----------------------------------------------------------------------------
\* What was really measured, told from the history alone.
Runs(l, c) == SelectSeq(ran, LAMBDA run : run.unit[1] = l /\ run.unit[2] = c)

Measured(run) == LET reply == run.reply IN
    /\ reply.kind = "row" /\ reply.status = "ok" /\ reply.value > 0
    /\ reply.wrong \notin {"routine"} \cup IF request.tool = "rank_k" THEN {} ELSE {"metric"}
    /\ reply.check = "checked-ok" \/ (request.tool \in {"rank_k", "rotg"} /\ reply.check = "sampled-ok")
    /\ IF request.tool = "rotg" THEN reply.pairs = 0 ELSE reply.times = "whole"

Medians(runs) == LET good == SelectSeq(runs, LAMBDA run : Measured(run))
                 IN [i \in DOMAIN good |-> good[i].reply.value]

At(l, c) == report[(l - 1) * Len(cases) + c]

\* A published report comes from unchanged artifacts and has one row per library and
\* case, each unit having run exactly once; success means that there is a report.
\* (run_controller: the schedule, the fold, finalize before publish.)
ReportIsWhole ==
    /\ exit = 0 => report # << >>
    /\ report # << >> =>
        /\ ~drifted
        /\ Len(report) = Len(selected) * Len(cases)
        /\ {ran[i].unit : i \in DOMAIN ran}
              = (DOMAIN selected) \X (DOMAIN cases) \X (1 .. request.repeats)
        /\ \A l \in DOMAIN selected, c \in DOMAIN cases :
              At(l, c).library = selected[l].label /\ At(l, c).case = cases[c]

\* Every row carries the medians of its own library and case, in repeat order and without
\* the failed ones, whatever the schedule; it says "ok" only if none failed, and then
\* counts them all.  (collect_repeats and aggregate_repeats.)
OwnSamples ==
    report # << >> =>
        \A l \in DOMAIN selected, c \in DOMAIN cases :
            LET runs == Runs(l, c)
                row  == At(l, c)
            IN /\ \A r \in DOMAIN runs : runs[r].unit[3] = r
               /\ row.samples = Medians(runs)
               /\ row.successful = Len(row.samples) /\ row.repeats = Len(runs)
               /\ (row.status = "ok") <=> \A r \in DOMAIN runs : Measured(runs[r])

\* Under the interleaved schedule every library runs equally often at every place among
\* the libraries of a case, so that drift of the machine hits them all alike.
\* (repeat_library_order.)
Place(i) == Cardinality({j \in 1 .. i : /\ ran[j].unit[2] = ran[i].unit[2]
                                        /\ ran[j].unit[3] = ran[i].unit[3]})
Interleaved ==
    "interleaved" = IF request.tool = "rotg" THEN request.process
                    ELSE AgreedSchedule(request.process, request.legacy)
Balanced ==
    (phase = "finalize" /\ Interleaved) =>
        \A l \in DOMAIN selected, p \in DOMAIN selected, c \in DOMAIN cases :
            Cardinality({i \in DOMAIN ran : /\ ran[i].unit[1] = l /\ ran[i].unit[2] = c
                                            /\ Place(i) = p}) * Len(selected) = request.repeats

-----------------------------------------------------------------------------
\* The units that take part in a comparison: fully measured, with their medians.
Whole(l, c) == \A r \in DOMAIN Runs(l, c) : Measured(Runs(l, c)[r])

Rank(o, row) == CASE o.stat = "best" -> 2 * row.most
                  [] o.stat = "min"  -> 2 * row.least
                  [] OTHER           -> row.median

\* z is to row at least what was asked for.
Keeps(o, z, row) ==
    IF request.tool = "rotg" THEN z.median * Scale <= o.ratio * row.median
    ELSE IF o.stat = "paired-median"
    THEN 2 * Cardinality({i \in DOMAIN z.samples : z.samples[i] * Scale >= o.ratio * row.samples[i]})
            >= Len(z.samples)
    ELSE Rank(o, z) * Scale >= o.ratio * Rank(o, row)

Labels(labels) == {l \in DOMAIN selected : selected[l].label \in labels}

\* The group of a row: what was asked for, and what nobody compared with the question.
Group(l, c) == <<cases[c], At(l, c).extra>>

\* A checker that passes without --allow-unchecked has found every case of its filter fully
\* measured for the library it is about and no group of it twice; for each comparator's row
\* that was fully measured that library has a row of the same group that is no slower, by the
\* ratio asked for; some rows were compared, and without --allow-missing-comparators every
\* group was.  (check_*_report.main.)
PassIsEarned ==
    (phase = "done" /\ report # << >>) =>
        \A o \in {p \in Options : ~p.unchecked /\ DOMAIN p.filter \subseteq Filters} :
            CheckReport(o) = 0 =>
                LET inside == {c \in DOMAIN cases : RowAllowed(o, At(1, c))}
                    rivals == {unit \in Labels(o.comparators) \X inside : Whole(unit[1], unit[2])}
                IN \E z \in Labels({o.zynum}) :
                    /\ \A c \in inside : Whole(z, c)
                    /\ \A c, d \in inside : Group(z, c) = Group(z, d) => c = d
                    /\ rivals # {}
                    /\ \A unit \in rivals : \E c \in inside :
                          /\ Group(unit[1], unit[2]) = Group(z, c)
                          /\ Keeps(o, At(z, c), At(unit[1], unit[2]))
                    /\ ~o.missingOk =>
                          \A c \in inside : \E unit \in rivals : Group(unit[1], unit[2]) = Group(z, c)
=============================================================================
