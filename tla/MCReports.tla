------------------------------ MODULE MCReports ------------------------------
(***************************************************************************)
(* The benchmark runners with their checkers, the full report, the Windows *)
(* runner with its plotter, and the checks inside the probes, each on a    *)
(* small instance: a set of command lines, or of directories, and a set of *)
(* answers a process may give.  Vectors are of one or three elements,      *)
(* matrices of order two or three.                                         *)
(***************************************************************************)
EXTENDS Integers, Sequences, FiniteSets, SequencesExt, TLC

CONSTANTS Components,            \* the components to look at
          Scale,            \* a multiple of every measured value and doubled median
          Blank,            \* an empty cell
          Nothing, Torn

VARIABLES part,  \* the component this behaviour is about, and the variables of each:
          request, exit,
          phase,
          cases, selected, samples, drifted, outputs,
          position, report,
          ran,
          files,
          preflight,
          inputs, listing, accepted, recognized, ignored, opened, changes,
          disk, job, unit, collected, folded, records, artifact, returned, before,
          reading, seen, chart,
          case, strays, result,
          memory, snapshot, answer,
          operands, expected, actual

vars == <<part, request, exit, phase, cases, selected, samples, drifted, outputs,
          position, report, ran, files, preflight, inputs, listing, accepted,
          recognized, ignored, opened, changes, disk, job, unit, collected, folded,
          records, artifact, returned, before, reading, seen, chart, case, strays,
          result, memory, snapshot, answer, operands, expected, actual>>

-----------------------------------------------------------------------------
(* SYMM, rank-k, triangular and ROTG: one or two cases, two or three libraries; every answer *)
(* but the usual one is wrong in one respect.                                                *)
Row(status, check, value) ==
    [kind |-> "row", wrong |-> "nothing", status |-> status, check |-> check, gflops |-> value,
     value |-> value, times |-> "whole", pairs |-> 0]
Good(value) == Row("ok", "checked-ok", value)

StructuredReplies ==
    {Good(1), Good(2), Good(0), [Good(1) EXCEPT !.gflops = 3], Row("ok", "sampled-ok", 2),
     Row("correctness_failed", "correctness_failed", 2), [Good(2) EXCEPT !.times = "fraction"],
     [Good(1) EXCEPT !.pairs = 1], [Good(1) EXCEPT !.status = "timing_failed", !.pairs = 1],
     [Good(2) EXCEPT !.wrong = "routine"], [Good(2) EXCEPT !.wrong = "metric"],
     [Good(2) EXCEPT !.wrong = "corpus_size"], [kind |-> "oserror"], [kind |-> "none"]}

Zynum == [label |-> "Zynum", there |-> TRUE]
Other(label) == [label |-> label, there |-> TRUE]
Two == <<Zynum, Other("OpenBLAS")>>

Plain(tool, routine) ==
    [tool |-> tool, probe |-> TRUE, libraries |-> Two, skip |-> FALSE, reps |-> 1, repeats |-> 2,
     process |-> "library-major", legacy |-> "none", routine |-> <<routine>>,
     shape |-> << IF tool = "rank_k" THEN [shape |-> "one", n |-> 2, k |-> 3]
                  ELSE [shape |-> "one", m |-> 2, n |-> 3] >>,
     side |-> <<"L">>, uplo |-> <<"U">>, trans |-> <<"N">>, diag |-> <<"N">>, alpha |-> << >>,
     beta |-> << >>, case |-> << >>]

StructuredBase ==
    {[Plain("symm", "dsymm") EXCEPT !.process = "none"], Plain("rank_k", "dsyrk"),
     Plain("triangular", "dtrmm"), [Plain("rotg", "drotg") EXCEPT !.case = <<"zero">>]}

\* Two cases for each tool.
Complex == <<1, 1>>
Real    == <<2, 0>>
Pairs ==
    {[Plain("symm", "dsymm") EXCEPT !.side = <<"R", "L", "R">>],
     [Plain("rank_k", "dsyrk") EXCEPT !.trans = <<"C", "T", "N">>],
     [Plain("triangular", "ztrsm") EXCEPT !.diag = <<"N", "U">>],
     [Plain("rotg", "drotg") EXCEPT !.case = <<"zero", "balanced", "zero">>]}

\* One of the defaults, or a choice that only some routine has, measured once.
Narrow ==
    {[Plain("symm", "zhemm") EXCEPT !.shape = << >>], [Plain("symm", "dsymm") EXCEPT !.alpha = <<Complex, Real>>],
     [Plain("symm", "dsymm") EXCEPT !.routine = <<"dsymm", "zhemm">>, !.beta = <<Complex>>],
     [Plain("rank_k", "zher2k") EXCEPT !.trans = << >>, !.alpha = <<Complex>>],
     [Plain("rank_k", "zher2k") EXCEPT !.routine = <<"zher2k", "zsyrk">>, !.beta = <<Complex>>],
     [Plain("triangular", "dtrmm") EXCEPT !.routine = <<"dtrmm", "ctrsm">>, !.alpha = <<Complex>>],
     [Plain("triangular", "ztrmm") EXCEPT !.trans = << >>],
     [Plain("rotg", "drotg") EXCEPT !.routine = <<"srotg", "drotmg">>,
                                    !.case = <<"flag_zero_q1_dominant", "zero">>]}

StructuredRequests ==
    StructuredBase
    \cup {[r EXCEPT !.process = "interleaved"] :
              r \in StructuredBase \cup {pair \in Pairs : pair.tool = "rotg"}}
    \cup {[r EXCEPT !.repeats = 1] : r \in Pairs \cup Narrow}
    \* refused, or doubled
    \cup UNION {{[r EXCEPT !.probe = FALSE], [r EXCEPT !.repeats = 1, !.process = "interleaved"],
                 [r EXCEPT !.libraries = <<Zynum, Other("libzynum")>>],
                 [r EXCEPT !.libraries[2].there = FALSE],
                 [r EXCEPT !.libraries[1].there = FALSE, !.skip = TRUE],
                 [r EXCEPT !.legacy = "interleaved"], [r EXCEPT !.reps = 0],
                 [r EXCEPT !.shape[1].n = 0],
                 [r EXCEPT !.alpha = <<Complex>>],
                 [r EXCEPT !.case = <<"flag_zero_q1_dominant">>],
                 [r EXCEPT !.repeats = 1, !.shape = @ \o @]} : r \in StructuredBase}
    \* a missing comparator is left out; three libraries
    \cup {[r EXCEPT !.libraries = Two \o <<[label |-> "MKL", there |-> there]>>,
                    !.skip = TRUE, !.repeats = 1] : r \in StructuredBase, there \in BOOLEAN}

Ask(stat) ==
    [stat |-> stat, unchecked |-> FALSE, missingOk |-> FALSE, comparators |-> {"OpenBLAS", "MKL"},
     zynum |-> "Zynum", ratio |-> Scale, filter |-> << >>]

StructuredOptions ==
    {[Ask(stat) EXCEPT !.missingOk = missingOk, !.comparators = comparators] :
        stat \in {"median", "best", "min", "paired-median"}, missingOk \in BOOLEAN,
        comparators \in {{"OpenBLAS"}, {"OpenBLAS", "MKL"}}}
    \cup UNION {{[Ask(stat) EXCEPT !.ratio = 2 * Scale], [Ask(stat) EXCEPT !.ratio = Scale \div 2],
                 [Ask(stat) EXCEPT !.ratio = 0],
                 [Ask(stat) EXCEPT !.zynum = "OpenBLAS", !.comparators = {"Zynum"}]} :
                   stat \in {"median", "paired-median"}}
    \cup {[Ask("median") EXCEPT !.filter = filter] :
             filter \in {"side" :> {"L"}, "trans" :> {"N"}, "diag" :> {"N"}, "case" :> {"zero"},
                         "alpha" :> {Real}, "routine" :> {"dsymm", "zsyrk", "ctrsm", "srotg"}}}

(* GEMM sweeps of one or two kernels, in one process or isolated. *)
Kernel(time) == [gflops |-> Scale \div time, best |-> time, median |-> time, p95 |-> time,
                 most |-> 2 * time]
Csv(first, rest) == [kind |-> "csv", first |-> first, rest |-> rest, check |-> "checked-ok"]
GemmReplies ==
    {Csv(Kernel(1), Kernel(2)), Csv(Kernel(2), Kernel(1)),
     Csv([Kernel(1) EXCEPT !.gflops = 0], Kernel(2)), Csv([Kernel(1) EXCEPT !.best = 0], Kernel(2)),
     Csv([Kernel(2) EXCEPT !.median = Blank, !.most = Blank], Kernel(1)),
     [Csv(Kernel(2), Kernel(2)) EXCEPT !.check = "sampled-ok"]}
    \cup {[Csv(Kernel(1), Kernel(1)) EXCEPT !.kind = kind] :
             kind \in {"short", "doubled", "nofile", "oserror", "exit"}}

Block(label, m) == [label |-> label, m |-> m, n |-> 2, k |-> 3, reads |-> TRUE]
GemmBase ==
    [probe |-> TRUE, libraries |-> Two, skip |-> FALSE, repeats |-> 2,
     process |-> "library-major", kind |-> <<"zgemm">>, trans |-> << <<"N", "N">>, <<"C", "N">> >>,
     shape |-> <<Block("one", 1)>>, isolateKind |-> FALSE, isolateShape |-> FALSE, check |-> TRUE]

GemmRequests ==
    {GemmBase, [GemmBase EXCEPT !.process = "interleaved"], [GemmBase EXCEPT !.check = FALSE],
     [GemmBase EXCEPT !.kind = <<"dgemm">>], [GemmBase EXCEPT !.trans = @ \o @],
     [GemmBase EXCEPT !.trans = << >>, !.shape = << >>, !.isolateShape = TRUE],
     [GemmBase EXCEPT !.trans = << >>, !.shape = @ \o @, !.isolateShape = TRUE],
     [GemmBase EXCEPT !.kind = << >>, !.repeats = 1, !.isolateKind = TRUE],
     [GemmBase EXCEPT !.kind = << >>, !.repeats = 1, !.shape = << >>],
     [GemmBase EXCEPT !.repeats = 1, !.process = "interleaved"],
     [GemmBase EXCEPT !.repeats = 1, !.check = FALSE],
     \* a shape that is no shape, which is found out at the end when no kernel has it
     [GemmBase EXCEPT !.shape[1].reads = FALSE],
     [GemmBase EXCEPT !.shape[1].reads = FALSE, !.kind = <<"sgemm">>, !.trans = << <<"N", "C">> >>],
     [GemmBase EXCEPT !.libraries[2].there = FALSE],
     [GemmBase EXCEPT !.libraries[1].there = FALSE, !.skip = TRUE],
     [GemmBase EXCEPT !.libraries = <<Two[1], Other("libzynum")>>],
     [GemmBase EXCEPT !.libraries = Two \o <<[label |-> "MKL", there |-> FALSE]>>, !.skip = TRUE]}

GemmOptions ==
    {[Ask(stat) EXCEPT !.unchecked = unchecked, !.missingOk = missingOk, !.comparators = {library}] :
        stat \in {"best", "median", "min"}, unchecked \in BOOLEAN, missingOk \in BOOLEAN,
        library \in {"OpenBLAS", "MKL"}}
    \cup {[Ask("best") EXCEPT !.zynum = zynum, !.ratio = ratio, !.comparators = {"Zynum", "OpenBLAS"}] :
        zynum \in {"Zynum", "OpenBLAS"}, ratio \in {0, Scale \div 2, 2 * Scale}}
    \cup {[Ask("median") EXCEPT !.filter = filter] :
        filter \in {"kind" :> {"zgemm"}, "trans" :> { <<"C", "N">> }, "label" :> {"one"}}}

(* Level 1: one or two cases and two libraries; one command line for no case at all. *)
Level1Reply(value, symbol) == [kind |-> "row", value |-> value, symbol |-> symbol]
Level1Replies ==
    {Level1Reply(v, "fortran") : v \in 0 .. 2} \cup
    {Level1Reply(2, "cblas"), [kind |-> "exit", symbol |-> "missing"],
     [kind |-> "exit", symbol |-> "other"], [kind |-> "oserror"], [kind |-> "garbage"]}

Level1Base ==
    [probe |-> TRUE, libraries |-> Two, skip |-> FALSE, repeats |-> 2,
     process |-> "library-major", group |-> "any", op |-> "any", n |-> 1, sizes |-> << >>,
     inc |-> << >>, incx |-> << >>, incy |-> << >>, copyOnly |-> FALSE, skipCopy |-> TRUE]

Copies == [Level1Base EXCEPT !.copyOnly = TRUE, !.skipCopy = FALSE]
Axpby  == [Level1Base EXCEPT !.op = "daxpby"]
Rotm   == [Level1Base EXCEPT !.op = "drotm", !.repeats = 1]

Level1Requests ==
    {Copies, Axpby, Rotm,
     [Copies EXCEPT !.sizes = <<3, 2, 3>>, !.repeats = 1],
     [Axpby EXCEPT !.process = "interleaved", !.incx = <<1, 2>>],
     [Axpby EXCEPT !.incx = <<1, 1>>, !.incy = <<2>>, !.repeats = 1],
     [Rotm EXCEPT !.process = "interleaved", !.repeats = 2],
     \* the vector COPY of one element and the copy of its size are one group
     [Level1Base EXCEPT !.op = "dcopy", !.skipCopy = FALSE, !.sizes = <<3, 2>>,
                        !.inc = <<-1>>, !.repeats = 1],
     [Level1Base EXCEPT !.op = "dcopy", !.incx = <<1, -1>>, !.incy = <<-1>>, !.repeats = 1],
     \* nothing to do; refused; a comparator left out or missed
     [Axpby EXCEPT !.inc = <<-1>>],
     [Axpby EXCEPT !.probe = FALSE], [Axpby EXCEPT !.inc = <<2>>, !.incx = <<2>>],
     [Axpby EXCEPT !.process = "interleaved", !.repeats = 1],
     [Axpby EXCEPT !.libraries[2] = Other("libzynum")],
     [Axpby EXCEPT !.libraries[2].there = FALSE],
     [Axpby EXCEPT !.libraries[2].there = FALSE, !.skip = TRUE],
     [Axpby EXCEPT !.libraries[1].there = FALSE, !.skip = TRUE]}

Level1Options ==
    [stat : {"best", "median", "min"}, expected : {0, 2}, group : {"any"}, op : {"any"},
     negativeOnly : BOOLEAN, missingOk : BOOLEAN, unchecked : BOOLEAN,
     comparators : {{"OpenBLAS"}, {"MKL"}}, zynum : {"Zynum"}, ratio : {Scale}]
    \cup [stat : {"best"}, expected : {0}, group : {"any"}, op : {"any"}, negativeOnly : {FALSE},
          missingOk : {FALSE}, unchecked : {FALSE}, comparators : {{"Zynum", "OpenBLAS"}},
          zynum : {"Zynum", "OpenBLAS"}, ratio : {0, Scale \div 2, 2 * Scale}]

-----------------------------------------------------------------------------
(* Level 2: one or two jobs and two libraries; some command lines with no job at all. *)
Level2Reply(value, first) == [kind |-> "rows", value |-> value, first |-> first]
Level2Replies ==
    {Level2Reply(v, "right") : v \in 0 .. 2} \cup
    {Level2Reply(2, "failed"), Level2Reply(1, "lost"), Level2Reply(1, "twice"),
     [kind |-> "exit", code |-> 1], [kind |-> "exit", code |-> 3], [kind |-> "oserror"]}

Level2Base ==
    [libraries |-> Two, skip |-> FALSE, repeats |-> 2,
     process |-> "none", interleave |-> FALSE, op |-> << >>, shape |-> << >>,
     packed |-> << >>, band |-> << >>]

Shape(name, m, n) == [name |-> name, m |-> m, n |-> n, bandwidth |-> -1]
Wide == Shape("wide", 2, 3)
Sq3  == Shape("sq3", 3, 3)
Band(bandwidth) == [name |-> "b", m |-> 3, n |-> 3, bandwidth |-> bandwidth]

Level2Requests ==
    {Level2Base,
     [Level2Base EXCEPT !.op = <<"zgeru", "dtrmv">>, !.interleave = TRUE],
     [Level2Base EXCEPT !.op = <<"all">>, !.repeats = 1],
     [Level2Base EXCEPT !.op = <<"legacy">>, !.shape = <<Wide, Sq3>>, !.repeats = 1],
     [Level2Base EXCEPT !.op = <<"compact">>, !.repeats = 1],
     [Level2Base EXCEPT !.op = <<"dgbmv">>, !.band = <<Band(0), Band(1), Band(0)>>, !.repeats = 1],
     [Level2Base EXCEPT !.op = <<"dtrmv">>, !.shape = <<Sq3, Shape("big", 3, 3)>>,
                        !.process = "interleaved"],
     [Level2Base EXCEPT !.op = <<"dspmv", "zhemv">>, !.shape = <<Wide, Sq3>>, !.repeats = 1],
     \* a shape twice; nothing to do
     [Level2Base EXCEPT !.op = <<"dspmv">>, !.shape = <<Sq3, Sq3>>, !.repeats = 1],
     [Level2Base EXCEPT !.op = <<"dtrmv">>, !.shape = <<Wide>>],
     \* refused; a comparator left out or missed
     [Level2Base EXCEPT !.interleave = TRUE, !.process = "library-major"],
     [Level2Base EXCEPT !.interleave = TRUE, !.repeats = 1],
     [Level2Base EXCEPT !.libraries[2] = Other("libzynum")],
     [Level2Base EXCEPT !.libraries[2].there = FALSE],
     [Level2Base EXCEPT !.libraries[2].there = FALSE, !.skip = TRUE],
     [Level2Base EXCEPT !.libraries[1].there = FALSE, !.skip = TRUE]}

Level2Options ==
    [stat : {"best", "median", "min"}, case : {"any", "dtrmv"}, missingOk : BOOLEAN,
     unchecked : BOOLEAN, comparators : {{"OpenBLAS"}, {"MKL"}}, zynum : {"Zynum"}, ratio : {Scale}]
    \cup [stat : {"best"}, case : {"any"}, missingOk : {FALSE}, unchecked : {FALSE},
          comparators : {{"Zynum", "OpenBLAS"}}, zynum : {"Zynum", "OpenBLAS"},
          ratio : {0, Scale \div 2, 2 * Scale}]

-----------------------------------------------------------------------------
(* The full report: what the runners write, and rows that say something else. *)
\* The names of libraries, in text order, and what is left of them when they are folded.
Names == <<"AOCL", "MKL", "OpenBLAS", "Zynum", "libzynum", "zynum-blas">>
TextOrder == [name \in ToSet(Names) |-> CHOOSE i \in DOMAIN Names : Names[i] = name]
Folded == [name \in ToSet(Names) |->
              CASE name = "zynum-blas" -> "zynumblas" [] name = "Zynum" -> "zynum" [] OTHER -> name]

Columns == INSTANCE FullReport WITH Requests <- {}, Versions <- {}, MaxChanges <- 0

Producers == {"symm-hemm", "rank-k", "trmm-trsm", "scalar-latency", "level1", "level2", "gemm"}

FieldsOf(producer) ==
    CASE producer = "symm-hemm"      -> Columns!SYMM_FIELDS
      [] producer = "rank-k"         -> Columns!RANK_K_FIELDS
      [] producer = "trmm-trsm"      -> Columns!TRIANGULAR_FIELDS
      [] producer = "scalar-latency" -> Columns!ROTG_FIELDS
      [] producer = "level1"         -> Columns!LEVEL1_FIELDS
      [] producer = "level2"         -> Columns!LEVEL2_FIELDS
      [] producer = "gemm"           -> Columns!GEMM_FIELDS

\* The columns in which two cases of one run can differ.
Scalars == {"alpha_re", "alpha_im", "beta_re", "beta_im"}
Parameters(producer) ==
    CASE producer = "symm-hemm"      -> Scalars \cup {"routine", "shape", "side", "uplo"}
      [] producer = "rank-k"         -> Scalars \cup {"routine", "shape", "uplo", "trans"}
      [] producer = "trmm-trsm"      ->
             {"routine", "shape", "side", "uplo", "trans", "diag", "alpha_re", "alpha_im"}
      [] producer = "scalar-latency" -> {"routine", "case"}
      [] producer = "level1"         -> {"group", "op", "variant", "incx", "incy", "n"}
      [] producer = "level2"         -> {"case", "shape", "n", "k", "kl", "ku"}
      [] producer = "gemm"           -> {"kind", "transa", "transb", "label"}

Rate(producer) ==
    CASE producer \in {"level1", "level2"} -> "rate_gops"
      [] producer = "scalar-latency"       -> "median_ns_per_call"
      [] OTHER                             -> "gflops"

\* A row of two repeats, with the columns that the report looks at and the runner has.
Evidence(producer, library, field, which, value) ==
    LET row == [library |-> library, status |-> "ok", check_status |-> "sampled-ok",
                check |-> "sampled-ok", process_repeats |-> 2, successful_repeats |-> 2,
                metric_min |-> value, metric_median |-> value, metric_samples |-> <<value, value>>,
                m |-> 1, n |-> 2, k |-> 3, median_ns |-> 24 \div value]
               @@ (Rate(producer) :> value)
        said == {"library", "status", "check_status", "check", "process_repeats", "metric_min",
                 "successful_repeats", "metric_median", "metric_samples", Rate(producer)}
                \cup IF producer = "gemm" THEN {"m", "n", "k", "median_ns"} ELSE {}
    IN (field :> IF field = "kind" THEN <<"dgemm", "zgemm">>[which] ELSE <<"one", "two", "three">>[which])
       @@ [f \in said \cap FieldsOf(producer) |-> row[f]]

File(producer, rows) ==
    [producer |-> producer, fields |-> FieldsOf(producer), rows |-> rows, fails |-> "never"]

\* What a runner writes for two cases that differ in one parameter.
RunnersFile(producer, field) ==
    LET said(library, which, value) == Evidence(producer, library, field, which, value)
    IN File(producer, <<said("Zynum", 1, 12), said("MKL", 1, 6),
                        said("Zynum", 2, 6), said("MKL", 2, 12)>>)

Deviations(row, rate) ==
    {row, [row EXCEPT !.status = "error"], [row EXCEPT !.check_status = Blank],
     [row EXCEPT !.check_status = "failed"], row @@ ("check" :> "failed"), row @@ ("check" :> "ok"),
     [row EXCEPT ![rate] = 0], [row EXCEPT ![rate] = 4, !.metric_median = Blank],
     [row EXCEPT !.metric_median = 0], [row EXCEPT !.metric_samples = <<12, 0>>],
     row @@ ("p95_ns" :> 0), [row EXCEPT !.library = Blank],
     [row EXCEPT !.process_repeats = 3], [row EXCEPT !.successful_repeats = Blank],
     [row EXCEPT !.metric_samples = <<12>>], [row EXCEPT !.metric_samples = Blank],
     [row EXCEPT !.process_repeats = 0],
     [row EXCEPT !.process_repeats = 3, !.successful_repeats = 3, !.metric_samples = <<12, 12, 12>>],
     [row EXCEPT !.process_repeats = Blank, !.successful_repeats = Blank, !.metric_samples = Blank]}

\* Two files of one family; one row of the second is of another library or spelling, or
\* says something else.
TwoFiles(producer, field) ==
    {<<File(producer, <<Evidence(producer, "Zynum", field, 1, 12),
                        Evidence(producer, "MKL", field, 1, 6)>>), File(producer, <<row>>)>> :
        row \in UNION {Deviations(Evidence(producer, library, field, which, 12), Rate(producer)) :
                          library \in {"MKL", "OpenBLAS", "zynum-blas"}, which \in {1, 2}}}

Unknown == [producer |-> "other", fields |-> {"category", "case_id"}, rows |-> << >>,
            fails |-> "never"]

Directory(entries, comparators, repeats) ==
    [directory |-> entries, comparators |-> comparators, expected |-> repeats]

RightRequests ==
    UNION {{Directory(<<RunnersFile(p, f), Unknown>>, << >>, Blank) : f \in Parameters(p)} :
               p \in Producers}

\* Two comparators that are equally fast, one asked for twice; libraries that were not
\* measured in every case; a request that is refused; a
\* file that cannot be read, or not to its end.
OddRequests ==
    LET file == RunnersFile("symm-hemm", "side")
        gaps == File("rank-k", [i \in 1 .. 6 |->
                    Evidence("rank-k", <<"Zynum", "MKL", "OpenBLAS", "AOCL">>[((i - 1) % 4) + 1], "trans",
                             ((i - 1) % 3) + 1, 12)])
        tie  == File("symm-hemm", file.rows \o <<Evidence("symm-hemm", "AOCL", "side", 1, 6)>>)
    IN {Directory(<<tie>>, << >>, 2), Directory(<<tie>>, <<"MKL", "MKL", "libzynum">>, 2),
        Directory(<<gaps>>, << >>, Blank), Directory(Blank, << >>, Blank), Directory(<<file>>, << >>, 0)}
       \cup {Directory(<<[file EXCEPT !.fails = fails], RunnersFile("rank-k", "trans")>>, << >>, 2) :
                fails \in {"open", "header", "rows"}}

FullRequests ==
    RightRequests \cup OddRequests \cup
    {Directory(d, c, e) :
        d \in TwoFiles("symm-hemm", "side") \cup TwoFiles("level1", "op")
              \cup TwoFiles("scalar-latency", "case"),
        c \in {<< >>, <<"MKL">>, <<"MKL", "OpenBLAS">>}, e \in {Blank, 2}}

FullVersions == {File("symm-hemm", <<Evidence("symm-hemm", "OpenBLAS", "side", 1, 12)>>)}

(* The Windows runner: a local run, a comparison, and one whose MKL is not there. *)
Campaign(mode, profile, libraries, unavailable, families, repeats) ==
    [mode |-> mode, profile |-> profile, libraries |-> libraries, unavailable |-> unavailable,
     families |-> families, repeats |-> repeats]

TwoLibraries == <<"Zynum", "MKL">>

WindowsRequests ==
    {Campaign("local", "full", <<"Zynum">>, {}, {"level2", "gemm"}, 3),
     Campaign("local", "full", <<"Zynum">>, {}, {"gemm"}, 4),
     Campaign("local", "full", <<"Zynum">>, {}, {"rotg"}, 3),
     Campaign("comparison", "readme", TwoLibraries, {}, {"level2"}, 3),
     Campaign("comparison", "readme", TwoLibraries, {}, {"gemm"}, 4),
     Campaign("comparison", "full", TwoLibraries, {}, {"level2"}, 3),
     Campaign("comparison", "readme", TwoLibraries, {"MKL"}, {"gemm"}, 3)}

-----------------------------------------------------------------------------
S == INSTANCE StructuredReports WITH
       Requests <- StructuredRequests, Options <- StructuredOptions,
       Replies <- StructuredReplies, Usual <- Good(1), MaxUnusual <- 2
G == INSTANCE GemmReport WITH
       Requests <- GemmRequests, Options <- GemmOptions,
       Replies <- GemmReplies, Usual <- Csv(Kernel(1), Kernel(2)), MaxUnusual <- 2,
       DefaultShapes <- <<Block("one", 1), Block("two", 2)>>
A == INSTANCE Level1Report WITH
       Requests <- Level1Requests, Options <- Level1Options,
       Replies <- Level1Replies, Usual <- Level1Reply(1, "fortran"), MaxUnusual <- 2
B == INSTANCE Level2Report WITH
       Requests <- Level2Requests, Options <- Level2Options,
       Replies <- Level2Replies, Usual <- Level2Reply(1, "right"), MaxUnusual <- 2
F == INSTANCE FullReport WITH
       Requests <- FullRequests, Versions <- FullVersions, MaxChanges <- 1
W == INSTANCE WindowsBenchmark WITH
       Requests <- WindowsRequests, MaxUnusual <- 1, MaxDrift <- 1
V == INSTANCE VectorCheck WITH
       Counts <- {1, 3}, Strides <- {-2, -1, 1, 2}, GuardElements <- 1, MaxStray <- 2
C == INSTANCE Level2Check WITH
       Sizes <- {2, 3}, Bandwidths <- {0, 1, 2}, MaxStray <- 2

\* A component is chosen at the start and goes on alone; the variables it does not have
\* keep one value.
Unused == "unused"

Init ==
    /\ part \in Components
    /\ \/ part = "structured" /\ S!Init
       \/ part = "gemm" /\ G!Init
       \/ part = "level1" /\ A!Init
       \/ part = "level2" /\ B!Init
       \/ part = "full" /\ F!Init
       \/ part = "windows" /\ W!Init
       \/ part = "vector" /\ V!Init
       \/ part = "level2check" /\ C!Init
    /\ part \notin {"structured", "gemm", "level1", "level2", "full", "windows"} =>
         /\ request = Unused /\ exit = Unused
    /\ part \notin {"structured", "gemm", "level1", "level2"} =>
         /\ cases = Unused /\ selected = Unused /\ samples = Unused
         /\ drifted = Unused /\ outputs = Unused
    /\ part \notin {"structured", "gemm", "level1", "level2", "full"} =>
         /\ position = Unused /\ report = Unused
    /\ part \notin {"structured", "gemm", "level1", "level2", "windows"} => ran = Unused
    /\ part # "gemm" => files = Unused
    /\ part # "level1" => preflight = Unused
    /\ part # "full" =>
         /\ inputs = Unused /\ listing = Unused /\ accepted = Unused
         /\ recognized = Unused /\ ignored = Unused /\ opened = Unused
         /\ changes = Unused
    /\ part # "windows" =>
         /\ disk = Unused /\ job = Unused /\ unit = Unused /\ collected = Unused
         /\ folded = Unused /\ records = Unused /\ artifact = Unused
         /\ returned = Unused /\ before = Unused /\ reading = Unused
         /\ seen = Unused /\ chart = Unused
    /\ part \notin {"vector", "level2check"} =>
         /\ case = Unused /\ strays = Unused /\ result = Unused
    /\ part # "vector" =>
         /\ memory = Unused /\ snapshot = Unused /\ answer = Unused
    /\ part # "level2check" =>
         /\ operands = Unused /\ expected = Unused /\ actual = Unused

TheRestStays ==
    /\ part \notin {"structured", "gemm", "level1", "level2", "full", "windows"} =>
         UNCHANGED <<request, exit>>
    /\ part \notin {"structured", "gemm", "level1", "level2"} =>
         UNCHANGED <<cases, selected, samples, drifted, outputs>>
    /\ part \notin {"structured", "gemm", "level1", "level2", "full"} =>
         UNCHANGED <<position, report>>
    /\ part \notin {"structured", "gemm", "level1", "level2", "windows"} => UNCHANGED ran
    /\ part # "gemm" => UNCHANGED files
    /\ part # "level1" => UNCHANGED preflight
    /\ part # "full" =>
         UNCHANGED <<inputs, listing, accepted, recognized, ignored, opened, changes>>
    /\ part # "windows" =>
         UNCHANGED <<disk, job, unit, collected, folded, records, artifact,
                    returned, before, reading, seen, chart>>
    /\ part \notin {"vector", "level2check"} =>
         UNCHANGED <<case, strays, result>>
    /\ part # "vector" =>
         UNCHANGED <<memory, snapshot, answer>>
    /\ part # "level2check" =>
         UNCHANGED <<operands, expected, actual>>
    /\ UNCHANGED part

StructuredStep == part = "structured" /\ S!Next /\ TheRestStays
GemmStep == part = "gemm" /\ G!Next /\ TheRestStays
Level1Step == part = "level1" /\ A!Next /\ TheRestStays
Level2Step == part = "level2" /\ B!Next /\ TheRestStays
FullStep == part = "full" /\ F!Next /\ TheRestStays
WindowsStep == part = "windows" /\ W!Next /\ TheRestStays
VectorStep == part = "vector" /\ V!Next /\ TheRestStays
LevelTwoCheckStep == part = "level2check" /\ C!Next /\ TheRestStays

Next ==
    \/ StructuredStep
    \/ GemmStep
    \/ Level1Step
    \/ Level2Step
    \/ FullStep
    \/ WindowsStep
    \/ VectorStep
    \/ LevelTwoCheckStep

Spec == Init /\ [][Next]_vars

-----------------------------------------------------------------------------
ASSUME S!ScaleAssumption

\* Every component keeps to its own types and bookkeeping.
TypeOK ==
    CASE part = "structured"  -> S!TypeOK [] part = "gemm"        -> G!TypeOK
      [] part = "level1"      -> A!TypeOK [] part = "level2"      -> B!TypeOK
      [] part = "full"        -> F!TypeOK [] part = "windows"     -> W!TypeOK
      [] part = "vector"      -> V!TypeOK [] part = "level2check" -> C!TypeOK

\* A directory of these runners' own files is not refused, however little its cases
\* differ, and each file is read under its own family.
ReadsRight(producers) ==
    part = "full" /\ phase = "done" /\ changes = 0 /\ listing # << >> =>
        (request \in RightRequests /\ request.directory[1].producer \in producers =>
            /\ \A k \in DOMAIN recognized :
                   recognized[k][2] = request.directory[recognized[k][1]].producer
            /\ position = Len(listing)
            /\ Cardinality(accepted) = 4 /\ Cardinality({e.case : e \in accepted}) = 2)

\* A report that is published is whole and of one piece: a row for every case and library
\* that was asked for, each with the outcome of its own processes only, nothing timed before
\* it was checked, nothing published of a sweep in which a process failed or wrote too few
\* or too many rows (the _run_cases, run_gemm_report, run_level1_report, run_level2_report);
\* and the full report rests on every row of every file it opened, each of them checked
\* evidence, none counted twice and each drawn once, and reads the files of six runners under their
\* own families (render_full_benchmark_report).
ReportIsWhole ==
    /\ part = "structured" => S!ReportIsWhole /\ S!OwnSamples
    /\ part = "gemm"       => G!SweepIsWhole /\ G!NothingIncomplete
    /\ part = "level1"     => A!CheckedBeforeTimed /\ A!Level1IsWhole
    /\ part = "level2"     => B!Level2IsWhole /\ B!RoutinesApart
    /\ part = "full"       => F!OnlyCheckedEvidence /\ F!OneMeasurementPerSlot /\ F!ChartsShowAll
    /\ ReadsRight(Producers \ {"gemm"})

\* A report that passes its checker was earned: checked rows of every case, and Zynum not
\* behind any comparator that had to be there (the check_*_report modules, and the families
\* of the full report).
PassIsEarned ==
    /\ part = "structured" => S!PassIsEarned
    /\ part = "gemm"       => G!SweepPassIsEarned
    /\ part = "level1"     => A!Level1PassIsEarned
    /\ part = "level2"     => B!Level2PassIsEarned
    /\ part = "full"       => F!PassedMeansFastest

\* The checks inside the probes say what is so: a right routine passes whatever the strides
\* or the bandwidth, a check that passes on numbers saw the right ones in every element it
\* owns, and one that calls its guards intact saw no write outside the vectors.
ChecksAreRight ==
    /\ part = "vector" => V!RightPasses /\ V!OkNumbersAreRight /\ V!GuardedMeansUntouched
    /\ part = "level2check" => C!RightPasses /\ C!OkNumbersAreRight

\* Every bar of a Windows chart is the middle of what all the processes of that case and
\* library measured and checked, on the programs whose digests the run recorded, whatever
\* of the run the plotter saw and when; a chart accounts for all that was asked for, and
\* exit 0 means that all of it was measured well and can be drawn.
ChartIsHonest ==
    part = "windows" => /\ W!BarsAreMeasured /\ W!NothingIsDropped
                        /\ W!TimedWhatIsRecorded /\ W!ExitTellsTruth

\* With an interleaved order no library has better turns: each is as often first as any
\* other, and equally often in every place of a round where the run says it is balanced.
TurnsAreFair ==
    /\ part = "structured" => S!Balanced
    /\ part = "windows" => W!TurnsAreFair

\* "The input directory may contain the CSV files emitted by the Level 1, scalar
\* ROTG/ROTMG latency, Level 2, GEMM, rank-k, SYMM/HEMM, and TRMM/TRSM runners."
\* (The docstring of render_full_benchmark_report.)
RunnersFilesAreRead == ReadsRight(Producers)

\* The metadata of a Level-1 report says of its check that it is made "with logical-stride
\* references": a routine that passes has left the reference values.
OkValuesAreRight == part = "vector" => V!OkValuesAreRight
=============================================================================
