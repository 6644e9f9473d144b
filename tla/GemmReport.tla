----------------------------- MODULE GemmReport -----------------------------
(***************************************************************************)
(* bench/tools/run_gemm_sweep_isolated.py and check_gemm_sweep.py.  One    *)
(* process measures a group of kernels and writes a file of its own; the   *)
(* files of all repeats are read, matched by key and merged at the end.    *)
(* A kernel does one unit of work, so that its rate is Scale divided by    *)
(* the time it takes.                                                      *)
(***************************************************************************)
EXTENDS FreshProcess

CONSTANTS Requests, Options,
          DefaultShapes,    \* stands for the 42 shapes measured when none is given
          Blank             \* an empty cell of a file

VARIABLES files         \* the private output directory: path -> rows

gemmVars == <<vars, files>>

\* ---------------------------------------------------------------- what is asked
KINDS == <<"sgemm", "dgemm", "cgemm", "zgemm">>
RealKinds == {"sgemm", "dgemm"}

ShapeSpecs(r) == OrElse(r.shape, DefaultShapes)

\* A conjugate transpose of a real kind is dropped.
ExpectedProcessKeys(r, kinds, shapes) ==
    FlattenSeq([i \in DOMAIN kinds |->
        Product(<< <<[kind |-> kinds[i]]>>,
                   Alternatives("trans",
                       SelectSeq(OrElse(r.trans, << <<"N", "N">> >>),
                                 LAMBDA pair : ~(kinds[i] \in RealKinds /\ "C" \in ToSet(pair)))),
                   shapes>>)])

\* A key asked twice of one process is refused, and so is a dimension that is no number.
KeysRefused(keys) == ~IsInjective(keys) \/ \E i \in DOMAIN keys : ~keys[i].reads

\* The groups of one process each: by kind, by shape, by both or by neither.
ProcessCases(r) ==
    LET kinds  == IF r.isolateKind /\ r.kind = << >> THEN [i \in DOMAIN KINDS |-> <<KINDS[i]>>]
                  ELSE <<OrElse(r.kind, KINDS)>>
        shapes == IF r.isolateShape THEN [i \in DOMAIN ShapeSpecs(r) |-> <<ShapeSpecs(r)[i]>>]
                  ELSE <<ShapeSpecs(r)>>
    IN FlattenSeq([k \in DOMAIN kinds |-> [s \in DOMAIN shapes |->
           [keys |-> ExpectedProcessKeys(r, kinds[k], shapes[s])]]])

\* Only comparators may be left out; nobody looks whether the first one is there.
ExistingLibs(r) ==
    SelectSeq(r.libraries, LAMBDA library : library = r.libraries[1] \/ library.there \/ ~r.skip)

Init == Start(Requests) /\ files = << >>

GemmPrepare ==
    LET list == ProcessCases(request)
        libs == ExistingLibs(request)
    IN /\ IF \E i \in DOMAIN list : KeysRefused(list[i].keys)
          THEN Prepare(<< >>, libs, request.process)
          ELSE /\ Prepare(list, libs, request.process)
               /\ phase' = "run" => \A i \in DOMAIN libs : libs[i].there   \* the capture opens them
       /\ UNCHANGED files

-----------------------------------------------------------------------------
\* What the probe writes when it ends well: the first kernel of the group is measured as the
\* reply says, the others as it says of the rest.
ProcessRows(case, reply) ==
    LET written == CASE reply.kind = "short"   -> SubSeq(case.keys, 1, Len(case.keys) - 1)
                     [] reply.kind = "doubled" -> case.keys \o case.keys
                     [] OTHER                  -> case.keys
    IN [i \in DOMAIN written |->
           [case |-> written[i], check |-> IF request.check THEN reply.check ELSE "unchecked"]
           @@ IF i = 1 THEN reply.first ELSE reply.rest]

\* Library, case and repeat are all part of the name.
IntermediateOutputPath(unit) == unit

GemmMeasure ==
    /\ phase = "run" /\ position < Len(Schedule(request.process))
    /\ IF drifted THEN End(2) /\ files' = << >> /\ UNCHANGED <<position, samples, ran>>
       ELSE \E reply \in Replies :
            /\ reply # Usual =>
                   Cardinality({i \in DOMAIN ran : ran[i].reply # Usual}) < MaxUnusual
            /\ IF reply.kind \in {"oserror", "exit"}
               THEN End(2) /\ files' = << >> /\ UNCHANGED <<position, samples, ran>>
               ELSE LET unit == Schedule(request.process)[position + 1]
                        path == IntermediateOutputPath(unit)
                    IN /\ Collect(unit, path, reply)
                       /\ files' = IF reply.kind = "nofile" THEN files
                                   ELSE (path :> ProcessRows(cases[unit[2]], reply)) @@ files
                       /\ UNCHANGED <<phase, exit>>
    /\ UNCHANGED <<plan, drifted, outputs, report>>

-----------------------------------------------------------------------------
\* A repeat is refused when a key occurs twice or the keys are not those asked for.
RepeatRowsByKey(rows, keys) ==
    /\ IsInjective([i \in DOMAIN rows |-> rows[i].case])
    /\ {rows[i].case : i \in DOMAIN rows} = ToSet(keys)

\* A blank time counts as the best one.
GemmTiming(row, field) == IF row[field] = Blank THEN row.best ELSE row[field]

ValidGemmEvidence(row) ==
    /\ Usable(row.gflops)
    /\ \A field \in {"best", "median", "p95", "most"} : Usable(GemmTiming(row, field))

\* Repeats that disagree are what comes first in text order.
MergedCheckStatus(rows) ==
    LET said  == {rows[i].check : i \in DOMAIN rows}
        order == <<"checked-ok", "sampled-ok", "unchecked">>
    IN IF said \subseteq {"checked-ok", "sampled-ok"} THEN "checked-ok"
       ELSE IF said = {"unchecked"} THEN "unchecked"
       ELSE order[CHOOSE i \in DOMAIN order : /\ order[i] \in said
                                              /\ \A j \in 1 .. i - 1 : order[j] \notin said]

\* The rows of one key, in repeat order: the rate of the fastest repeat, the extreme times,
\* and twice the median.
MergeRepeatRows(rows) ==
    LET of(field) == [i \in DOMAIN rows |-> GemmTiming(rows[i], field)]
        base == FirstMost(rows, LAMBDA row : row.gflops)
    IN [case    |-> base.case,
        gflops  |-> base.gflops,
        best    |-> BestLower(ToSet(of("best"))),
        median  |-> PositiveFiniteMedian(of("median")),
        p95     |-> NearestRankPercentile(of("p95"), 95),
        most    |-> BestHigher(ToSet(of("most"))),
        samples |-> of("median"),
        repeats |-> Len(rows),
        check   |-> MergedCheckStatus(rows)]

RowOf(rows, key) == CHOOSE row \in ToSet(rows) : row.case = key

\* Key by key, in the order of the first repeat.
BestRowsCsv(csvs) ==
    [k \in DOMAIN csvs[1] |->
        MergeRepeatRows([i \in DOMAIN csvs |-> RowOf(csvs[i], csvs[1][k].case)])]

\* The rows of a single repeat are taken over as they are, with twice the median.
SerializeRow(row) ==
    [case |-> row.case, gflops |-> row.gflops, best |-> row.best,
     median |-> IF row.median = Blank THEN Blank ELSE 2 * row.median, p95 |-> row.p95,
     most |-> row.most, samples |-> <<row.median>>, repeats |-> 1, check |-> row.check]

Contents(l, c) == [i \in DOMAIN samples[l][c] |-> files[samples[l][c][i]]]

MergedRows(l, c) ==
    IF request.repeats > 1 THEN BestRowsCsv(Contents(l, c))
    ELSE [k \in DOMAIN Contents(l, c)[1] |-> SerializeRow(Contents(l, c)[1][k])]

SerializeCsv(library, rows) == [k \in DOMAIN rows |-> [library |-> library.label] @@ rows[k]]

\* What stops the merge of one library and case: the status the process ends with, or 0.  The
\* files are read in repeat order; one that is not there is an error nobody catches.
FileProblem(path, keys) ==
    IF path \notin DOMAIN files THEN 1 ELSE IF RepeatRowsByKey(files[path], keys) THEN 0 ELSE 2

EvidenceProblem(l, c) ==
    IF /\ \A i \in DOMAIN samples[l][c] : samples[l][c][i] \in DOMAIN files
       /\ \E csv \in ToSet(Contents(l, c)) : \E row \in ToSet(csv) : ~ValidGemmEvidence(row)
    THEN 2 ELSE 0

MergeProblems(l, c) ==
    [i \in DOMAIN samples[l][c] |-> FileProblem(samples[l][c][i], cases[c].keys)]
    \o IF request.repeats > 1 THEN <<EvidenceProblem(l, c)>> ELSE << >>

\* Library by library and case by case; the rows of single repeats are looked at after all
\* files have been read, and every shape is read once more.
Problems ==
    LET pairs(of(_, _)) == FlattenSeq([l \in DOMAIN selected |->
                               FlattenSeq([c \in DOMAIN cases |-> of(l, c)])])
    IN SelectSeq(pairs(MergeProblems) \o pairs(LAMBDA l, c : <<EvidenceProblem(l, c)>>)
                 \o [i \in DOMAIN ShapeSpecs(request) |->
                        IF ShapeSpecs(request)[i].reads THEN 0 ELSE 2],
                 LAMBDA status : status # 0)

GemmFold ==
    /\ phase = "run" /\ position = Len(Schedule(request.process))
    /\ IF Problems # << >> THEN End(Problems[1]) /\ UNCHANGED outputs
       ELSE /\ outputs' = FlattenSeq(FlattenSeq(
                   [l \in DOMAIN selected |-> [c \in DOMAIN cases |->
                       SerializeCsv(selected[l], MergedRows(l, c))]]))
            /\ phase' = "finalize" /\ UNCHANGED exit
    /\ files' = << >>
    /\ UNCHANGED <<plan, position, samples, drifted, report, ran>>

Rest == (Finalize \/ Publish \/ Drift \/ Ended) /\ UNCHANGED files

Next == GemmPrepare \/ GemmMeasure \/ GemmFold \/ Rest

Spec == Init /\ [][Next]_gemmVars

-----------------------------------------------------------------------------
GemmRowAllowed(o, row) == \A field \in DOMAIN o.filter : row.case[field] \in o.filter[field]

\* The rate of a row; the lowest one comes from the longest time.
RowGflops(row, stat) ==
    CASE stat = "best"   -> row.gflops
      [] stat = "median" -> IF row.median = Blank THEN Scale \div row.best
                            ELSE (2 * Scale) \div row.median
      [] stat = "min"    -> Scale \div GemmTiming(row, "most")

GemmPasses(o, zynum, others) ==
    LET ratio == PositiveFiniteRatio(RowGflops(zynum, o.stat),
                                     BestHigher({RowGflops(row, o.stat) : row \in others}))
    IN IF ratio = 0 THEN "refused" ELSE IF ratio < o.ratio THEN "fails" ELSE "passes"

\* The exit status of check_gemm_sweep: any unchecked row of any library refuses the file.
GemmCheckSweep(rows, o) ==
    LET allowed == {i \in DOMAIN rows : GemmRowAllowed(o, rows[i])}
    IN IF \/ ~Usable(o.ratio)
          \/ ~o.unchecked /\ \E i \in allowed : rows[i].check \notin {"checked-ok", "sampled-ok"}
          \/ Doubled(rows, allowed)
          \/ Cardinality({rows[i].repeats : i \in DOMAIN rows}) > 1
       THEN 2
       ELSE Conclude(Rows(rows, allowed), o, {"zynum-blas"},
                     LAMBDA z, others : GemmPasses(o, z, others))

-----------------------------------------------------------------------------
TypeOK == /\ request \in Requests
          /\ phase \in {"prepare", "run", "finalize", "publish", "done"}
          /\ exit \in {Running, 0, 1, 2}
          /\ Len(ran) = position
          /\ DOMAIN files \subseteq {ran[i].unit : i \in DOMAIN ran}
          /\ phase # "run" => files = << >>

\* What a kernel was measured as in one repeat, told from the history.
Kernel(l, c, k, r) ==
    LET run == ran[CHOOSE i \in DOMAIN ran : ran[i].unit = <<l, c, r>>]
    IN IF k = 1 THEN run.reply.first ELSE run.reply.rest

\* A published sweep has, for every library, group and requested kernel in this order, one
\* row with the times of that kernel in that library's own processes, in repeat order; the
\* rate is that of the process that was fastest.
\* (run_controller: one file per process, matched by key.)
SweepIsWhole ==
    (report # << >>) =>
        LET wanted == FlattenSeq(FlattenSeq([l \in DOMAIN selected |-> [c \in DOMAIN cases |->
                          [k \in DOMAIN cases[c].keys |-> <<l, c, k>>]]]))
        IN /\ ~drifted /\ Len(report) = Len(wanted)
           /\ \A i \in DOMAIN wanted :
                LET row == report[i]
                    at(r) == Kernel(wanted[i][1], wanted[i][2], wanted[i][3], r)
                IN /\ row.library = selected[wanted[i][1]].label
                   /\ row.case = cases[wanted[i][2]].keys[wanted[i][3]]
                   /\ row.samples = [r \in 1 .. request.repeats |->
                          IF request.repeats = 1 THEN at(r).median ELSE GemmTiming(at(r), "median")]
                   /\ \E r \in 1 .. request.repeats : row.gflops = at(r).gflops
                   /\ \A r \in 1 .. request.repeats :
                         /\ at(r).gflops <= row.gflops
                         /\ row.best <= at(r).best
                         /\ GemmTiming(at(r), "most") <= GemmTiming(row, "most")

\* A sweep is published only if every process wrote exactly the kernels it was asked for,
\* each with times that are some.  (repeat_rows_by_key, best_rows_csv, serialize_csv.)
NothingIncomplete ==
    (phase \in {"finalize", "publish"} \/ report # << >>) =>
        /\ \A i \in DOMAIN ran : /\ ran[i].reply.kind = "csv"
                                 /\ Usable(ran[i].reply.first.gflops)
                                 /\ Usable(ran[i].reply.first.best)
        /\ {ran[i].unit : i \in DOMAIN ran}
              = (DOMAIN selected) \X (DOMAIN cases) \X (1 .. request.repeats)

\* A check that passes without --allow-unchecked means that the sweep was measured with
\* its correctness check, no kernel twice, and that Zynum is no slower, by the ratio asked
\* for, in any kernel that it was compared in; without --allow-missing-comparators that is
\* every kernel.  (check_gemm_sweep.main.)
SweepPassIsEarned ==
    (phase = "done" /\ report # << >>) =>
        \A o \in Options : (~o.unchecked /\ GemmCheckSweep(report, o) = 0) =>
            LET inside == {i \in DOMAIN report : GemmRowAllowed(o, report[i])}
                zynum  == {i \in inside : report[i].library = o.zynum}
                rivals(i) == {j \in inside : /\ report[j].library \in o.comparators
                                             /\ report[j].case = report[i].case}
            IN /\ request.check
               /\ \A i, j \in zynum : i # j => report[i].case # report[j].case
               /\ \E i \in zynum : rivals(i) # {}
               /\ \A i \in zynum :
                    /\ rivals(i) = {} => o.missingOk
                    /\ \A j \in rivals(i) :
                          RowGflops(report[i], o.stat) * Scale
                              >= o.ratio * RowGflops(report[j], o.stat)
=============================================================================
