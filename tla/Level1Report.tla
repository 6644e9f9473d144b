---------------------------- MODULE Level1Report ----------------------------
(***************************************************************************)
(* bench/tools/run_level1_report.py and check_level1_report.py.  A routine *)
(* is checked in a process of its own before it is timed (VectorCheck says *)
(* what that check is worth), once for each library, operation, variant    *)
(* and pair of strides; a report has only rows that went well in every     *)
(* repeat.                                                                 *)
(***************************************************************************)
EXTENDS FreshProcess

CONSTANTS Requests, Options

VARIABLES preflight         \* LEVEL1_CHECK_CACHE and COPY_CHECK_CACHE

level1Vars == <<vars, preflight>>

\* ---------------------------------------------------------------- what is asked
COPY_KIND_ORDER == <<"s", "d">>
ElementSize == [s |-> 1, d |-> 2]
CopyOp == [s |-> "scopy", d |-> "dcopy"]

LEVEL1_OPS == << <<"real", "daxpby">>, <<"real", "drotm">> >>
NEGATIVE_LEVEL1_OPS == << <<"copy", "dcopy">>, <<"real", "drotm">> >>
STABLE_NEGATIVE_OPS == {"dcopy", "drotm"}
LEVEL1_VARIANTS(op) == IF op = "drotm" THEN <<"flag_0", "flag_p1">> ELSE <<"default">>
Bandwidth(op) == op \in {"scopy", "dcopy"}

\* --inc gives both strides; --incx and --incy give every pair of theirs.
StridePairs(r) ==
    IF r.incx # << >> \/ r.incy # << >>
    THEN LET xs == Unique(OrElse(r.incx, <<1>>))
             ys == Unique(OrElse(r.incy, <<1>>))
         IN FlattenSeq([i \in DOMAIN xs |-> [j \in DOMAIN ys |-> <<xs[i], ys[j]>>]])
    ELSE [i \in DOMAIN Unique(OrElse(r.inc, <<1>>)) |->
             <<Unique(OrElse(r.inc, <<1>>))[i], Unique(OrElse(r.inc, <<1>>))[i]>>]

\* Every size is given to the first kind, from a place that moves on, that divides it.
CopyCases(sizes) ==
    [i \in DOMAIN sizes |->
        LET kinds == Len(COPY_KIND_ORDER)
            at(d) == COPY_KIND_ORDER[((i - 1 + d) % kinds) + 1]
            fit   == {d \in 0 .. kinds - 1 : sizes[i] % ElementSize[at(d)] = 0}
            kind  == at(CHOOSE d \in fit : \A e \in fit : d <= e)
        IN [type |-> "copy", group |-> "copy", op |-> CopyOp[kind], variant |-> "default",
            inc |-> <<1, 1>>, n |-> sizes[i] \div ElementSize[kind]]]

Level1Cases(pairs, n) ==
    FlattenSeq([i \in DOMAIN pairs |->
        LET operations == IF pairs[i][1] < 0 \/ pairs[i][2] < 0 THEN NEGATIVE_LEVEL1_OPS
                          ELSE LEVEL1_OPS
        IN FlattenSeq([j \in DOMAIN operations |->
               LET variants == LEVEL1_VARIANTS(operations[j][2])
               IN [v \in DOMAIN variants |->
                     [type |-> "level1", group |-> operations[j][1], op |-> operations[j][2],
                      variant |-> variants[v], inc |-> pairs[i], n |-> n]]])])

CaseAllowed(r, case) == /\ r.group = "any" \/ case.group = r.group
                        /\ r.op = "any" \/ case.op = r.op

ScheduledCases(r) ==
    LET copies == IF r.skipCopy THEN << >> ELSE CopyCases(Unique(OrElse(r.sizes, <<2>>)))
        others == IF r.copyOnly THEN << >> ELSE Level1Cases(StridePairs(r), r.n)
    IN SelectSeq(copies \o others, LAMBDA case : CaseAllowed(r, case))

Level1CommandAccepted(r) ==
    /\ r.inc # << >> => r.incx = << >> /\ r.incy = << >>
    /\ \A i \in DOMAIN r.sizes : r.sizes[i] > 0

\* Libraries that are not there are left out by --skip-missing, but never Zynum;
\* without it the capture finds them missing.
ExistingLibraries(r) ==
    IF ~r.skip THEN r.libraries
    ELSE IF ~r.libraries[1].there THEN << >>
    ELSE SelectSeq(r.libraries, LAMBDA library : library.there)

-----------------------------------------------------------------------------
Init == Start(Requests) /\ preflight = << >>

\* A command line may ask for no case at all: its report has only the heading.
Level1Prepare ==
    LET libs == ExistingLibraries(request)
        ready == /\ Level1CommandAccepted(request) /\ request.probe /\ libs # << >>
                 /\ ValidateUniqueLibraryLabels(libs)
                 /\ ValidateSchedule(Len(libs), request.repeats, request.process)
    IN /\ phase = "prepare"
       /\ cases' = IF ready THEN ScheduledCases(request) ELSE << >>
       /\ selected' = libs
       /\ samples' = [l \in DOMAIN libs |-> [c \in DOMAIN cases' |-> << >>]]
       /\ \/ /\ ready /\ \A l \in DOMAIN libs : libs[l].there
             /\ phase' = "run" /\ UNCHANGED exit
          \/ End(2)
       /\ UNCHANGED <<request, position, drifted, outputs, report, ran, preflight>>

\* What one check is good for.
CheckKey(l, case) ==
    IF case.type = "copy" THEN <<l, case.op>> ELSE <<l, case.op, case.inc, case.variant>>

\* The symbols an operation is looked for under, in this order.
SymbolCandidates(op) == IF op = "daxpby" THEN <<"cblas", "fortran">> ELSE <<"fortran">>

Answer(status, symbol) == [status |-> status, symbol |-> symbol]

\* What a check can find: no such library or symbol, a wrong routine, a right one.
CheckCopyOp == {Answer("missing", ""), Answer("correctness_failed", "fortran"),
                Answer("sampled-ok", "fortran")}
CheckLevel1Op(op) ==
    {Answer("missing", "")} \cup
    {Answer(status, symbol) : status \in {"correctness_failed", "sampled-ok", "error"},
                              symbol \in ToSet(SymbolCandidates(op))}

\* A worker that does not start, does not exit well or does not write JSON is an error.
CheckWorkerResult(case) ==
    {Answer("error", "")} \cup
    IF case.type = "copy" THEN CheckCopyOp ELSE CheckLevel1Op(case.op)

\* run_once: a row, or a status other than "ok".
RunOnce(reply) ==
    CASE reply.kind = "row"     -> "ok"
      [] reply.kind = "exit"    -> IF reply.symbol = "missing" THEN "missing" ELSE "error"
      [] reply.kind = "oserror" -> "error"
      [] reply.kind = "garbage" -> "parse_error"

\* The routine timed must be the one that was checked; the copy probe does not say which
\* routine it timed, and is taken to have timed the one that was checked.
MeasuredRow(case, check, reply) ==
    LET symbol == IF case.type = "level1" /\ RunOnce(reply) = "ok" THEN reply.symbol
                  ELSE check.symbol
        status == IF RunOnce(reply) = "ok" /\ symbol # check.symbol
                  THEN "surface_mismatch" ELSE RunOnce(reply)
    IN [case |-> case, status |-> status, check |-> check.status, symbol |-> symbol,
        preflight |-> check.symbol, value |-> IF status = "ok" THEN reply.value ELSE 0]

UncheckedRow(case, check) ==
    [case |-> case, check |-> check.status, symbol |-> check.symbol, preflight |-> check.symbol,
     status |-> IF check.status \in {"missing", "error"} THEN check.status
                ELSE "correctness_failed", value |-> 0]

\* choose_best refuses a group in which any repeat is not "ok" or has no usable value.
ChooseBestAccepts(rows) ==
    \A i \in DOMAIN rows : rows[i].status = "ok" /\ ValidPerformance(rows[i], {"value"})

ChooseBest(rows) ==
    LET values == [i \in DOMAIN rows |-> rows[i].value]
    IN Summary(values)
       @@ [successful |-> Len(rows), repeats |-> Len(rows)]
       @@ CHOOSE row \in ToSet(rows) : row.value = BestHigher(ToSet(values))

Few(reply) ==
    reply # Usual => Cardinality({i \in DOMAIN ran : ran[i].reply # Usual}) < MaxUnusual

\* The check, unless its answer is known; then one timed process, whose failure ends the
\* run at once.  A failed check leaves a row that ends it later.
RunCase(unit, case) ==
    LET key == CheckKey(unit[1], case)
    IN \E answer \in IF key \in DOMAIN preflight THEN {preflight[key]}
                   ELSE CheckWorkerResult(case) :
        /\ preflight' = (key :> answer) @@ preflight
        /\ IF answer.status # "sampled-ok"
           THEN /\ Few([kind |-> "notrun"])
                /\ Collect(unit, UncheckedRow(case, answer), [kind |-> "notrun"])
                /\ UNCHANGED <<phase, exit>>
           ELSE \E reply \in Replies :
                  LET row == MeasuredRow(case, answer, reply)
                  IN IF ChooseBestAccepts(<<row>>)
                     THEN /\ Few(reply) /\ Collect(unit, row, reply)
                          /\ UNCHANGED <<phase, exit>>
                     ELSE End(2) /\ UNCHANGED <<position, samples, ran>>

Level1Measure ==
    /\ phase = "run" /\ position < Len(Schedule(request.process))
    /\ IF drifted THEN End(2) /\ UNCHANGED <<position, samples, ran, preflight>>
       ELSE LET unit == Schedule(request.process)[position + 1]
            IN RunCase(unit, cases[unit[2]])
    /\ UNCHANGED <<plan, drifted, outputs, report>>

Level1Fold == Fold(request.process, ChooseBestAccepts, ChooseBest) /\ UNCHANGED preflight

Rest == (Finalize \/ Publish \/ Drift \/ Ended) /\ UNCHANGED preflight

Next == Level1Prepare \/ Level1Measure \/ Level1Fold \/ Rest

Spec == Init /\ [][Next]_level1Vars

-----------------------------------------------------------------------------
\* ---------------------------------------------------------------- the checker
NegativeStride(row) == row.case.inc[1] < 0 \/ row.case.inc[2] < 0

Level1RowAllowed(o, row) ==
    /\ CaseAllowed(o, row.case)
    /\ o.negativeOnly => NegativeStride(row)
    /\ NegativeStride(row) => row.case.op \in STABLE_NEGATIVE_OPS

\* The rows of one group are compared with each other.
GroupKey(row) == [group |-> row.case.group, op |-> row.case.op, variant |-> row.case.variant,
                  inc |-> row.case.inc, n |-> row.case.n, metric |-> Bandwidth(row.case.op)]

Level1Metric(o, row) == CASE o.stat = "best"   -> 2 * row.most
                          [] o.stat = "median" -> row.median
                          [] o.stat = "min"    -> 2 * row.least

RepeatEvidenceHolds(o, row) ==
    /\ row.repeats > 0 /\ row.successful = row.repeats
    /\ o.expected = 0 \/ row.repeats = o.expected

Level1Passes(o, zynum, others) ==
    LET ratio == PositiveFiniteRatio(Level1Metric(o, zynum),
                                     BestHigher({Level1Metric(o, row) : row \in others}))
    IN IF ratio = 0 THEN "refused" ELSE IF ratio < o.ratio THEN "fails" ELSE "passes"

\* The exit status.  Repeat evidence is asked of every row, allowed or not; an unchecked row
\* of a comparator is left out, one of Zynum is refused.
Level1CheckReport(rows, o) ==
    LET allowed == {i \in DOMAIN rows : Level1RowAllowed(o, rows[i])}
        checked(row) == row.status = "ok" /\ row.check \in {"sampled-ok", "checked-ok"}
        used    == {i \in allowed : o.unchecked \/ checked(rows[i])}
        surface(row) == NegativeStride(row) => row.symbol = row.preflight
        keyed   == [i \in DOMAIN rows |-> [rows[i] EXCEPT !.case = GroupKey(rows[i])]]
    IN IF \/ ~Usable(o.ratio)
          \/ \E i \in DOMAIN rows : ~RepeatEvidenceHolds(o, rows[i])
          \/ \E i \in allowed : ~surface(rows[i])
          \/ \E i \in allowed \ used : rows[i].library = o.zynum
          \/ \E i \in used : ~Usable(Level1Metric(o, rows[i]))
          \/ Doubled(keyed, used)
       THEN 2
       ELSE Conclude(Rows(keyed, used), o, {"zynum-blas"},
                     LAMBDA zynum, others : Level1Passes(o, zynum, others))

-----------------------------------------------------------------------------
TypeOK ==
    /\ request \in Requests
    /\ phase \in {"prepare", "run", "finalize", "publish", "done"}
    /\ exit \in {Running, 0, 1, 2}
    /\ Len(ran) = position
    /\ \A key \in DOMAIN preflight : preflight[key].status \in {"missing", "error", "correctness_failed", "sampled-ok"}
    /\ Cardinality(DOMAIN preflight) <= Len(selected) * Len(cases)

\* No process is timed before a check of its own library, operation, variant and strides
\* found the routine right and named the symbol it found it under; and the process timed
\* that symbol.  (run_level1_op, the two check caches.)
CheckedBeforeTimed ==
    \A i \in DOMAIN ran : ran[i].row.status = "ok" =>
        LET case == cases[ran[i].unit[2]]
            key  == IF case.type = "copy" THEN <<ran[i].unit[1], case.op>>
                    ELSE <<ran[i].unit[1], case.op, case.inc, case.variant>>
        IN /\ key \in DOMAIN preflight /\ preflight[key].status = "sampled-ok"
           /\ case.type = "level1" => ran[i].reply.symbol = preflight[key].symbol

\* A published report has one row per library and case, with the values that library had in
\* that case in repeat order; no process of the run failed, and nothing drifted.
\* (run_controller, choose_best.)
Level1IsWhole ==
    report # << >> =>
        /\ ~drifted /\ Len(report) = Len(selected) * Len(cases)
        /\ \A i \in DOMAIN ran : ran[i].reply.kind = "row" /\ ran[i].row.status = "ok"
        /\ \A l \in DOMAIN selected, c \in DOMAIN cases :
             LET row  == report[(l - 1) * Len(cases) + c]
                 runs == SelectSeq(ran, LAMBDA run : run.unit[1] = l /\ run.unit[2] = c)
             IN /\ row.library = selected[l].label /\ row.case = cases[c]
                /\ row.samples = [r \in 1 .. request.repeats |-> runs[r].reply.value]
                /\ \A r \in 1 .. request.repeats : runs[r].unit[3] = r

\* A check that passes compared some case, found no group twice, counted in every row the
\* repeats it expected, and found Zynum no slower than each comparator asked for; without
\* --allow-missing-comparators every allowed case was compared.  (check_level1_report.main.)
Level1PassIsEarned ==
    (phase = "done" /\ report # << >>) =>
        \A o \in Options : Level1CheckReport(report, o) = 0 =>
            LET inside == {i \in DOMAIN report : Level1RowAllowed(o, report[i])}
                zynum  == {i \in inside : report[i].library = o.zynum}
                rivals(i) == {j \in inside : /\ report[j].library \in o.comparators
                                             /\ GroupKey(report[j]) = GroupKey(report[i])}
            IN /\ \A i, j \in zynum : i # j => GroupKey(report[i]) # GroupKey(report[j])
               /\ o.expected = 0 \/ request.repeats = o.expected
               /\ \E i \in zynum : rivals(i) # {}
               /\ \A i \in zynum :
                    /\ rivals(i) = {} => o.missingOk
                    /\ \A j \in rivals(i) :
                          Level1Metric(o, report[i]) * Scale >= o.ratio * Level1Metric(o, report[j])
=============================================================================
