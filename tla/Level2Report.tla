---------------------------- MODULE Level2Report ----------------------------
(***************************************************************************)
(* bench/tools/run_level2_report.py and check_level2_report.py.  A process *)
(* checks and times all routines of one job: a shape, or a profile of      *)
(* packed or banded storage, with the operations asked of it.  Each        *)
(* routine's repeats are folded into a row of their own (Level2Check says  *)
(* what the check of a routine is worth).                                  *)
(***************************************************************************)
EXTENDS FreshProcess

CONSTANTS Requests, Options

\* ---------------------------------------------------------------- what is asked
PACKED_OPERATIONS == {"dspmv"}
BANDED_OPERATIONS == {"dgbmv"}
TRIANGULAR_BANDED_OPERATIONS == {"dtbmv"}
COMPACT_BANDED_OPERATIONS == BANDED_OPERATIONS \cup TRIANGULAR_BANDED_OPERATIONS
COMPLEX_GER_OPERATIONS == {"zgeru"}
LEGACY_FILTER_OPERATIONS == COMPLEX_GER_OPERATIONS \cup {"zhemv"}
OP_EXPANSIONS(selector) ==
    CASE selector = "all"     -> <<"legacy", "dtrmv", "dgbmv">>
      [] selector = "compact" -> <<"dspmv", "dtbmv">>
      [] OTHER                -> <<selector>>

Shape(name, m, n) == [name |-> name, m |-> m, n |-> n, bandwidth |-> -1]
Profile(name, n, bandwidth) == [name |-> name, m |-> n, n |-> n, bandwidth |-> bandwidth]

DEFAULT_BANDED_PROFILES == <<Profile("n2_bw0", 2, 0)>>
DEFAULT_TRIANGULAR_BANDED_PROFILES == <<Profile("n2_bw0", 2, 0), Profile("n3_bw1", 3, 1)>>
DEFAULT_PACKED_PROFILES == <<Profile("n2", 2, -1)>>

ExpandOperations(selectors) ==
    LET chosen == OrElse(selectors, <<"legacy">>)
    IN Unique(FlattenSeq([i \in DOMAIN chosen |-> OP_EXPANSIONS(chosen[i])]))

RequestedShapes(r) == IF r.shape = << >> THEN <<Shape("sq2", 2, 2)>> ELSE r.shape

\* Square shapes that were asked for stand in for packed profiles that were not.
RequestedPackedProfiles(r) ==
    IF r.packed # << >> THEN r.packed
    ELSE IF r.shape # << >> THEN SelectSeq(r.shape, LAMBDA shape : shape.m = shape.n)
    ELSE DEFAULT_PACKED_PROFILES

RequestedBandedProfiles(r) == OrElse(r.band, DEFAULT_BANDED_PROFILES)
RequestedTriangularBandedProfiles(r) == OrElse(r.band, DEFAULT_TRIANGULAR_BANDED_PROFILES)

OperationsForShape(operations, shape) ==
    SelectSeq(operations, LAMBDA op : \/ shape.m = shape.n
                                      \/ op \in {"legacy"} \cup COMPLEX_GER_OPERATIONS)

\* The jobs in order: dense shapes, packed profiles, band profiles.
ExecutableJobs(r) ==
    LET operations == ExpandOperations(r.op)
        Among(set) == SelectSeq(operations, LAMBDA op : op \in set)
        dense  == SelectSeq(operations, LAMBDA op : op \notin PACKED_OPERATIONS
                                                       \cup COMPACT_BANDED_OPERATIONS)
        packed == Among(PACKED_OPERATIONS)
        banded == Among(BANDED_OPERATIONS) \o Among(TRIANGULAR_BANDED_OPERATIONS)
        shapes == IF dense = << >> THEN << >> ELSE RequestedShapes(r)
        packedProfiles == IF packed = << >> THEN << >> ELSE RequestedPackedProfiles(r)
        bandedProfiles ==
            Unique((IF Among(BANDED_OPERATIONS) = << >> THEN << >> ELSE RequestedBandedProfiles(r))
                   \o (IF Among(TRIANGULAR_BANDED_OPERATIONS) = << >> THEN << >>
                       ELSE RequestedTriangularBandedProfiles(r)))
        Job(shape, list) == [shape |-> shape, operations |-> list]
        jobs == [i \in DOMAIN shapes |-> Job(shapes[i], OperationsForShape(dense, shapes[i]))]
                \o [i \in DOMAIN packedProfiles |-> Job(packedProfiles[i], packed)]
                \o [i \in DOMAIN bandedProfiles |-> Job(bandedProfiles[i], banded)]
    IN SelectSeq(jobs, LAMBDA job : job.operations # << >>)

\* --interleave-libraries is an older name of a schedule and must not contradict it.
Level2CommandAccepted(r) == ~(r.interleave /\ r.process = "library-major")
Level2Schedule(r) == IF r.process # "none" THEN r.process
                     ELSE IF r.interleave THEN "interleaved" ELSE "library-major"

ExistingLibraries(r) ==
    IF ~r.skip THEN r.libraries
    ELSE IF ~r.libraries[1].there THEN << >>
    ELSE SelectSeq(r.libraries, LAMBDA library : library.there)

-----------------------------------------------------------------------------
\* ---------------------------------------------------------------- the worker
\* Routines printed for an operation; a rectangle leaves some out.
LegacyRoutines(shape) ==
    IF shape.m = shape.n THEN <<"dgemv_n", "zgeru", "zhemv">> ELSE <<"dgemv_n", "zgeru">>

\* run_worker computes more legacy routines than were asked for and drops their rows.
FilterLegacyRows(routines, operations) ==
    IF "legacy" \in operations \/ operations \cap LEGACY_FILTER_OPERATIONS = {} THEN routines
    ELSE SelectSeq(routines, LAMBDA routine : routine \in operations)

Routines(job) ==
    LET asked  == ToSet(job.operations)
        legacy == IF asked \cap ({"legacy"} \cup LEGACY_FILTER_OPERATIONS) = {} THEN << >>
                  ELSE LegacyRoutines(job.shape)
        other  == SelectSeq(job.operations, LAMBDA op : op # "legacy" /\ op \notin LEGACY_FILTER_OPERATIONS)
    IN FilterLegacyRows(legacy \o other, asked)

\* process_group_key: what makes rows the rows of one routine.
ProcessGroupKey(job, routine) ==
    [case |-> routine, shape |-> job.shape.name, m |-> job.shape.m, n |-> job.shape.n,
     k |-> IF routine \in COMPACT_BANDED_OPERATIONS THEN job.shape.bandwidth ELSE -1]

\* The rows of a process.  Its first routine is the one a reply speaks of: it has the
\* reply's value, fails its check, is printed twice or is not printed.
WorkerRows(job, reply) ==
    LET routines == Routines(job)
        wrong(i) == i = 1 /\ reply.first = "failed"
        row(i)   == [key |-> ProcessGroupKey(job, routines[i]),
                     status |-> IF wrong(i) THEN "correctness_failed" ELSE "ok",
                     check |-> IF wrong(i) THEN "correctness_failed" ELSE "sampled-ok",
                     value |-> IF i = 1 THEN reply.value ELSE 1]
        rows == [i \in DOMAIN routines |-> row(i)]
    IN CASE reply.first = "lost"  -> Tail(rows)
         [] reply.first = "twice" -> <<rows[1]>> \o rows
         [] OTHER                 -> rows

-----------------------------------------------------------------------------
\* ---------------------------------------------------------------- the fold
NoRow == [status |-> "none", check |-> "none", value |-> 0]
RowFor(rows, key) ==
    LET hit == {i \in DOMAIN rows : rows[i].key = key}
    IN IF hit = {} THEN NoRow ELSE rows[CHOOSE i \in hit : TRUE]

RepeatRowEligible(row) ==
    row.status = "ok" /\ row.check \in {"sampled-ok", "checked-ok"} /\ Usable(row.value)

RepeatFailureStatus(rows) ==
    LET seen == UNION {{rows[i].status, rows[i].check} : i \in DOMAIN rows}
    IN IF (\E i \in DOMAIN rows : rows[i] = NoRow) \/ "error" \in seen THEN "error"
       ELSE IF "missing" \in seen THEN "missing"
       ELSE IF "correctness_failed" \in seen THEN "correctness_failed"
       ELSE "error"

\* The best repeat gives the row; every repeat must be eligible for it to be "ok".
AggregateRepeatGroup(key, rows) ==
    LET eligible == SelectSeq(rows, RepeatRowEligible)
        values   == [i \in DOMAIN eligible |-> eligible[i].value]
        whole    == Len(eligible) = Len(rows)
    IN [case |-> key, repeats |-> Len(rows), successful |-> Len(eligible),
        status |-> IF whole THEN "ok" ELSE RepeatFailureStatus(rows),
        check  |-> IF whole THEN "sampled-ok" ELSE RepeatFailureStatus(rows)]
       @@ Summary(values)

\* No process printed a routine twice, and no row that says "ok" has an unusable rate.
RepeatsValid(processes) ==
    \A r \in DOMAIN processes :
        /\ IsInjective([i \in DOMAIN processes[r] |-> processes[r][i].key])
        /\ \A i \in DOMAIN processes[r] :
              processes[r][i].status = "ok" => ValidPerformance(processes[r][i], {"value"})

\* One row for every routine that any repeat printed.
AggregateWorkerRepeats(job, processes) ==
    LET seen == UNION {{row.key : row \in ToSet(processes[r])} : r \in DOMAIN processes}
        keys == SelectSeq([i \in DOMAIN Routines(job) |-> ProcessGroupKey(job, Routines(job)[i])],
                          LAMBDA key : key \in seen)
    IN [i \in DOMAIN keys |->
           AggregateRepeatGroup(keys[i], [r \in DOMAIN processes |-> RowFor(processes[r], keys[i])])]

-----------------------------------------------------------------------------
\* ---------------------------------------------------------------- the controller
Init == Start(Requests)

\* An empty list of jobs is no error: the report has only its heading.
Level2Prepare ==
    LET libs  == ExistingLibraries(request)
        ready == /\ Level2CommandAccepted(request) /\ libs # << >>
                 /\ ValidateUniqueLibraryLabels(libs)
                 /\ ValidateSchedule(Len(libs), request.repeats, Level2Schedule(request))
    IN /\ phase = "prepare"
       /\ cases' = IF ready THEN ExecutableJobs(request) ELSE << >>
       /\ selected' = libs
       /\ samples' = [l \in DOMAIN libs |-> [c \in DOMAIN cases' |-> << >>]]
       /\ \/ /\ ready /\ \A l \in DOMAIN libs : libs[l].there
             /\ phase' = "run" /\ UNCHANGED exit
          \/ End(2)
       /\ UNCHANGED <<request, position, drifted, outputs, report, ran>>

Few(reply) ==
    reply # Usual => Cardinality({i \in DOMAIN ran : ran[i].reply # Usual}) < MaxUnusual

\* The worker's exit status becomes the report's; a silent worker makes it 1.
Level2Measure ==
    /\ phase = "run" /\ position < Len(Schedule(Level2Schedule(request)))
    /\ IF drifted THEN End(2) /\ UNCHANGED <<position, samples, ran>>
       ELSE LET unit == Schedule(Level2Schedule(request))[position + 1]
            IN \E reply \in Replies :
                  IF reply.kind = "oserror" THEN End(2) /\ UNCHANGED <<position, samples, ran>>
                  ELSE IF reply.kind = "exit" THEN End(reply.code) /\ UNCHANGED <<position, samples, ran>>
                  ELSE LET rows == WorkerRows(cases[unit[2]], reply)
                       IN IF rows = << >> THEN End(1) /\ UNCHANGED <<position, samples, ran>>
                          ELSE /\ Few(reply) /\ Collect(unit, rows, reply)
                               /\ UNCHANGED <<phase, exit>>
    /\ UNCHANGED <<plan, drifted, outputs, report>>

Level2Fold ==
    /\ phase = "run" /\ position = Len(Schedule(Level2Schedule(request)))
    /\ IF \A l \in DOMAIN selected, c \in DOMAIN cases : RepeatsValid(samples[l][c])
       THEN /\ outputs' = FlattenSeq([l \in DOMAIN selected |->
                 FlattenSeq([c \in DOMAIN cases |->
                    LET rows == AggregateWorkerRepeats(cases[c], samples[l][c])
                    IN [i \in DOMAIN rows |-> [library |-> selected[l].label] @@ rows[i]]])])
            /\ phase' = "finalize" /\ UNCHANGED exit
       ELSE End(2) /\ UNCHANGED outputs
    /\ UNCHANGED <<plan, position, samples, drifted, report, ran>>

Next == Level2Prepare \/ Level2Measure \/ Level2Fold \/ Finalize \/ Publish \/ Drift \/ Ended

Spec == Init /\ [][Next]_vars

-----------------------------------------------------------------------------
\* ---------------------------------------------------------------- the checker
Level2RowAllowed(o, row) == o.case = "any" \/ row.case.case = o.case

Unchecked(row) == row.status # "ok" \/ row.check \notin {"sampled-ok", "checked-ok"}

Level2Metric(o, row) == CASE o.stat = "best"   -> 2 * row.most
                          [] o.stat = "median" -> row.median
                          [] o.stat = "min"    -> 2 * row.least

Cardinalities(row) == <<row.repeats, row.successful, Len(row.samples)>>
EvidenceCardinality(row) ==
    row.repeats > 0 /\ row.successful = row.repeats /\ Len(row.samples) = row.successful

Level2Passes(o, zynum, others) ==
    LET ratio == PositiveFiniteRatio(Level2Metric(o, zynum),
                                     BestHigher({Level2Metric(o, row) : row \in others}))
    IN IF ratio = 0 THEN "refused" ELSE IF ratio < o.ratio THEN "fails" ELSE "passes"

\* The exit status.  An unchecked row of a comparator is left out, one of Zynum is refused.
Level2CheckReport(rows, o) ==
    LET allowed == {i \in DOMAIN rows : Level2RowAllowed(o, rows[i])}
        used    == {i \in allowed : o.unchecked \/ ~Unchecked(rows[i])}
    IN IF \/ ~Usable(o.ratio)
          \/ \E i \in allowed \ used : rows[i].library = o.zynum
          \/ \E i \in used : ~EvidenceCardinality(rows[i]) \/ ~Usable(Level2Metric(o, rows[i]))
          \/ Doubled(rows, used)
          \/ \E i, j \in used : /\ rows[i].case = rows[j].case
                                /\ Cardinalities(rows[i]) # Cardinalities(rows[j])
       THEN 2
       ELSE Conclude(Rows(rows, used), o, {"zynum-blas"},
                     LAMBDA zynum, others : Level2Passes(o, zynum, others))

-----------------------------------------------------------------------------
TypeOK ==
    /\ request \in Requests
    /\ phase \in {"prepare", "run", "finalize", "publish", "done"}
    /\ exit \in {Running, 0, 1, 2, 3}
    /\ Len(ran) = position
    /\ \A l \in DOMAIN samples : \A c \in DOMAIN samples[l] : Len(samples[l][c]) <= request.repeats

\* The values library l's processes printed for a routine of case c, in repeat order.
Printed(l, c, key) ==
    LET runs == SelectSeq(ran, LAMBDA run : run.unit[1] = l /\ run.unit[2] = c)
    IN [r \in DOMAIN runs |-> RowFor(runs[r].row, key)]

\* A published report: nothing drifted; every routine that some repeat of a job printed has a
\* row, whose samples are that library's eligible values in repeat order; and a row says "ok"
\* only if every repeat printed the routine, found it right and timed it.
\* (aggregate_worker_repeats, aggregate_repeat_group, run_controller.)
Level2IsWhole ==
    report # << >> =>
        /\ ~drifted
        /\ \A l \in DOMAIN selected, c \in DOMAIN cases : \A i \in DOMAIN Routines(cases[c]) :
             LET key     == ProcessGroupKey(cases[c], Routines(cases[c])[i])
                 printed == Printed(l, c, key)
                 good    == SelectSeq(printed, RepeatRowEligible)
             IN (\E r \in DOMAIN printed : printed[r] # NoRow) =>
                  \E j \in DOMAIN report :
                     /\ report[j].library = selected[l].label /\ report[j].case = key
                     /\ report[j].samples = [r \in DOMAIN good |-> good[r].value]
                     /\ (report[j].status = "ok") <=> (Len(good) = request.repeats)

\* The routine in a row is the routine of one job only: no two jobs' rows of one library can
\* be told apart by less than the key, and a key stands for one shape and bandwidth.
\* (process_group_key, requested_shapes, unique_preserving_order.)
RoutinesApart ==
    \A c, d \in DOMAIN cases : \A i \in DOMAIN Routines(cases[c]), j \in DOMAIN Routines(cases[d]) :
        ProcessGroupKey(cases[c], Routines(cases[c])[i]) = ProcessGroupKey(cases[d], Routines(cases[d])[j])
            => cases[c].shape = cases[d].shape

\* A check that passes compared some routine, found none twice, and for every allowed routine
\* of Zynum all its repeats were checked and it was no slower than each comparator that was
\* checked in as many repeats.  (check_level2_report.main.)
Level2PassIsEarned ==
    (phase = "done" /\ report # << >>) =>
        \A o \in Options : Level2CheckReport(report, o) = 0 =>
            LET inside == {i \in DOMAIN report : Level2RowAllowed(o, report[i])}
                zynum  == {i \in inside : report[i].library = o.zynum}
                rivals(i) == {j \in inside : /\ report[j].library \in o.comparators
                                             /\ report[j].case = report[i].case
                                             /\ report[j].successful = request.repeats}
            IN /\ \A i, j \in zynum : i # j => report[i].case # report[j].case
               /\ \E i \in zynum : rivals(i) # {}
               /\ \A i \in zynum :
                    /\ report[i].successful = request.repeats
                    /\ rivals(i) = {} => o.missingOk
                    /\ \A j \in rivals(i) :
                          Level2Metric(o, report[i]) * Scale >= o.ratio * Level2Metric(o, report[j])
=============================================================================
