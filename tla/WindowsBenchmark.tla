--------------------------- MODULE WindowsBenchmark ---------------------------
(***************************************************************************)
(* bench/tools/run_windows_benchmark.py ("local": Zynum alone) and         *)
(* run_windows_comparison.py ("comparison": several libraries, taking      *)
(* turns).  Neither uses the snapshot and publication layer: they write    *)
(* planned_cases.json, raw.jsonl, records.json and metadata.json in place, *)
(* in a directory of their own, while the programs they time may change.   *)
(* A rate is a whole number (every sum of two of them is even), 0 is one   *)
(* that is not finite and positive.                                        *)
(***************************************************************************)
EXTENDS Integers, Sequences, FiniteSets, SequencesExt

CONSTANTS Requests,     \* the command lines
          MaxUnusual,   \* replies of processes that are not the usual one
          MaxDrift,     \* changes of a measured program by others
          Nothing,      \* what is not there
          Torn          \* a file truncated and not yet written again

VARIABLES request,      \* the command line of this run
          phase,        \* where the runner is
          disk,         \* its four files
          job, unit,    \* the job, and how much of its schedule is done
          collected,    \* the replies of this job, in the order of its schedule
          folded,       \* the records this job has added so far
          records,      \* Runner.records
          artifact,     \* the version of the programs on disk
          returned,     \* ghost: an earlier version has come back
          before,       \* artifacts_before
          ran,          \* ghost: every process: job, place, repeat, library, version, rows
          exit

runVars == <<request, phase, disk, job, unit, collected, folded, records, artifact, returned,
          before, ran, exit>>

\* ---------------------------------------------------------------- the plan
FAMILIES == <<"level2", "gemm", "rotg">>
LEVEL2_KEYS == <<"dgemv", "cgemv">>
README_KEYS == 1
WORK == 12

\* One job is one process per library and repeat: a Level 2 worker runs every routine of
\* a size, the other families one case.
CasesOf(r, family) ==
    CASE family = "level2" -> IF r.profile = "readme" THEN SubSeq(LEVEL2_KEYS, 1, README_KEYS)
                              ELSE LEVEL2_KEYS
      [] family = "gemm"   -> <<"dgemm">>
      [] family = "rotg"   -> <<"drotg">>

JobsFor(r) ==
    LET asked == SelectSeq(FAMILIES, LAMBDA f : f \in r.families /\ (r.profile = "readme" => f # "rotg"))
    IN [i \in DOMAIN asked |-> [family |-> asked[i], cases |-> CasesOf(r, asked[i])]]

PlannedCases(r) ==
    UNION {{[family |-> j.family, case |-> c, library |-> l] :
               c \in ToSet(j.cases), l \in ToSet(r.libraries)} : j \in ToSet(JobsFor(r))}

\* In every repeat each library once, starting one place further than in the last.
InterleavedSchedule(libraries, repeats) ==
    [i \in 1..(repeats * Len(libraries)) |->
        LET repeat == (i - 1) \div Len(libraries)
            offset == (i - 1) % Len(libraries)
        IN <<repeat + 1, libraries[((repeat + offset) % Len(libraries)) + 1]>>]

SchedulePositionBalanced(r) == r.repeats % Len(r.libraries) = 0

Schedule == InterleavedSchedule(request.libraries, request.repeats)
Jobs == JobsFor(request)
Job == Jobs[job]

Identity(r) == [family |-> r.family, case |-> r.case, library |-> r.library]

\* Every planned record once and no other.
Coverage(r, recs) ==
    /\ IsInjective([i \in DOMAIN recs |-> Identity(recs[i])])
    /\ {Identity(recs[i]) : i \in DOMAIN recs} = PlannedCases(r)

\* ---------------------------------------------------------------- one process
Row(status, check, rate) == [status |-> status, check |-> check, rate |-> rate]
ErrorRow == Row("error", "error", 0)
MissingRow == Row("missing", "missing", 0)

Usual == "usual"
Replies == {"usual", "failed", "unusable", "exit", "omits", "extra"}

\* Every second process is slower.
RateOf(reply, repeat) == IF reply = "unusable" THEN 0 ELSE IF repeat % 2 = 0 THEN 6 ELSE 12

AllRows(cases, row) == [c \in ToSet(cases) |-> row]

\* What the runner makes of a process: a row for each case the worker printed, or the
\* error, under every planned case (comparison) or under a name of its own (local).
Execute(j, library, repeat, reply) ==
    LET check   == IF reply = "failed" THEN "failed" ELSE "sampled-ok"
        row     == Row("ok", check, RateOf(reply, repeat))
        printed == IF reply = "omits" THEN SubSeq(j.cases, 1, Len(j.cases) - 1) ELSE j.cases
        refused == \/ library \in request.unavailable \/ reply = "exit"
                   \/ j.family # "level2" /\ reply \in {"omits", "extra"}      \* not one row
                   \/ request.mode = "local" /\ printed = << >>
                   \/ request.mode = "comparison" /\ reply = "extra"           \* not in the plan
                   \/ request.mode = "comparison" /\ j.family = "gemm" /\ reply = "unusable"
    IN IF refused
         THEN AllRows(IF request.mode = "local" /\ j.family = "level2" THEN <<"worker">> ELSE j.cases,
                      ErrorRow)
         ELSE AllRows(IF reply = "extra" THEN printed \o <<"unplanned">> ELSE printed, row)

RowFor(rows, case) == IF case \in DOMAIN rows THEN rows[case] ELSE MissingRow

\* The cases that get a record: the planned ones and, in a local run, every other name a
\* worker of the job brought.
RecordedCases ==
    Job.cases \o (IF request.mode = "comparison" THEN << >>
                  ELSE SetToSeq(UNION {DOMAIN collected[i] : i \in DOMAIN collected} \ ToSet(Job.cases)))

\* ---------------------------------------------------------------- the records
Ascending(values) == SortSeq(values, LAMBDA a, b : a < b)
Median(values) ==
    LET s == Ascending(values)  n == Len(values)
    IN IF n % 2 = 1 THEN s[(n + 1) \div 2] ELSE (s[n \div 2] + s[(n \div 2) + 1]) \div 2

Valid(row) == row.status = "ok" /\ row.check \in {"sampled-ok", "checked-ok"} /\ row.rate > 0

Rates(rows) == LET valid == SelectSeq(rows, Valid) IN [i \in DOMAIN valid |-> valid[i].rate]

\* A comparison takes a GEMM aggregate from the times: the rate of the median time is not
\* the median of the rates when their number is even.
Aggregate(family, rates) ==
    IF family # "gemm" \/ request.mode = "local" THEN [least |-> Ascending(rates)[1], median |-> Median(rates),
                             most |-> Ascending(rates)[Len(rates)]]
    ELSE LET times == [i \in DOMAIN rates |-> 2 * (WORK \div rates[i])]
         IN [least  |-> (2 * WORK) \div Ascending(times)[Len(times)],
             median |-> (2 * WORK) \div Median(times),
             most   |-> (2 * WORK) \div Ascending(times)[1]]

NoAggregate == [least |-> Nothing, median |-> Nothing, most |-> Nothing]

Summarize(family, case, library, rows, expected) ==
    LET rates    == Rates(rows)
        complete == Len(rows) = expected /\ Len(rates) = expected
    IN [family |-> family, case |-> case, library |-> library, repeats |-> expected,
        successful |-> Len(rates), samples |-> rates,
        status |-> IF complete THEN "ok" ELSE "failed",
        aggregate |-> IF complete THEN Aggregate(family, rates) ELSE NoAggregate]

\* The places of a library in the schedule, in repeat order.
PlacesOf(library) == SetToSortSeq({i \in DOMAIN Schedule : Schedule[i][2] = library}, <)

RowsOf(case, library) ==
    LET places == PlacesOf(library) IN [k \in DOMAIN places |-> RowFor(collected[places[k]], case)]

RecordsOf(cases) ==
    FlattenSeq([c \in DOMAIN cases |-> [l \in DOMAIN request.libraries |->
        Summarize(Job.family, cases[c], request.libraries[l],
                  RowsOf(cases[c], request.libraries[l]), request.repeats)]])
-----------------------------------------------------------------------------
NoFiles == [plan |-> Nothing, raw |-> {}, records |-> Nothing, metadata |-> Nothing]

StartOfRun ==
    /\ request \in Requests
    /\ phase = "start" /\ disk = NoFiles
    /\ job = 1 /\ unit = 0 /\ collected = << >> /\ folded = 0 /\ records = << >>
    /\ artifact = 0 /\ returned = FALSE /\ before = 0
    /\ ran = << >> /\ exit = Nothing

\* The directory must be new; the plan, the digests and the metadata of a run that has not
\* completed are written before the first process starts.
Begin ==
    /\ phase = "start"
    /\ disk' = [disk EXCEPT !.plan = PlannedCases(request),
                    !.metadata = [completed |-> FALSE, covered |-> FALSE, unchanged |-> FALSE,
                                  planned |-> PlannedCases(request), profile |-> request.profile,
                                  balanced |-> SchedulePositionBalanced(request)]]
    /\ before' = artifact
    /\ phase' = "run"
    /\ UNCHANGED <<request, job, unit, collected, folded, records, artifact, returned, ran, exit>>

\* raw.jsonl of a local run is left out: nothing reads it.
RunUnit ==
    /\ phase = "run" /\ job <= Len(Jobs) /\ unit < Len(Schedule)
    /\ \E reply \in Replies :
       LET turn == Schedule[unit + 1]
           rows == Execute(Job, turn[2], turn[1], reply)
       IN /\ reply # Usual => Cardinality({i \in DOMAIN ran : ran[i].reply # Usual}) < MaxUnusual
          /\ turn[2] \in request.unavailable => reply = Usual
          /\ collected' = Append(collected, rows)
          /\ ran' = Append(ran, [family |-> Job.family, place |-> unit % Len(request.libraries),
                                 repeat |-> turn[1], library |-> turn[2], version |-> artifact,
                                 reply |-> reply, rows |-> rows])
          /\ disk' = IF request.mode = "local" THEN disk
                     ELSE [disk EXCEPT !.raw = @ \cup
                              {[family |-> Job.family, case |-> c, library |-> turn[2],
                                repeat |-> turn[1], row |-> RowFor(rows, c)] : c \in ToSet(Job.cases)}]
    /\ unit' = unit + 1
    /\ UNCHANGED <<request, phase, job, folded, records, artifact, returned, before, exit>>

\* run_job adds the records of all cases, then saves; group adds one, then saves.
Fold ==
    /\ phase = "run" /\ job <= Len(Jobs) /\ unit = Len(Schedule) /\ folded < Len(RecordedCases)
    /\ LET cases == IF request.mode = "comparison" THEN RecordedCases
                    ELSE <<RecordedCases[folded + 1]>>
       IN /\ records' = records \o RecordsOf(cases)
          /\ folded' = folded + Len(cases)
          /\ disk' = [disk EXCEPT !.records = Torn]
    /\ phase' = "save"
    /\ UNCHANGED <<request, job, unit, collected, artifact, returned, before, ran, exit>>

Save ==
    /\ phase = "save"
    /\ disk' = [disk EXCEPT !.records = records]
    /\ phase' = "run"
    /\ IF folded = Len(RecordedCases)
       THEN job' = job + 1 /\ unit' = 0 /\ folded' = 0 /\ collected' = << >>
       ELSE UNCHANGED <<job, unit, folded, collected>>
    /\ UNCHANGED <<request, records, artifact, returned, before, ran, exit>>

LoopIsOver == job > Len(Jobs)

\* The loop is over, or an interrupt (which is no Exception) leaves it: the finally part
\* saves the records again, with completed as the loop left it.
Leave ==
    /\ phase \in {"run", "save"}
    /\ disk' = [disk EXCEPT !.records = Torn]
    /\ phase' = IF LoopIsOver THEN "completed" ELSE "interrupted"
    /\ UNCHANGED <<request, job, unit, collected, folded, records, artifact, returned, before, ran, exit>>

RunCompleted == phase = "completed"

SaveAgain ==
    /\ phase \in {"completed", "interrupted"} /\ disk.records = Torn
    /\ disk' = [disk EXCEPT !.records = records]
    /\ UNCHANGED <<request, phase, job, unit, collected, folded, records, artifact, returned, before, ran, exit>>

ArtifactsUnchanged(a, b) == a = b

Report ==
    /\ phase \in {"completed", "interrupted"} /\ disk.records # Torn
    /\ LET metadata == [disk.metadata EXCEPT !.completed = RunCompleted,
                                             !.unchanged = ArtifactsUnchanged(before, artifact),
                                             !.covered = Coverage(request, records)]
           good     == /\ metadata.completed /\ metadata.covered /\ metadata.unchanged
                       /\ records # << >> /\ \A i \in DOMAIN records : records[i].status = "ok"
       IN /\ disk' = [disk EXCEPT !.metadata = metadata]
          /\ exit' = CASE phase = "interrupted" -> 130 [] good -> 0 [] OTHER -> 1
    /\ phase' = "done"
    /\ UNCHANGED <<request, job, unit, collected, folded, records, artifact, returned, before, ran>>

\* The runner is killed, also while it writes.
Kill ==
    /\ phase \notin {"start", "done", "killed"}
    /\ phase' = "killed"
    /\ disk' \in {disk, [disk EXCEPT !.metadata = Torn]}
    /\ disk' # disk => phase \in {"completed", "interrupted"} /\ disk.records # Torn
    /\ UNCHANGED <<request, job, unit, collected, folded, records, artifact, returned, before, ran, exit>>

\* Others rebuild or restore the measured programs.
Drift ==
    /\ \E version \in 0..MaxDrift :
       /\ version # artifact
       /\ returned' = (returned \/ version < artifact)
       /\ artifact' = version
    /\ ~returned /\ phase \notin {"done", "killed"}
    /\ UNCHANGED <<request, phase, disk, job, unit, collected, folded, records, before, ran, exit>>

Runner == Begin \/ RunUnit \/ Fold \/ Save \/ Leave \/ SaveAgain \/ Report

-----------------------------------------------------------------------------
(***************************************************************************)
(* bench/tools/plot_windows_benchmark.py and plot_windows_comparison.py:   *)
(* another process that reads the files of a run, one after the other and  *)
(* at any time, also while the run is still going, and draws what it       *)
(* accepts.                                                                *)
(***************************************************************************)

VARIABLES reading,      \* how many files the plotter has read
          seen,         \* their contents
          chart         \* the bars and the listed failures, or that it was refused

vars == <<runVars, reading, seen, chart>>

NoChart == [state |-> "none"]
Refused == [state |-> "refused"]

Init == StartOfRun /\ reading = 0 /\ seen = NoFiles /\ chart = NoChart

\* The local plotter reads the records before the metadata, the other one after it.
ReadOrder == IF request.mode = "local" THEN <<"records", "metadata", "plan">>
             ELSE <<"metadata", "records", "plan", "raw">>

\* validate_raw: the lines of a record, in repeat order, give the same samples again.
RawAgrees(record, raw) ==
    LET lines == {line \in raw : Identity(line) = Identity(record)}
    IN /\ {line.repeat : line \in lines} = 1..record.repeats
       /\ Cardinality(lines) = record.repeats
       /\ LET rows  == [k \in 1..record.repeats |-> (CHOOSE line \in lines : line.repeat = k).row]
              rates == Rates(rows)
          IN /\ record.samples = rates /\ record.successful = Len(rates)
             /\ IF Len(rates) = record.repeats
                THEN record.aggregate = Aggregate(record.family, rates)
                ELSE record.status = "failed" /\ record.aggregate = NoAggregate

ValidateRaw(recs, raw) ==
    /\ {Identity(line) : line \in raw} = {Identity(recs[i]) : i \in DOMAIN recs}
    /\ \A i \in DOMAIN recs : RawAgrees(recs[i], raw)

Eligible(record) ==
    /\ record.status = "ok" /\ record.successful = record.repeats /\ record.repeats >= 3
    /\ record.aggregate # NoAggregate

\* What the local plotter asks of a record instead.
Checked(record) ==
    /\ Eligible(record)
    /\ record.aggregate.least <= record.aggregate.median
    /\ record.aggregate.median <= record.aggregate.most

Drawable(record) == IF request.mode = "local" THEN Checked(record) ELSE Eligible(record)

\* The records are the planned ones, each once.
bugPlanNotCompared(recs, plan) == IsInjective([i \in DOMAIN recs |-> Identity(recs[i])])
RecordsMatchPlan(recs, plan) ==
    /\ IsInjective([i \in DOMAIN recs |-> Identity(recs[i])])
    /\ {Identity(recs[i]) : i \in DOMAIN recs} = plan

RunAccepted(metadata) == metadata.completed /\ metadata.covered /\ metadata.unchanged

Accepted(files) ==
    /\ RunAccepted(files.metadata)
    /\ files.metadata.planned = files.plan
    /\ RecordsMatchPlan(files.records, files.plan)
    /\ request.mode = "comparison" =>
       /\ files.metadata.profile = "readme"
       /\ ValidateRaw(files.records, files.raw)
       \* every requested library has something to show
       /\ {p.library : p \in files.plan} =
             {files.records[i].library : i \in {j \in DOMAIN files.records : Eligible(files.records[j])}}

Drawing(recs) ==
    [state  |-> "drawn",
     bars   |-> {[id |-> Identity(recs[i]), aggregate |-> recs[i].aggregate] :
                     i \in {j \in DOMAIN recs : Drawable(recs[j])}},
     failed |-> {Identity(recs[i]) : i \in {j \in DOMAIN recs : ~Drawable(recs[j])}}]

Verdict(files) == IF Accepted(files) THEN Drawing(files.records) ELSE Refused

\* Files that are not there or half written, and metadata of a run that is not to be drawn,
\* are refused whatever the other files say.
Hopeless(file) == \/ disk[file] \in {Nothing, Torn}
                  \/ file = "metadata" /\ ~RunAccepted(disk[file])

\* One file is read; with the last one the plotter decides.
Plot ==
    /\ chart = NoChart /\ phase # "start"
    /\ LET file == ReadOrder[reading + 1]
           now  == [seen EXCEPT ![file] = disk[file]]
       IN IF Hopeless(file) \/ reading + 1 = Len(ReadOrder)
          THEN /\ chart' = IF Hopeless(file) THEN Refused ELSE Verdict(now)
               /\ reading' = 0 /\ seen' = NoFiles
          ELSE reading' = reading + 1 /\ seen' = now /\ UNCHANGED chart
    /\ UNCHANGED runVars

Next == \/ (Runner \/ Kill \/ Drift) /\ UNCHANGED <<reading, seen, chart>>
        \/ Plot
        \/ phase \in {"done", "killed"} /\ chart # NoChart /\ UNCHANGED vars

Spec == Init /\ [][Next]_vars

-----------------------------------------------------------------------------
\* The runner and the plotter keep their bookkeeping together: jobs and places in the
\* schedule in range, ghosts in step with what is collected, at most one chart.
TypeOK ==
    /\ request \in Requests
    /\ phase \in {"start", "run", "save", "completed", "interrupted", "done", "killed"}
    /\ job \in 1..(Len(Jobs) + 1) /\ unit \in 0..Len(Schedule) /\ Len(collected) = unit
    /\ (phase \in {"completed"}) => job = Len(Jobs) + 1
    /\ artifact \in 0..MaxDrift /\ before \in 0..MaxDrift
    /\ exit \in {Nothing, 0, 1, 130}
    /\ reading \in 0..Len(ReadOrder) /\ chart.state \in {"none", "refused", "drawn"}
    /\ Len(ran) = unit + Len(Schedule) * (job - 1)

Replied(id) ==
    LET places == {i \in DOMAIN ran : ran[i].family = id.family /\ ran[i].library = id.library}
    IN {RowFor(ran[i].rows, id.case) : i \in places}

Measured(id) ==
    LET mine == SelectSeq(ran, LAMBDA u : u.family = id.family /\ u.library = id.library)
    IN [k \in DOMAIN mine |-> RowFor(mine[k].rows, id.case).rate]

\* Every bar of a chart is the middle of what every one of the asked-for processes of that
\* case and library measured and checked, whatever of the run the plotter saw and when.
BarsAreMeasured ==
    chart.state = "drawn" =>
        \A bar \in chart.bars :
            /\ \A row \in Replied(bar.id) : row.status = "ok" /\ row.check = "sampled-ok" /\ row.rate > 0
            /\ Len(Measured(bar.id)) = request.repeats
            /\ LET m == Measured(bar.id)
                   at(x) == Cardinality({k \in DOMAIN m : m[k] <= x})
                   from(x) == Cardinality({k \in DOMAIN m : m[k] >= x})
               IN 2 * at(bar.aggregate.median) >= Len(m) /\ 2 * from(bar.aggregate.median) >= Len(m)

\* A chart accounts for every case and library that was asked for, as a bar or as a
\* failure it lists: a library that is not there, a worker that prints too little or too
\* much, an interrupted or a running run never makes the chart smaller.
NothingIsDropped ==
    chart.state = "drawn" =>
        {bar.id : bar \in chart.bars} \cup chart.failed = PlannedCases(request)

\* What is drawn was timed on the programs whose digests the run recorded, unless somebody
\* put an earlier version back before the run ended.
TimedWhatIsRecorded ==
    chart.state = "drawn" /\ ~returned => \A i \in DOMAIN ran : ran[i].version = before

\* Exit 0 means that every planned case was measured well in every process, and that the
\* plotter of such a run draws it all (the comparison plotter knows one profile only).
ExitTellsTruth ==
    exit = 0 =>
        /\ \A id \in PlannedCases(request) :
               Len(Measured(id)) = request.repeats
               /\ \A row \in Replied(id) : row.status = "ok" /\ row.check = "sampled-ok" /\ row.rate > 0
        /\ request.mode = "comparison" => (Accepted(disk) <=> request.profile = "readme")
        /\ request.mode = "local" => Accepted(disk) /\ Drawing(disk.records).failed = {}

\* A finished run that says its schedule is balanced ran every library equally often in
\* every place of a round; any run gave every library the same number of processes.
TurnsAreFair ==
    phase = "done" /\ exit # 130 =>
        \A l1, l2 \in ToSet(request.libraries) :
            LET times(l, p) == Cardinality({i \in DOMAIN ran : ran[i].library = l /\ ran[i].place \in p})
                all         == 0..(Len(request.libraries) - 1)
            IN /\ times(l1, all) = times(l2, all)
               /\ disk.metadata.balanced => \A p \in all : times(l1, {p}) = times(l2, {p})
=============================================================================
