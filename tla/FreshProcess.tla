---------------------------- MODULE FreshProcess ----------------------------
(***************************************************************************)
(* What the report runners of bench/tools share: libraries are chosen,     *)
(* artifacts are frozen, one fresh process runs per library, case and      *)
(* repeat, the repeats of a unit are folded into one row, the artifacts    *)
(* are checked a last time and closed, and only then are files published.  *)
(* The runners themselves (StructuredReports, GemmReport, Level1Report,    *)
(* Level2Report) say which cases there are and what an answer means.       *)
(***************************************************************************)
EXTENDS RepeatEvidence

CONSTANTS Replies,      \* what a probe process may answer
          Usual,        \* the answer most of them give, and
          MaxUnusual    \* the number of others within one run

VARIABLES
    request,            \* the command line, and the tool it was given to
    phase, exit,        \* of run_controller and of the process; exit is -1 until it ends
    cases, selected,    \* the cases and libraries of this run
    position,           \* units of the schedule done
    samples,            \* library -> case -> rows in repeat order
    drifted,            \* some frozen artifact no longer has its recorded bytes
    outputs, report,    \* the rows to be published; the rows on disk
    ran                 \* history: the unit and the row of every process

vars == <<request, phase, exit, cases, selected, position, samples, drifted, outputs,
          report, ran>>

Running == -1
plan == <<request, cases, selected>>

Start(requests) ==
    /\ request \in requests
    /\ phase = "prepare" /\ exit = Running /\ cases = << >> /\ selected = << >>
    /\ position = 0 /\ samples = << >> /\ drifted = FALSE
    /\ outputs = << >> /\ report = << >> /\ ran = << >>

-----------------------------------------------------------------------------
(* bench/tools/report_schedule.py: in which order the fresh processes of a report are *)
(* started.  A unit is <<library, case, repeat>>, counted from 1.                      *)

SCHEDULE_CHOICES == {"library-major", "interleaved"}

ValidateUniqueLibraryLabels(libraries) ==
    IsInjective([i \in DOMAIN libraries |-> NormalizedLibraryLabel(libraries[i].label)])

ValidateSchedule(libraryCount, repeats, schedule) ==
    /\ schedule \in SCHEDULE_CHOICES
    /\ libraryCount >= 1
    /\ repeats >= 1
    /\ schedule = "interleaved" => repeats % libraryCount = 0

bugNoRotation(libraryCount, repeat, case) == [p \in 1 .. libraryCount |-> p]
\* One cyclic rotation of the libraries.
RepeatLibraryOrder(libraryCount, repeat, case) ==
    [p \in 1 .. libraryCount |-> ((repeat + case + p - 3) % libraryCount) + 1]

LibraryRepeatSchedule(libraryCount, repeats, schedule, caseCount) ==
    LET total == libraryCount * caseCount * repeats
    IN IF schedule = "library-major"
       THEN [i \in 1 .. total |->
                <<((i - 1) \div (caseCount * repeats)) + 1,
                  (((i - 1) \div repeats) % caseCount) + 1,
                  ((i - 1) % repeats) + 1>>]
       ELSE [i \in 1 .. total |->
                LET repeat == ((i - 1) \div (caseCount * libraryCount)) + 1
                    case   == (((i - 1) \div libraryCount) % caseCount) + 1
                IN <<RepeatLibraryOrder(libraryCount, repeat, case)[((i - 1) % libraryCount) + 1],
                     case, repeat>>]

-----------------------------------------------------------------------------
\* unique_preserving_order
Unique(values) ==
    LET first == {i \in DOMAIN values : \A j \in 1 .. i - 1 : values[j] # values[i]}
    IN [n \in 1 .. Cardinality(first) |->
           values[CHOOSE i \in first : Cardinality({j \in first : j <= i}) = n]]

OrElse(values, default) == IF values = << >> THEN default ELSE values

\* What one option may say, each as a record of its own; and every choice from a sequence
\* of such lists, the last list varying fastest.
Alternatives(field, values) == [i \in DOMAIN values |-> (field :> values[i])]

Product(lists) ==
    FoldLeft(LAMBDA done, list :
                 FlattenSeq([d \in DOMAIN done |-> [v \in DOMAIN list |-> done[d] @@ list[v]]]),
             << << >> >>, lists)

\* The rows of a table that are asked for by name, in the order in which they are asked for.
Listed(table, field, names) ==
    LET chosen == Unique(OrElse(names, [i \in DOMAIN table |-> table[i][field]]))
    IN [i \in DOMAIN chosen |-> CHOOSE entry \in ToSet(table) : entry[field] = chosen[i]]

\* The first of the rows that have the highest value.
FirstMost(rows, of(_)) ==
    rows[CHOOSE i \in DOMAIN rows : /\ \A j \in DOMAIN rows : of(rows[j]) <= of(rows[i])
                                    /\ \A j \in 1 .. i - 1 : of(rows[j]) < of(rows[i])]

\* The first library must be there; a missing comparator is skipped or refused.
Chosen(libraries, skipMissing) ==
    IF ~libraries[1].there \/ (~skipMissing /\ \E i \in DOMAIN libraries : ~libraries[i].there)
    THEN << >>
    ELSE SelectSeq(libraries, LAMBDA library : library.there)

\* --process-schedule and its older name must agree.
AgreedSchedule(process, legacy) ==
    IF process # "none" /\ legacy # "none" /\ process # legacy THEN "conflict"
    ELSE IF process # "none" THEN process
    ELSE IF legacy # "none" THEN legacy ELSE "library-major"

End(code) == /\ phase' = "done" /\ exit' = code

-----------------------------------------------------------------------------
\* Everything that can be refused before any artifact is touched; then the capture.
Prepare(list, libraries, schedule) ==
    /\ phase = "prepare"
    /\ cases' = list /\ selected' = libraries
    /\ IF /\ request.probe /\ list # << >> /\ libraries # << >>
          /\ ValidateUniqueLibraryLabels(libraries)
          /\ ValidateSchedule(Len(libraries), request.repeats, schedule)
       THEN \/ /\ phase' = "run" /\ UNCHANGED exit
               /\ samples' = [l \in DOMAIN libraries |-> [c \in DOMAIN list |-> << >>]]
            \/ /\ End(2) /\ UNCHANGED samples      \* ArtifactSnapshotError
       ELSE End(2) /\ UNCHANGED samples
    /\ UNCHANGED <<request, position, drifted, outputs, report, ran>>

Schedule(schedule) ==
    LibraryRepeatSchedule(Len(selected), request.repeats, schedule, Len(cases))

bugUnitCountedTwice(unit, row, reply) ==
    /\ samples' = [samples EXCEPT ![unit[1]][unit[2]] = Append(@, row)]
    /\ ran' = Append(ran, [unit |-> unit, row |-> row, reply |-> reply])
    /\ position' = position + 2
\* A row joins the samples of its library and case.
Collect(unit, row, reply) ==
    /\ samples' = [samples EXCEPT ![unit[1]][unit[2]] = Append(@, row)]
    /\ ran' = Append(ran, [unit |-> unit, row |-> row, reply |-> reply])
    /\ position' = position + 1

\* Asking for the execution path checks the frozen bytes again.
Measure(schedule, row(_, _), aborts(_)) ==
    /\ phase = "run" /\ position < Len(Schedule(schedule))
    /\ IF drifted THEN End(2) /\ UNCHANGED <<position, samples, ran>>
       ELSE \E reply \in Replies :
             IF aborts(reply) THEN End(2) /\ UNCHANGED <<position, samples, ran>>
             ELSE
                LET unit == Schedule(schedule)[position + 1]
                    new  == row(cases[unit[2]], reply)
                IN /\ reply # Usual =>
                        Cardinality({i \in DOMAIN ran : ran[i].reply # Usual}) < MaxUnusual
                   /\ Collect(unit, new, reply)
                   /\ UNCHANGED <<phase, exit>>
    /\ UNCHANGED <<plan, drifted, outputs, report>>

\* The rows of the report, library by library and case by case; or a refusal.
Fold(schedule, valid(_), aggregate(_)) ==
    /\ phase = "run" /\ position = Len(Schedule(schedule))
    /\ IF \A l \in DOMAIN selected, c \in DOMAIN cases : valid(samples[l][c])
       THEN /\ outputs' = FlattenSeq([l \in DOMAIN selected |-> [c \in DOMAIN cases |->
                              [library |-> selected[l].label] @@ aggregate(samples[l][c])]])
            /\ phase' = "finalize" /\ UNCHANGED exit
       ELSE End(2) /\ UNCHANGED outputs
    /\ UNCHANGED <<plan, position, samples, drifted, report, ran>>

bugLastLookSkipped ==
    /\ phase = "finalize" /\ phase' = "publish" /\ UNCHANGED exit
    /\ UNCHANGED <<plan, position, samples, drifted, outputs, report, ran>>
\* artifacts.finalize looks at every frozen byte once more; close may fail after it.
Finalize ==
    /\ phase = "finalize"
    /\ \/ ~drifted /\ phase' = "publish" /\ UNCHANGED exit
       \/ End(2)
    /\ UNCHANGED <<plan, position, samples, drifted, outputs, report, ran>>

\* publish_outputs installs all files or none; its errors are not caught here.
Publish ==
    /\ phase = "publish"
    /\ \/ report' = outputs /\ End(0)
       \/ report' = outputs /\ End(1)       \* TransactionCompleteCleanupError
       \/ UNCHANGED report /\ End(1)
    /\ UNCHANGED <<plan, position, samples, drifted, outputs, ran>>

\* Somebody changes a frozen artifact.
Drift ==
    /\ phase \in {"run", "finalize"} /\ ~drifted /\ drifted' = TRUE
    /\ UNCHANGED <<plan, phase, exit, position, samples, outputs, report, ran>>

Ended == phase = "done" /\ UNCHANGED vars

-----------------------------------------------------------------------------
\* What a checker concludes from the rows it uses; passes says "passes", "fails" or
\* "refused" of a group that has a row of o.zynum and of a comparator.  Some checkers look
\* for an older label, too, when nobody named another one than "Zynum".
Conclude(used, o, older, passes(_, _)) ==
    LET keys      == {row.case : row \in used}
        named(k, labels) == {row \in used : row.case = k /\ row.library \in labels}
        zynum(k)  == IF named(k, {o.zynum}) = {} /\ o.zynum = "Zynum" THEN named(k, older)
                     ELSE named(k, {o.zynum})
        others(k) == named(k, o.comparators)
        compared  == {k \in keys : zynum(k) # {} /\ others(k) # {}}
        missing   == {k \in keys : \/ zynum(k) = {}
                                   \/ others(k) = {} /\ ~o.missingOk}
        answer(k) == passes(CHOOSE row \in zynum(k) : TRUE, others(k))
    IN IF compared = {} \/ \E k \in compared : answer(k) = "refused" THEN 2
       ELSE IF missing # {} \/ \E k \in compared : answer(k) = "fails" THEN 1 ELSE 0

\* Two rows of one library in one group.
Doubled(rows, used) ==
    \E i, j \in used : /\ i # j /\ rows[i].library = rows[j].library
                       /\ rows[i].case = rows[j].case

Rows(rows, used) == {rows[i] : i \in used}
=============================================================================
