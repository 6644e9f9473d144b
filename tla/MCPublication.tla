---------------------------- MODULE MCPublication ----------------------------
(***************************************************************************)
(* The tools that put files of their own into public places, each on a     *)
(* small instance: the removal of one file by quarantine; the publication  *)
(* of two report files, where one lies in a directory the call creates and *)
(* where others also touch the sidecars; of a package archive of two       *)
(* members; of the build inventory by two processes at once; and the       *)
(* refresh of the test inventory from logs of two machines.                *)
(***************************************************************************)
EXTENDS Naturals, FiniteSets, TLC

CONSTANTS Components,      \* the components to look at
          ReportFiles,     \* the files of a report, 1 .. n in publication order, and
          NewDirFiles,     \* those below a directory the call creates
          Members,         \* the members of an archive, 1 .. n, and what is verified
          listing,         \* besides them
          Publishers,      \* the processes that refresh an inventory
          MaxClaimMoves,   \* bounds on the moves of others during one removal, on those
          MaxMoves,        \* during one publication, and
          MaxDeaths,       \* on killed publishers
          linux, mac, z, zx, p, fast, a, b, t1, t2, u1, u2

VARIABLES part,  \* the component this behaviour is about, and the variables of each:
          pub, claimed, dir, phase, disposition, recovery, unbound, expectAbsent,
          unlinked, took,
          arena,
          pc,
          candidate,
          outside,
          dest, backup, lost, result, before, touched, meddled,
          stage, newDir, item, cur, complete, cause, issue, listed, paths,
          vault, named,
          temp,
          intact, stale, residue, at, state, original, hasBackup, failed,
          staleAtCommit,
          tool, target, expected, observed, offset, identified, closed, committed,
          incomplete, exit, raced, swapped, raised,
          src, inventory, logs, seen, base, bindings, moved, runs, edits

vars == <<part, pub, claimed, dir, phase, disposition, recovery, unbound,
          expectAbsent, unlinked, took, arena, pc, candidate, outside, dest, backup,
          lost, result, before, touched, meddled, stage, newDir, item, cur,
          complete, cause, issue, listed, paths, vault, named, temp, intact, stale,
          residue, at, state, original, hasBackup, failed, staleAtCommit, tool,
          target, expected, observed, offset, identified, closed, committed,
          incomplete, exit, raced, swapped, raised, src, inventory, logs, seen,
          base, bindings, moved, runs, edits>>

\* Two machines, a root of both and one of the first only, two Zig files, one Python
\* root; t2 exists on the first machine only.
Applicable == ({linux, mac} \X {z}) \cup {<<linux, zx>>, <<linux, p>>}
Entries    == z :> a @@ zx :> b
OnMachine  == linux :> {t1, t2} @@ mac :> {t1}

\* The second tree declares another Python test, the third drops t2, the fourth also the
\* import that let z reach b.
Tree(da, db, imp, py) == [decl |-> a :> da @@ b :> db, imports |-> imp, py |-> py]
Trees == { Tree({t1}, {t2}, {<<a, b>>}, {u1}), Tree({t1}, {t2}, {<<a, b>>}, {u1, u2}),
           Tree({t1}, {t1}, {<<a, b>>}, {u1}), Tree({t1}, {t2}, {}, {u1}) }

-----------------------------------------------------------------------------
Q == INSTANCE Quarantine WITH
       MaxOutside <- MaxClaimMoves
R == INSTANCE ReportPublication WITH
       Files <- ReportFiles, InNewDir <- NewDirFiles, Sidecars <- FALSE,
       MaxOutside <- MaxMoves
S == INSTANCE ReportPublication WITH
       Files <- ReportFiles, InNewDir <- {}, Sidecars <- TRUE, MaxOutside <- MaxMoves
P == INSTANCE PackagePublication WITH
       Listing <- listing, MaxOutside <- MaxMoves
I == INSTANCE InventoryPublication WITH
       MaxOutside <- MaxMoves
T == INSTANCE TestInventory WITH
       Envs <- {linux, mac}, ZigRoots <- {z, zx}, PyRoots <- {p}, Modes <- {fast},
       Applies <- Applicable, Files <- {a, b}, Entry <- Entries, Native <- OnMachine,
       Names <- {t1, t2}, PyNames <- {u1, u2}, Sources <- Trees,
       MaxTests <- 3, MaxLogs <- 2, MaxRuns <- 3, MaxEdits <- 2

\* A component is chosen at the start and goes on alone; the variables it does not have
\* keep one value.
Unused == "unused"

Init ==
    /\ part \in Components
    /\ \/ part = "quarantine" /\ Q!Init
       \/ part = "reports" /\ R!Init
       \/ part = "sidecars" /\ S!Init
       \/ part = "package" /\ P!Init
       \/ part = "inventory" /\ I!Init
       \/ part = "tests" /\ T!Init
    /\ part # "quarantine" =>
         /\ pub = Unused /\ claimed = Unused /\ dir = Unused /\ phase = Unused
         /\ disposition = Unused /\ recovery = Unused /\ unbound = Unused
         /\ expectAbsent = Unused /\ unlinked = Unused /\ took = Unused
    /\ part \notin {"quarantine", "package"} => arena = Unused
    /\ part \notin {"quarantine", "tests"} => candidate = Unused
    /\ part \notin {"quarantine", "reports", "sidecars", "package", "inventory"} => outside = Unused
    /\ part \notin {"reports", "sidecars", "package"} =>
         /\ dest = Unused /\ backup = Unused /\ lost = Unused /\ result = Unused
         /\ before = Unused /\ touched = Unused /\ meddled = Unused
    /\ part \notin {"reports", "sidecars"} =>
         /\ stage = Unused /\ newDir = Unused /\ item = Unused /\ cur = Unused
         /\ complete = Unused /\ cause = Unused /\ issue = Unused
         /\ listed = Unused /\ paths = Unused
    /\ part \notin {"reports", "sidecars", "package", "inventory"} =>
         /\ vault = Unused /\ named = Unused
    /\ part \notin {"package", "inventory"} => temp = Unused
    /\ part # "package" =>
         /\ intact = Unused /\ stale = Unused /\ residue = Unused /\ at = Unused
         /\ state = Unused /\ original = Unused /\ hasBackup = Unused
         /\ failed = Unused /\ staleAtCommit = Unused
    /\ part # "inventory" =>
         /\ tool = Unused /\ target = Unused /\ expected = Unused
         /\ observed = Unused /\ offset = Unused /\ identified = Unused
         /\ closed = Unused /\ committed = Unused /\ incomplete = Unused
         /\ exit = Unused /\ raced = Unused /\ swapped = Unused /\ raised = Unused
    /\ part # "tests" =>
         /\ src = Unused /\ inventory = Unused /\ logs = Unused /\ seen = Unused
         /\ base = Unused /\ bindings = Unused /\ moved = Unused /\ runs = Unused
         /\ edits = Unused

TheRestStays ==
    /\ part # "quarantine" =>
         UNCHANGED <<pub, claimed, dir, phase, disposition, recovery, unbound,
                    expectAbsent, unlinked, took>>
    /\ part \notin {"quarantine", "package"} => UNCHANGED arena
    /\ part \notin {"quarantine", "tests"} => UNCHANGED candidate
    /\ part \notin {"quarantine", "reports", "sidecars", "package", "inventory"} => UNCHANGED outside
    /\ part \notin {"reports", "sidecars", "package"} =>
         UNCHANGED <<dest, backup, lost, result, before, touched, meddled>>
    /\ part \notin {"reports", "sidecars"} =>
         UNCHANGED <<stage, newDir, item, cur, complete, cause, issue, listed, paths>>
    /\ part \notin {"reports", "sidecars", "package", "inventory"} =>
         UNCHANGED <<vault, named>>
    /\ part \notin {"package", "inventory"} => UNCHANGED temp
    /\ part # "package" =>
         UNCHANGED <<intact, stale, residue, at, state, original, hasBackup, failed,
                    staleAtCommit>>
    /\ part # "inventory" =>
         UNCHANGED <<tool, target, expected, observed, offset, identified, closed,
                    committed, incomplete, exit, raced, swapped, raised>>
    /\ part # "tests" =>
         UNCHANGED <<src, inventory, logs, seen, base, bindings, moved, runs, edits>>
    /\ UNCHANGED part

QuarantineStep == part = "quarantine" /\ Q!Next /\ TheRestStays
ReportsStep == part = "reports" /\ R!Next /\ TheRestStays
SidecarsStep == part = "sidecars" /\ S!Next /\ TheRestStays
PackageStep == part = "package" /\ P!Next /\ TheRestStays
InventoryStep == part = "inventory" /\ I!Next /\ TheRestStays
TestsStep == part = "tests" /\ T!Next /\ TheRestStays

Next ==
    \/ QuarantineStep
    \/ ReportsStep
    \/ SidecarsStep
    \/ PackageStep
    \/ InventoryStep
    \/ TestsStep

Spec == Init /\ [][Next]_vars

-----------------------------------------------------------------------------
ASSUME SizesAssumption ==
       /\ Q!OutsideAssumption /\ R!FilesAssumption /\ S!FilesAssumption
       /\ P!MembersAssumption /\ I!PublicationAssumption /\ T!InventoryAssumption

\* Every component keeps to its own types.
TypeOK ==
    CASE part = "quarantine" -> Q!TypeOK [] part = "reports"   -> R!TypeOK
      [] part = "sidecars"   -> S!TypeOK [] part = "package"   -> P!TypeOK
      [] part = "inventory"  -> I!TypeOK [] part = "tests"     -> T!TypeOK

\* What was there before stays reachable, at its public name or its backup's, until the new
\* generation is complete: through every failure and rollback, and wherever the process
\* dies (_prepare_backup, _rollback of reports, _rollback_publication of a package).
OldBytesReachable ==
    /\ part = "reports"  => R!OldBytesReachable
    /\ part = "sidecars" => S!BackupOutlivesFailure
    /\ part = "package"  => P!PriorReachable

\* The outcome that is reported is what happened: a cleanup ends in one of the ways its
\* callers reckon with, a return means that all was published, verified up to the commit,
\* and no sidecar is left, an error without a word about recovery changed and left nothing,
\* and the exit status of a refresh tells whether the inventory was replaced.
OutcomeIsTrue ==
    /\ part = "quarantine" => Q!OutcomeIsKnown
    /\ part = "reports"    => R!SuccessIsClean /\ R!PlainFailureIsClean
    /\ part = "package"    => P!SuccessIsVerified /\ P!PlainFailureIsClean
    /\ part = "inventory"  => I!ExitTellsTruth

\* What is left behind is named: what stays in a quarantine, and an intruder seen under the
\* public name (finish), what a failed publication keeps (ReportPublicationFailure), the
\* prior archive under its backup's random name, and a temporary inventory; and a recovery
\* path is given only while it leads to the arena that is held.
LeftIsNamed ==
    /\ [](/\ part = "quarantine" => Q!NothingStranded /\ Q!SeenIsReported
          /\ part = "reports"    => R!KeptIsListed
          /\ part = "package"    => P!BackupIsNamed
          /\ part = "inventory"  => I!NothingUnreported)
    /\ [][part = "quarantine" => Q!PathsAddressable]_vars

\* Files of others are moved aside at most: a cleanup unlinks the object its caller owns
\* only, whatever was swapped in under the name before it was claimed (claim,
\* verify_claimed), no step but the final rename destroys one, and an update of the
\* inventory by another process is lost only after the last comparison.
OthersKept ==
    /\ [](part = "quarantine" => Q!ForeignKept)
    /\ [][/\ part = "reports"   => R!OthersKept
          /\ part = "sidecars"  => S!OthersKept
          /\ part = "package"   => P!OthersKept
          /\ part = "inventory" => I!ForeignKept /\ I!LostOnlyInWindow]_vars

\* A new generation is installed whole and, past its boundary, never taken back; an
\* inventory is the candidate that was verified, unless others changed its temporary file.
CompleteStays ==
    [][/\ part = "reports"   => R!CompleteStays
       /\ part = "package"   => P!CompleteStays
       /\ part = "inventory" => I!InstallsWholeCandidate]_vars

\* The quarantine implements the abstract removal of a claimed file (Cleanup).
Refines == /\ part = "quarantine" => Q!Promise!Init
           /\ [][part = "quarantine" => [Q!Promise!Next]_(Q!Promise!vars)]_vars

\* A row of the test inventory is what was observed: it holds names that a program compiled
\* for its environment, root and mode reported on such a machine, rows without a log stay as
\* they were, and what is merged from unchanged sources passes the validation but for names
\* that no declaration reaches any more (refresh_from_protocol).
RowsAreObserved ==
    /\ [](part = "tests" => T!NativeProvenance /\ T!MergeIsConsistent)
    /\ [][part = "tests" => T!UnobservedRowsKept]_vars

\* The module docstring: "Any failed transaction that created a verified backup
\* intentionally retains it and reports its path".
BackupPathReported == part = "reports" => R!BackupPathReported
=============================================================================
