---------------------------- MODULE MCObservation ----------------------------
(***************************************************************************)
(* The tools that look at something others may change meanwhile, each on a *)
(* small instance: a tree of a tracked file and a directory of one tracked *)
(* file or link, with one inode more that others may put anywhere, as a    *)
(* Git universe and as an archive or package; the private copies of two    *)
(* artifacts; the answers of Git about one path and two branches; and a    *)
(* test suite of two tests in two classes of two modules.                  *)
(***************************************************************************)
EXTENDS Naturals, Sequences, FiniteSets, TLC

CONSTANTS Components,               \* the components to look at
          absent, dynamic, other,
          \* the tree and who looks at it
          Names, Kind, RootInode, FirstTree, MaxMoves, MaxReads, Modes,
          Tracked, Cached, Selected,
          \* the private copies
          Roles, MaxChunks, MaxUses, MaxOutside,
          \* the repository
          GitPaths, Contents, Branches, MaxChanges,
          \* the test suite
          Order, ClassOf, ModuleOf, ClassFixtures, ModuleFixtures, Declared,
          MaxTickets, MaxTampering

VARIABLES part,  \* the component this behaviour is about, and the variables of each:
          entries, stamp, data, clock, nodes, dirs, absences, structure, snap, why,
          reg, reads, atSeal, mode, files,
          status, todo,
          pc,
          step, asked,
          source, leads, since, root, rooted, arena, name, copy, vault, fds, role,
          size, got, sha, copies, pending, uncertain, target, permitted, issues,
          named, lost, raised, used, opened, led, placed, uses, outside,
          repo, past, question, phase, marker, between, output, answers, result,
          holds, marked, sites, cursor, lastClass, classFailed, moduleFailed,
          success, tickets, held, issued, active, started, stopped, events, skips,
          bad, rebound, refixed, drift, tampering, hooks, unmarked, verdict,
          completed, reached, broken

vars == <<part, entries, stamp, data, clock, nodes, dirs, absences, structure, snap,
          why, reg, reads, atSeal, mode, files, status, todo, pc, step, asked,
          source, leads, since, root, rooted, arena, name, copy, vault, fds, role,
          size, got, sha, copies, pending, uncertain, target, permitted, issues,
          named, lost, raised, used, opened, led, placed, uses, outside, repo, past,
          question, phase, marker, between, output, answers, result, holds, marked,
          sites, cursor, lastClass, classFailed, moduleFailed, success, tickets,
          held, issued, active, started, stopped, events, skips, bad, rebound,
          refixed, drift, tampering, hooks, unmarked, verdict, completed, reached,
          broken>>

\* The values of the run.
LinkKinds    == <<"directory", "directory", "regular", "symlink", "regular">>
Empty        == [n \in {"a", "d"} |-> absent]
FileTree     == (1 :> [Empty EXCEPT !["a"] = 3, !["d"] = 2]) @@ (2 :> [Empty EXCEPT !["a"] = 4])
TrackedPaths == {<<"a">>, <<"d", "a">>}
CachedPaths  == {<<"a">>}
PackageRoots == {<<"d">>}
TwoTests     == <<dynamic, other>>
TwoClasses   == (dynamic :> "A" @@ other :> "B")
TwoModules   == ("A" :> "M" @@ "B" :> "N")
TwoSkips     == (dynamic :> {"dynamic"} @@ other :> {"platform", "decorator"})

Symmetry == Permutations(Roles)

-----------------------------------------------------------------------------
U == INSTANCE FileUniverse WITH None <- absent, Root <- RootInode, Tree <- FirstTree
A == INSTANCE ArtifactSnapshot
G == INSTANCE RepositoryGit WITH Paths <- GitPaths
S == INSTANCE SuiteExecution

\* A component is chosen at the start and goes on alone; the variables it does not have
\* keep one value.
Unused == "unused"

Init ==
    /\ part \in Components
    /\ \/ part = "universe" /\ U!Init
       \/ part = "artifacts" /\ A!Init
       \/ part = "repository" /\ G!Init
       \/ part = "suite" /\ S!Init
    /\ part # "universe" =>
         /\ entries = Unused /\ stamp = Unused /\ data = Unused /\ clock = Unused
         /\ nodes = Unused /\ dirs = Unused /\ absences = Unused
         /\ structure = Unused /\ snap = Unused /\ why = Unused /\ reg = Unused
         /\ reads = Unused /\ atSeal = Unused /\ mode = Unused /\ files = Unused
    /\ part \notin {"universe", "artifacts"} =>
         /\ status = Unused /\ todo = Unused
    /\ part \notin {"universe", "artifacts", "suite"} => pc = Unused
    /\ part \notin {"universe", "repository"} =>
         /\ step = Unused /\ asked = Unused
    /\ part # "artifacts" =>
         /\ source = Unused /\ leads = Unused /\ since = Unused /\ root = Unused
         /\ rooted = Unused /\ arena = Unused /\ name = Unused /\ copy = Unused
         /\ vault = Unused /\ fds = Unused /\ role = Unused /\ size = Unused
         /\ got = Unused /\ sha = Unused /\ copies = Unused /\ pending = Unused
         /\ uncertain = Unused /\ target = Unused /\ permitted = Unused
         /\ issues = Unused /\ named = Unused /\ lost = Unused /\ raised = Unused
         /\ used = Unused /\ opened = Unused /\ led = Unused /\ placed = Unused
         /\ uses = Unused /\ outside = Unused
    /\ part # "repository" =>
         /\ repo = Unused /\ past = Unused /\ question = Unused /\ phase = Unused
         /\ marker = Unused /\ between = Unused /\ output = Unused
         /\ answers = Unused /\ result = Unused
    /\ part # "suite" =>
         /\ holds = Unused /\ marked = Unused /\ sites = Unused /\ cursor = Unused
         /\ lastClass = Unused /\ classFailed = Unused /\ moduleFailed = Unused
         /\ success = Unused /\ tickets = Unused /\ held = Unused
         /\ issued = Unused /\ active = Unused /\ started = Unused
         /\ stopped = Unused /\ events = Unused /\ skips = Unused /\ bad = Unused
         /\ rebound = Unused /\ refixed = Unused /\ drift = Unused
         /\ tampering = Unused /\ hooks = Unused /\ unmarked = Unused
         /\ verdict = Unused /\ completed = Unused /\ reached = Unused
         /\ broken = Unused

TheRestStays ==
    /\ part # "universe" =>
         UNCHANGED <<entries, stamp, data, clock, nodes, dirs, absences, structure,
                    snap, why, reg, reads, atSeal, mode, files>>
    /\ part \notin {"universe", "artifacts"} =>
         UNCHANGED <<status, todo>>
    /\ part \notin {"universe", "artifacts", "suite"} => UNCHANGED pc
    /\ part \notin {"universe", "repository"} =>
         UNCHANGED <<step, asked>>
    /\ part # "artifacts" =>
         UNCHANGED <<source, leads, since, root, rooted, arena, name, copy, vault,
                    fds, role, size, got, sha, copies, pending, uncertain, target,
                    permitted, issues, named, lost, raised, used, opened, led,
                    placed, uses, outside>>
    /\ part # "repository" =>
         UNCHANGED <<repo, past, question, phase, marker, between, output, answers,
                    result>>
    /\ part # "suite" =>
         UNCHANGED <<holds, marked, sites, cursor, lastClass, classFailed,
                    moduleFailed, success, tickets, held, issued, active, started,
                    stopped, events, skips, bad, rebound, refixed, drift, tampering,
                    hooks, unmarked, verdict, completed, reached, broken>>
    /\ UNCHANGED part

UniverseStep == part = "universe" /\ U!Next /\ TheRestStays
ArtifactsStep == part = "artifacts" /\ A!Next /\ TheRestStays
RepositoryStep == part = "repository" /\ G!Next /\ TheRestStays
SuiteStep == part = "suite" /\ S!Next /\ TheRestStays

Next ==
    \/ UniverseStep
    \/ ArtifactsStep
    \/ RepositoryStep
    \/ SuiteStep

Spec == Init /\ [][Next]_vars

-----------------------------------------------------------------------------
ASSUME SizesAssumption ==
       /\ U!TreeAssumption /\ U!CallerAssumption
       /\ A!ArtifactAssumption /\ G!RepositoryAssumption /\ S!SuiteAssumption

\* Every component keeps to its own types; no copy of an artifact exceeds the size that is
\* allowed, and no round of a tree its byte limit.
TypeOK ==
    CASE part = "universe"   -> U!TypeOK
      [] part = "artifacts"  -> A!TypeOK
      [] part = "repository" -> G!TypeOK
      [] part = "suite"      -> S!TypeOK

\* What an observation accepts was true as a whole at one moment, although its parts were
\* looked at one after the other: the contents and names of a sealed tree
\* (RepositorySnapshot.seal), with the deletions and the listing of Git
\* (_make_public_file_universe); all children of the directories of a walk
\* (walk_archive_root); an artifact to which its path still led (_capture); the answers of
\* several git commands, and the tree of the revision they name (observe_identity,
\* snapshot_publication).
AcceptedIsOneMoment ==
    /\ part = "universe"   =>
         U!ContentsCoexist /\ U!AcceptedIsOneMoment /\ U!WalkIsComplete
    /\ part = "artifacts"  => A!FrozenIsPublic
    /\ part = "repository" => G!AcceptedWasTrue /\ G!PublishedIsCommitted

\* The copies in use stay what was frozen: no descriptor that can write them is open, and a
\* use that is answered was given the recorded bytes, whatever happened to the copy
\* (_seal_pending_descriptor, _verify_copy).
CopiesStayFrozen ==
    /\ [](part = "artifacts" => A!NothingCanWrite)
    /\ [][part = "artifacts" => A!UsesAreFrozen]_vars

\* Cleanup destroys and hides nothing: a file of others is still there or in a quarantine,
\* "complete" means that nothing is left, what is left is named unless its path may lead
\* elsewhere, and a file whose descriptor may be open is never discarded (_cleanup).
CleanupIsHonest ==
    /\ [](part = "artifacts" => A!OthersKept /\ A!CompleteIsClean /\ A!LeftIsNamed)
    /\ [][part = "artifacts" => A!UncertainStays]_vars

\* An accepted run of the suite is real: every test ran to its end or came itself to the one
\* skip its contract expects, nothing failed, no caught SkipTest is left, and a body began
\* only while its method and fixtures were the frozen ones; however a run ends, unittest is
\* as it was found (_run_python_tooling_root, addSkip, require_all_tickets_consumed).
SuiteIsReal ==
    /\ [](part = "suite" =>
             S!AcceptedIsReal /\ S!AcceptedIsSpotless /\ S!NoTicketLeft /\ S!HooksRestored)
    /\ [][part = "suite" => S!RunsReviewedCode]_vars
=============================================================================
