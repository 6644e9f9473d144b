# TLA+ verification of Zynum

Zynum is a BLAS library in Zig with a large body of Python tools around it. What
is hard about the library outside floating-point arithmetic is how work is
divided and who does it: a process-wide task runtime with one admission flag and
futex-parked helpers, partitioners that cut a matrix into tasks, a job queue, and
a lock-free choice of the kernel object. What is hard about the tools is that
they make claims about things others may change: they publish files that must
survive a failure at any step, look at trees, artifacts, repositories and a test
suite while these may move, run commands that may hang, and publish benchmark
numbers that somebody will believe. This directory models those parts, checks
them with TLC on small instances and proves the main results about the library
with TLAPS for every value of the constants.

Paths below are relative to the repository; `blas/` stands for `src/blas/`.

## 1. Inventory

### The library

| Part | State it keeps | Operations | Correct when |
|---|---|---|---|
| Task runtime `blas/core/execution/thread_pool.zig` | `io_busy`; `persistent_init_state`, worker, ready, exited and done counts, one generation and one waiting flag per worker, the plain payload variables; `io_init_state`, `io_threaded` | `run`, `runLowLatency`, `runTyped`, `shutdown`; worker main loop; start-up of both backends | a true answer means every task ran once, a false one that none ran; no thread reads a task array after its owner returned; no wake-up is lost; shutdown leaves no worker |
| Job queue `runQueued` (same file) and its callers in `blas/core/matrix_matrix/structured_blocked.zig` | the counter, count and task array on the caller's stack | claim, run a job, serial fallback | each job once, no two tasks in one job, nothing written before a false answer |
| Thread-count policy `blas/runtime.zig` | `max_threads_override`, the cached environment limit, CPU counts | `setMaxThreads`, `maxThreads`, `helperThreadCount` | callers and runtime agree on what a changing limit allows |
| Kernel tiers `blas/hardware.zig`, `blas/kernels/multiversion/client.zig`, tier features in `build.zig` | the capability word, `cached_tier` | `detected`, `selectedTier`, `call` | one process runs one kernel object; the object only has instructions this host runs; the ceiling only removes |
| GEMM planning `blas/core/matrix_matrix/planner.zig`, `gemm.zig` | a plan and a task array on the stack | plan, split, submit, fall back, GEMV tails | each cell of C is updated exactly once |
| Level-2 partitioners `blas/core/matrix_vector/*.zig` | private partial results in thread-local workspaces | triangular task boundaries, merge | each partial is cleared, filled and merged once |
| In-place TRMM/TRSM blocks, cyclic rank tiles (`structured_blocked.zig`), right-side solves (`triangular_right_parallel.zig`) | B or C in place, scratch per job or worker | block order, tile ownership | TRMM reads old blocks, TRSM new ones; each tile has one owner |
| Level-1 partitioners `blas/core/vector/` | none between calls | splits of strided vectors | each element once |
| Checked API `blas/api/`, `blas/core/checked/` | none | view extents, aliasing, operand checks | rejects exactly the overlapping or short operands |
| Thread-local workspaces (`gemm.zig`, `symmetric.zig`, `general.zig`, SME, AMX) | pointer and length per thread | grow, reuse, free at exit or shutdown | freed once, never used after |
| Entry points, headers, numeric kernels | none | argument marshalling, arithmetic | not a subject of these models |

### The tools

| Part | State it keeps | Operations | Correct when |
|---|---|---|---|
| Quarantined removal `tools/repository_snapshot.py` | the claimed name, the arena, the recovery paths | claim, verify, unlink, sync, report | only the caller's object is unlinked, what stays is named |
| Tree snapshots and file universes (same file, `tools/check_build_inventory.py`, `tools/check_package_paths.py`) | recorded nodes, listings, absences, a byte round | capture, seal, verify, walk | what is accepted existed together at one moment |
| Report publication `bench/tools/report_publication.py` | per file: destination, staged file, backup; a cursor, errors, recovery paths | stage, back up, replace, verify, roll back, clean up | all reports or none, old bytes reachable, what others put there kept |
| Package archive `tools/check_package_paths.py` | destination, temporary, hard-linked backup, a state of the transaction | write, replace, verify the source, roll back | as above, and the source did not change under the archive |
| Build and test inventory publication (`check_build_inventory.py`, `check_test_inventory.py`) | inventory file, temporary, the bytes read | read, write, verify, compare, rename, sync | the exit status tells the truth, lost updates only after the last comparison |
| Test inventory (`check_test_inventory.py`) | rows, test sets, gaps, protocol logs | emit, freeze, merge, validate | a row holds what was observed where it says |
| Suite execution (same file) | tickets, outcome cards, patches of unittest | issue, run, skip, consume, restore | an accepted run is real |
| Benchmark artifacts `bench/tools/benchmark_artifacts.py` | private copies, descriptors, digests | freeze, use, finalize, clean up | a use runs the bytes that were recorded |
| Commands `tools/repository_git.py`, `tools/verify_abi_artifact_parity.py`, `tools/observe_abi_baseline.py` | pipes, reading threads, process group or job | start, drain, time out, kill, join | whole answers, nothing left running, the caller returns |
| Git questions `tools/repository_git.py` | answers of two rounds | ask, compare, publish | the answers were true |
| Report runners and checkers `bench/tools/run_*`, `check_*`, `report_schedule.py`, `report_comparison.py` | samples per library and case | plan, probe, fold, publish, check | no number without its check, a pass is earned |
| Checks inside the probes (`run_level1_report.py`, `run_level2_report.py`) | guarded vectors, packed and banded matrices | fill, reference, compare | a right routine passes, a wrong one does not |
| Windows and local comparison `run_windows_*.py`, `plot_windows_*.py` | records, metadata, digests | run, write in place, plot | a bar is a measurement |
| Full report `render_full_benchmark_report.py` | accepted evidence | classify, refuse, join, judge | a family passes only on checked, complete evidence |
| ABI manifests, generators, benchmark metadata, other plotters | none | one pass over text or object files | not a subject of these models |

How the parts interact. In the library, a BLAS routine asks the thread-count policy how many tasks
are worth it, a partitioner cuts the operands, `run` or `runLowLatency` executes
the tasks or answers false, and after false the same thread does the whole
operation. There is no queue of calls: the second caller at any moment, and any
task that itself calls BLAS, gets false at once. In a dynamic-dispatch build
each operation goes through `selectedTier`, and kernels in the isolated objects
reach the same runtime through `kernels/isolated/task_runtime_host.zig`.

The tools build on one another: every runner executes probes from private copies
(artifacts) in fresh processes, folds their rows and hands the report to the
publication; the checkers and the full report read it later. Publications,
artifacts and inventories remove files through the quarantine. The inventories
bind what they record to a snapshot of the tree and to what git answered.

What is hard in the library: admission races, a run after a changed thread limit,
the payload that is plain memory rewritten between generations, generations that
wrap, futex sleeps that race with publication, a helper that outlives its
caller's stack frame, spawn failures half way, shutdown while workers announce
their exit, environment changes during the first kernel selection, remainders at
task boundaries. In the tools: a system call that fails after it has happened, a
name that is somebody else's by the time it is used, a rollback that fails, a
process that dies between two steps, answers sampled at different times, pipes
that nobody closes, a repeat that fails while others succeed, a NaN. The hazards
with their lines and the properties aimed at them are in `PROJECT.json`.

## 2. Modules

### The library

| Module | What it is |
|---|---|
| `TaskRuntime` | the abstract promise of the runtime to its callers: Begin, Execute, then Accept with all tasks done or Refuse with none |
| `ThreadPool` | `thread_pool.zig` one atomic access at a time: admission, pool start, publication, helpers, done counting, group path, shutdown; its properties, the refinement mapping to `TaskRuntime`, and the inductive invariant |
| `RuntimeUser` | what the users of the runtime share: its callers and `TaskRuntime` |
| `JobQueue` | `runQueued` and its callers' fallback, composed with `TaskRuntime` |
| `GemmPlan` | the splits of `planner.zig`, planning and execution of a real GEMM, composed with `TaskRuntime` |
| `KernelSelect` | `hardware.zig`, `client.zig` and the tier features of `build.zig` |
| `ThreadPoolProofs`, `RuntimeUsersProofs` (GEMM and the queue), `KernelSelectProofs` | the proofs |
| `MCThreadPool`, `MCKernelSelect` | TLC instances: symmetry and host sets only |

**ThreadPool.** `pc[c]` is the place of an application thread in `run`,
`runLowLatency` or `shutdown`, `wpc[w]` that of persistent worker `w` in
`runPersistentWorker`. Every variable that another thread can observe has a TLA+
variable named in the declaration's comment; `job` gathers the plain payload
(`persistent_task_fn` and so on), and `local` a worker's copies.

- A step is one atomic access, or several of which at most one can be observed
  by another thread. `futexWait` compares and sleeps in one step, and may wake
  for no reason (`CallerSpuriousWake`, `WorkerSpuriousWake`).
- Atomics are sequentially consistent. All hand-overs in the code are a release
  store read by an acquire load; the plain payload is shown never to be
  accessed from two sides at once (`PayloadQuiescent`).
- `exec[c][i]` counts how often task `i` of the current call of `c` ran, in a
  helper, in the caller or in the serial fallback. It is what "the output was
  written once" means in all modules of the library.
- `group.concurrent` may fail for each task (`SubmitTask` runs it inline), a
  worker may fail to spawn, and `setMaxThreads` may be called at any time.
- `freeWorkerCaches`, QoS and affinity calls touch only thread-private data and
  are left out. Tasks are opaque: a nested BLAS call inside a task is, to the
  runtime, another caller that finds `io_busy` taken.
- A caller's routine after `false` (`Fallback`) is modelled from
  `symvUnitReal`, the shape every caller has.
- The wait loops for an initialisation by another thread are unreachable, since
  `io_busy` is held around both initialisations; they have no action.

**JobQueue.** A task of the run is `Queue.execute`, a loop. `StartTask` is the
runtime's `Execute`, `Claim` the `fetchAdd`, `RunJob` the job itself. The runtime
answers true when all started tasks have returned, which `ThreadPool` provides:
helpers acknowledge after `task_fn` returns. What a job does is left open,
except that it is counted in `ran`.

**GemmPlan.** `C[c]` counts the updates of each cell. Thresholds, kernel scores
and tuning tables only influence the requested thread count, the column block,
the row minimum and two flags, so those are arbitrary; what the code computes
from them (`rowTaskCount`, the column task count, the grid position, both
splits) is translated. `WithoutPlan` stands for every path on which the calling
thread passes over C once. The heap branch for more than 64 tasks cannot be
taken, by `TypeOK`. Not modelled: complex GEMM, transposed A, the interior of
kernels.

**KernelSelect.** Features that one condition tests together are one feature:
`fp` is neon, fp_armv8 and fullfp16; `sse` is SSE to SSE4.2; `avx512x` is
AVX512DQ, BW and VL; `zmm` is the opmask, ZMM_Hi256 and Hi16_ZMM bits of XCR0.
The macOS sysctl derivation has the form of the HWCAP one. `detect` runs on each
thread that finds the cache empty, `ReadCeiling` reads an environment that
`SetEnv` may change between any two steps.

### Files: removal and publication

| Module | What it is |
|---|---|
| `Cleanup` | the abstract removal: the caller's own object goes, or it is said where it is |
| `Quarantine` | `claim_and_remove` call by call, shown to implement `Cleanup` |
| `ClaimOutcome` | the ways such a removal can end, for the modules that call it; `OutcomeIsTrue` shows that the list is complete |
| `ReportPublication` | `publish_outputs` and its rollback |
| `PackagePublication` | `create_archive`: write, replace, verify, roll back |
| `InventoryPublication` | the refresh of an inventory file, by two processes |
| `TestInventory` | what the refresh of the test inventory does with protocol logs |
| `MCPublication` | composes one instance of each; the sizes are constants that the `.cfg` sets |
| `ReportPublicationProofs`, `PublicationProofs` | the proofs about the publications, the quarantine and the composition |

Everybody else is in the model: between any two system calls others may replace,
create or remove the files at public names, write into temporaries, and rename
the arena. Every system call may fail. `os.link` is truthful when it raises;
`os.replace` may raise after it has happened. A process may die anywhere, and the
invariants hold in the state it leaves.

- `ReportPublication` has two rounds of verification around the commit boundary
  and goes back in reverse order. In the instance `sidecars` others also touch
  the staged and backup files, whose random names the instance `reports` takes
  to be private. A sidecar can be created without its identity becoming known:
  such a stray file stays, and the failure is always an "indeterminate" one, so
  `PlainFailureIsClean` is not touched. After a rename that raised, a name that
  holds the stage may look as if it did not (any `OSError` counts as "no"). The
  recovery paths are filtered once more before they are reported: what a look proves
  absent is dropped, and a claimed directory takes the paths below it along, so
  `KeptIsListed` asks for the directory's path then.
- `PackagePublication`: the backup is a hard link; a close that fails after the
  commit leaves the new archive in place; the text for an arena that cannot be
  addressed leaves out the backup's path; directories created on the way stay.
  The look at the names after a rename that raised may itself fail
  (`uninspected`), and so may the last close, that of the directory
  (`unclosed`); either error takes the place of the one on its way, which stays
  its context. Such an error says nothing about being clean, but the backup is
  named in it or in its context (`BackupIsNamed`).
- `Quarantine`: whether `remove_verified_claim` looks at the public name and
  whether `finish` does are separate choices of the caller;
  `claim_and_remove` always makes the first one.
- `InventoryPublication`: there is no lock. An update of another process is lost
  only in the window between the last comparison and the rename. A rename that
  raises after it has happened leads to exit 1 with the new inventory installed,
  and the text says that this is uncertain. The tool then calls the inventory
  valid without reading it again.
- `TestInventory`: logs of a machine are bound to environment, root and mode and
  to the reviewed sources; sources and the inventory may be edited between the
  steps of a refresh. The base a refresh starts from is stale in the Python
  declarations only. Digest pins are nondeterministic. At most three tests, two
  logs, three runs and two edits.

### Observation

| Module | What it is |
|---|---|
| `TreeSnapshot` | a snapshot session of `repository_snapshot.py`: walk, open, read, list, absences, seal and verify, over a file system others change |
| `FileUniverse` | its callers that decide which files make up a checkout, an archive, a package or a tarball |
| `ArtifactSnapshot` | `benchmark_artifacts.py`: freezing public files into private copies, using them, cleaning up |
| `RepositoryGit` | the questions put to git in two rounds |
| `SuiteExecution` | the runner of the Python test suite with its skip tickets (check_test_inventory.py:11402-13803) |
| `MCObservation` | composes them, one instance of each; the sizes, the tree and the kinds of universe are constants that the `.cfg` sets |
| `TreeProofs`, `ObservationProofs` | the proofs: of the tree and its callers, and of the rest and the composition |

- Every change of a file gives it a stamp of its own: ctime and mtime are taken
  to tell any two states apart. Paths have at most two components; devices,
  sockets and the like are refused as "neither file, directory nor link".
- Content is identified with inode and stamp; reading takes several steps, and a
  change in between is what the second look at the node must catch.
- `ArtifactSnapshot`: two roles, files of one to three chunks of which two are
  allowed, one use, two moves of others. A change that is exchanged and put back
  between two looks is not seen, and not claimed to be. Frozen interpreter
  sources, parsing of requests and path redaction are left out.
- `RepositoryGit`: one git command is atomic. Nothing that was observed is taken
  away and taken up again within a question; with such a change, the several
  commands of a round may each be right at different moments (section 5).
- `SuiteExecution`: the static review of the test code limits what a test body
  may do here: it may fail, skip, catch a skip and raise it later, leave a patch
  in place or rebind a method. Drift, once seen, stays.

### Commands

| Module | What it is |
|---|---|
| `ProcessTree` | a command, its descendants and its pipes (external) |
| `GitCommand` | `run` of `repository_git.py`: pipes made by hand, two reading threads, a limit on both |
| `RunBounded` | `require_command` of `verify_abi_artifact_parity.py`: deadline, SIGTERM, SIGKILL, drains |
| `RunCommand` | `run_command` of `observe_abi_baseline.py`: POSIX sessions, Windows jobs with a gated supervisor |
| `MCCommands` | composes one instance of each; the sizes are constants that the `.cfg` sets |
| `CommandsProofs` | the proofs |

- Fairness (`Spec` of `MCCommands`): in `RunBounded` and `RunCommand` only the
  caller has it. Its waits all have a time limit in the code, so it always has a
  next step; the command, its descendants and the reading threads may stop for
  ever. `GitCommand` has no time limit at all: there the reading threads and the
  programs that hold the pipes have fairness too, and a program that never ends
  would hold the caller for ever. That is how the code is, not a claim about git.
- In `GitCommand`, a thread that cannot be started makes `join` raise and leaks
  its read end. `NothingLeftBehind` leaves that case out. In `RunBounded` and
  `RunCommand` it raises past every cleanup, with the command running on; there
  is no result then (`raised`), and the property speaks of results only.
- `RunCommand` kills the session first; the second kill, of a leader that did not
  end in time, is of the leader alone, makes the result a cleanup error, and
  raises where the system refuses it.

### Reports

| Module | What it is |
|---|---|
| `RepeatEvidence` | summaries, failure status, paired ratios of repeats |
| `FreshProcess` | the loop of the runners: one fresh process per unit, artifacts frozen before and compared after, publication at the end |
| `StructuredReports` | the SYMM, rank-k, triangular and ROTG runners and their checkers, over `FreshProcess` |
| `GemmReport`, `Level1Report`, `Level2Report` | the other three runners with their checkers |
| `VectorCheck`, `Level2Check` | the correctness checks inside the Level-1 and Level-2 probes |
| `WindowsBenchmark` | the Windows and local runners and both plotters |
| `FullReport` | `render_full_benchmark_report.py` |
| `MCReports` | composes one small instance of each |

- Numbers are small integers; 0 is a value the code refuses. A median of two is
  doubled, and ratios are multiples of `Scale`.
- Publication is all or nothing here; `ReportPublication` says what it really
  promises. Uncaught exceptions end with exit status 1.
- A probe that never ends holds the runner: the code has no timeout.
- `StructuredReports`: a triangular run drops a real routine silently when only
  complex scalars are given. A duplicate is refused by the checker, not by the
  runner. Unchecked comparator rows are silently dropped by the checkers of
  SYMM, rank-k, triangular, ROTG and Level 2, and refuse a GEMM file.
- `GemmReport`: isolated processes write intermediate files whose names have
  library, case and repeat in them.
- `Level1Report`: a check row that fails ends the run at the fold with exit 2.
  The copy probe does not say which routine it timed; the runner takes it to be
  the checked one, and so does the model.
- `Level2Report`: a worker's exit status decides for all its rows; no job leaves
  a file with a header only; a routine nobody printed is not missed.
- `VectorCheck`: lengths one and three, strides of magnitude one and two, one
  guard cell on each side. `Level2Check`: orders two and three, bandwidths 0 to
  2; operands a routine only reads are not looked at, in the code as here.
- `WindowsBenchmark`: files are written in place while a plotter may read them.
  A program that is replaced and put back between two digests is not noticed.
- `FullReport`: a file that cannot be read is only counted as ignored, and files
  of two generations may be joined. `csv.Error` is not caught.

## 3. How the instances are built

The tools are many and none of them shares state with another, so an instance
module composes several: the variable `part` is chosen in `Init` among
`Components`, its component takes all steps, and the variables it does not have
keep the value `Unused`. A behaviour of the composition is a behaviour of one
component. A property of the composition is one question asked of every
component that raises it; each conjunct is a named definition in the component's
module. Naming fewer components in a `.cfg` restricts the run to them.

`MCCommands`, `MCPublication` and `MCObservation` take the sizes as constants
under one named assumption each (`SizesAssumption`, the conjunction of what their
components assume): limits, capacities and counts are natural numbers, and a pipe
holds at least one byte; the files of a report and the members of a package are
numbered from 1; the publishers are finitely many and distinct from the numbers
that stand for versions others write; the repository has a branch to start on;
every test of a suite has a class and every class a module; a tree has finitely many
names and inodes and two levels, so that only its root has directories. TLC evaluates the assumption in each run, and
the theorems hold for every value of the constants that satisfies it.

## 4. Runs

| Run | Instance | Shows |
|---|---|---|
| `pool` | 2 callers, 2 helpers, calls of 1 and 3 tasks, both entry points, capacity 4, environment limit 5, overrides 0 (none) and 1, generations modulo 2 | `TypeOK`, `ExactlyOnce`, `NoUseAfterReturn`, `PayloadQuiescent`, `NoWorkerLeft`; `Refines`: ThreadPool implements TaskRuntime |
| `pool_live` | 1 caller, 2 helpers, limit lowered and reset, macOS hint, fairness | `AdmittedEnds`, `HelperAnswers` |
| `queue` | 2 callers, up to 3 tasks, up to 5 jobs, limits 2 and 16 | `JobsOnce`, `JobsApart` |
| `gemm` | 1 caller, C up to 4 by 7, up to 6 tasks, column blocks 1, 2, 3 | `TypeOK`, `CellsOnce`, `NoSharedCell` |
| `kernel` | 3 threads on 5 hosts, 1 thread on every combination of the modelled CPU and OS evidence; settings unset, unknown, one AArch64 and one x86 tier | `TypeOK`, `OneObject`, `CeilingKept`, `ObjectRuns` |
| `publication` | the six instances of `MCPublication` | `OldBytesReachable`: what was there is reachable until the new generation is complete; `OutcomeIsTrue`: success, clean failure and exit status mean what they say; `LeftIsNamed`: what stays has a recovery path; `OthersKept`: nothing of others is destroyed; `CompleteStays`: a complete generation is whole and stays; `Refines`: Quarantine implements Cleanup; `RowsAreObserved`: no row of the test inventory without its observation |
| `observation` | a tree of a file and a directory with one file or link, seen as a Git checkout, an archive, a package and a tarball, with two changes by others and rounds of two files; two artifacts; one path and two branches; two tests | `AcceptedIsOneMoment`: what is accepted was true as a whole at one moment; `CopiesStayFrozen`, `CleanupIsHonest`, `SuiteIsReal` |
| `commands` | git with limits of one byte and pipes of two, two-chunk streams and one descendant for the others | `AcceptedIsWhole`, `NothingLeftBehind`, `CallerReturns` |
| `reports` | some hundred command lines, two or three libraries, one or two cases, two repeats, every answer of a probe the code tells apart with at most two or three unusual ones per run, every option of the checkers put to every published report; directories of each runner's files | `ReportIsWhole`, `PassIsEarned`, `ChecksAreRight`, `ChartIsHonest`, `TurnsAreFair` |
| `publication_reported` | the reports alone | finding 1 |
| `full_report_gemm` | the full report alone | finding 2 |
| `level1_nan` | the vector checks alone | finding 3 |

Why the bounds are enough. Library: two callers suffice for admission, because
`io_busy` leaves at most one past it and the others can only be refused. Two
helpers give every order of publishing, noticing, acknowledging and sleeping
between two workers. A generation modulo 2 is the hardest case of the 32-bit
wrap: one missed bump could already be taken for none. Three tasks on five jobs
reach a task that finds the counter beyond the end while others still work. A 4
by 7 matrix with blocks 2 and 3 has partial last panels and uneven rows, and six
tasks give grids of 2 by 3 and 3 by 2. The proofs remove these bounds for the
properties listed in section 6.

Tools: the transactions touch each of their files in a loop; two files have a
first, a last, and one that is done while the other fails. The code looks twice,
so two or three moves of others reach "changed", "changed and put back" and
"changed again after the second look". Two repeats have a first and a second
that fail apart; an unusual answer among usual ones is what the folds must
notice, and two of them can hide each other. Two cases that differ in one
parameter find a key that leaves it out. Order three is the least with an
element strictly inside each triangle that is not on its edge.

A defect is kept beside one definition for each property: an operator `bug...`
such as a lost remainder, a claim that is a load and a store, a boundary that is
not recorded, a second look that is left out. With the defect in place of the
definition the property fails in its run.

Fairness. `pool_live` uses `FairSpec`: weak fairness of each caller's steps once
it has called, each worker's steps and each queued group task. These are threads
of the OS that take a step whenever they can. Spurious wake-ups have no fairness,
so progress never depends on one. Nobody has to call. Waiting for `io_busy` in
`shutdown` is a spin without a queue, and nothing is claimed about winning it:
`AdmittedEnds` starts when the flag is held. Symmetry is not used there. The
fairness of `commands` is described in section 2. No other run has liveness.

Deadlock is checked except in `publication` and `observation`, where a tool may
end or die and others may have used up their moves; runners, plotters and
commands stutter explicitly when they have ended.

## 5. Findings

1. `BackupPathReported` (`publication_reported`): the docstring of
   `report_publication.py` says that a failed transaction reports the path of a
   verified backup it retains. If the quarantine cannot be addressed during the
   rollback, the backup is kept and its path is given nowhere.
2. `RunnersFilesAreRead` (`full_report_gemm`): the full report says that it reads
   the GEMM runner's files, but refuses them, and their directory with them,
   because they have `process_repeats` without the other two counts.
3. `OkValuesAreRight` (`level1_nan`): the Level-1 check compares errors with
   Python's `max` and `<=`; a NaN goes past both, and a routine that leaves NaN
   results is "sampled-ok". The Level-2 check compares in the same way
   (`run_level2_report.py:1514`).

Other places where code and text differ, read while modelling and not run:

- `verify_abi_artifact_parity.py:443` probes the group with signal 0 before the
  leader is reaped; the zombie answers, so a timeout is reported as
  "process_cleanup_failed".
- `report_comparison.py:193` pairs samples by index after failed repeats were
  dropped, while the help of `--stat` speaks of same-repeat ratios. It needs
  `--allow-unchecked`.
- `repository_git.py:719` accepts two equal rounds of separate git commands;
  the type is documented (379) as coherently sampled. A change that is made and
  undone between the same two commands of both rounds defeats it.

## 6. Proofs

For every value of the constants that satisfies the named assumptions: any set of
callers, `max_tasks`, thread limit, task count and generation modulus of at least
2; any number of report files, archive members and publishers; any sizes of
pipes, buffers and limits; any artifacts of any size, paths, contents and branches
of a repository; any tests, classes, modules and fixtures of a suite; any tree of two
levels, with any files, links and directories, tracked, cached and selected paths and
byte limit of a round; any bound on the moves of others.

| Theorem | Module |
|---|---|
| `TypeCorrect`, `TasksOnce`, `ArraysOutliveTasks`, `PayloadNeverRaces`, `ShutdownLeavesNoWorker`; `Implements`: `ThreadPool` implements `TaskRuntime` | `ThreadPoolProofs` |
| `TypeCorrect`, `CellsUpdatedOnce`, `TasksDisjoint` of GEMM; `QueuedJobsOnce`, `QueuedJobsApart` of the queue | `RuntimeUsersProofs` |
| `TypeCorrect`, `OneObjectOnly`, `ObjectsRun`, `CeilingAlwaysKept` | `KernelSelectProofs` |
| `QuaForeignIsKept`, `QuaNothingIsStranded`, `QuaIntruderIsReported`, `QuaPathsStayAddressable`, `QuaOutcomesAreKnown`; `QuaImplements`: `Quarantine` implements `Cleanup` | `PublicationProofs` |
| `Invariance`, `OldBytesKept`, `OutcomeTold`, `OthersAndCompleteStay` | `ReportPublicationProofs` |
| `TypeCorrect`, `OldBytesKept`, `OutcomeTold`, `LeftNamed`, `OthersKeptAside`, `CompleteKept`, `RowsObserved`, `Implements`: every property of the run `publication` | `PublicationProofs` |
| `TypesKept`, `AcceptedWasOneMoment`, `CopiesFrozen`, `CleanupHonest`, `SuiteReal`: every property of the run `observation`; `FrozenWasPublic`, `GitWasTrue`: what `AcceptedIsOneMoment` says of copies and of git; `Invariance` | `ObservationProofs` |
| `TreeTypeCorrect`, `TreeWasOneMoment`, `TreeInvariance`: `TreeSnapshot` and `FileUniverse` by themselves | `TreeProofs` |
| `CommandsTypes`, `AcceptedOutputIsWhole`, `NothingIsLeftBehind`: every safety property of the run `commands` | `CommandsProofs` |

**ThreadPool.** None of the safety properties is inductive: that a caller may
return when the done count reaches the number of helpers depends on which
helpers counted. `IndInv` (at the end of `ThreadPool`) says everything relative to the
one caller that holds `io_busy` (`GateInv`): for its phase, each worker is quiet,
starting, helping or leaving (`WorkerInv`), the three counters are the
cardinalities of the workers that have done what is counted (`CountInv`), the
payload is that caller's (`JobInv`) and `exec` is determined per task (`JobInv`,
`GroupInv`). When the count reaches its target, the set of acknowledged helpers
is the set of addressed helpers, so every task ran and no helper still reads.
`ThreadPoolProofs` begins with the facts about the phase and the cardinalities,
then has one lemma per action of the callers and of the workers. With
generations modulo n the proof uses that a helper never lags by more than one
bump, which `WorkerInv` states; it needs n at least 2 only. A call of three tasks
that uses helpers 2 and 3 of four, whose instance would be large, is covered
here.

That it implements `TaskRuntime` follows from the same invariant: entering is
Begin; each of the four places that run a task is Execute, because the invariant
says that this task has not run and that whoever else is inside a call has not
been admitted; releasing `io_busy` is Accept or Refuse; the rest, shutdown
included, moves no caller from one visible stage to another.

**JobQueue.** `QueueInv` partitions the job numbers: those at or above the counter
have not run, those below have run exactly once or are in exactly one task.
When all tasks have found the counter at the end, none is in a job.

**GemmPlan.** For both splits consecutive ranges share their border, start at 0
and end at the extent, so every row or column is in exactly one range; division
facts are proved from the definition of `\div`. The grid lemmas turn that into:
each planned cell has exactly one task. The invariant keeps, for each cell, that
its count is the `exec` entry of its task while tasks run.

**KernelSelect.** The invariant: cached capabilities are what the host's evidence
gives, a chosen tier was chosen from them under a value the environment has had,
and once the cache is filled each adopted tier is the cached one.

**Quarantine.** The invariant ties the place of the protocol and the phase to
what has been taken, what was unlinked and which paths must be named
(`TakenInv`, `PhaseInv`, `OutcomeInv`, `RecoveryInv`). It says nothing about how
often others have moved, so the results hold for any number of moves. They are
the quarantine's share of `OthersKept`, `LeftIsNamed` and `OutcomeIsTrue`, and
the run's `Refines`. `QuaOutcomesAreKnown` is what makes the composition sound: the
publications use `ClaimOutcome` for a removal instead of its twenty steps.

**ReportPublication.** That the old bytes stay reachable is not inductive: the
rollback removes a backup of one file because of what the forward path did to it
several loops before. The invariant is one predicate per file and loop. `ItemHolds`
relates the record the code keeps of a file (`_PreparedOutput`) to what its three
names hold; `ForwardHolds` says which files the loop at hand has passed and what
that established (staged, backed up, renamed); `RollbackHolds` says, as long as the
rollback has found nothing to report, which files it has put back on its way from
the last to the first; `Conclusion` what the report at the end may say. Files
of others are counted, so `OthersKept` needs the cardinality lemma `MovedAside`: a
file that goes from a name into a quarantine that held none leaves the number as it
was. `VaultHolds` supplies that the quarantine held none: each slot of each file is
claimed once.

**PackagePublication, InventoryPublication, TestInventory.** Their invariants are at
the head of their sections in `PublicationProofs`. For the package: which steps
precede the rename, that the temporary archive is gone or the destination
untouched before it, and that a failure afterwards has either restored the prior
archive or named its backup. For the build inventory, per publisher: what its place
in the code says of its temporary file, and that from the comparison to the rename
the target is what it read unless another publisher or editor came between
(`raced`). For the test inventory: every frozen row of the inventory, of the base
of a refresh and of its candidate was observed.

**The composition.** `PartInv` is the invariant of the component a behaviour is
about. The publication of reports, under two instances of its constants, is taken
from its module by instantiation; the lemmas `ReportsAlike` and `SidecarsAlike`
state that the instances of `MCPublication` and those of the proof module define
the same formulas.

**Commands.** For git, the invariant accounts for every descriptor and thread that
is open (`Cleanup` closes what was opened before the failure), and bounds what a
reader has captured by its limit and one byte. For a bounded command it says which
of leader, descendants and group can still run after each signal; for an observed
one, what the watching process has seen of the job or the session. `AcceptedIsWhole`
follows because acceptance comes after end of file on every pipe, and end of file
after the last holder of a write end is gone.

**The tree.** `TreeInv` rests on one fact about others: whatever they change, the inode
that changes, or the directory whose name they change, gets a stamp it never had
(`TreeOthersMove`, `TreeLater`). So the invariant can say of everything recorded what
holds while a stamp stands: a file or link that still has its stamp is in its place with
the bytes recorded (`TreeHeld`), the directories lead where they led while the root has
its stamp (`TreeLed`), and what was absent still is while every directory of the
structure has its own (`TreeAbsent`). Between two system calls the same is said of the
descriptor that is open and of the names scanned so far (`TreeOpened`, `TreeScanning`).
At the seal none of this is known to hold still. What makes it so is that `verify` looks
at every level, node and absence once more: a stamp that is seen again after the seal
was the stamp at the seal (`TreeRereading`, `TreeAgain`), and what waits to be looked at
is in the queue, the structure before the nodes (`TreePending`, `TreeFirst`). When the
queue is empty all stamps of the snapshot stood at the seal (`TreeVerified`), and the
moment of the seal is the one at which contents, links, listings and absences coexist
(`ContentsCoexist`), and of an archive all children were captured (`WalkIsComplete`).
Git is asked by names, without a look at stamps. An answer after the first verification
is of the sealed tree, or a directory of the structure has changed since, and then the
verification still to come fails (`TreeAnswered`). `TreeProofs` speaks of the session by
itself; `ObservationProofs` takes its results over by instantiation, the lemmas
`TreesAlike` and `TreeNextAlike` state that both instances define the same formulas.

**Private copies.** `CopyInv` says for each place of the protocol which descriptors
are open (`CopySealing`: a writer exists until its copy is registered, and no
registered copy has one), of what the bytes read so far are (`CopyFreezing`: of the
artifact as it was opened, unless `since` records that others edited it, which the
look at the size and the stamp then notices; `CopyChecking` the same of a copy that
is read back), and what cleanup owes at each step (`CopyClosing`: a descriptor that
may be open makes its file uncertain, an uncertain file is an issue, what lies in the
quarantine is named). "Complete means nothing is left" follows only because a claim is
made when no descriptor of that file is open.

**Git.** `GitInv` dates each answer: it was true of the moment `asked[i]` at which its
command ran (`GitTold`), the moments are in order (`GitTimed`), and between two
commands the marker was seen in place (`GitWatched`). When both rounds agree, the last
command of the first round divides the two runs of every command: what each of them
told was so before and after that moment, and nothing observed is taken away and taken
up again, so it was so then. That moment is the witness of `AcceptedWasTrue`. A tree
that is published is the one of the revision named two commands before, whatever the
branch does meanwhile (`PublishedIsCommitted`).

**The suite.** `SuiteInv`: a test that has an event is accounted for, because its body
came to its end, because it skipped itself and the ledger has it, or because the run
has failed (`SuiteOutcomes`); the tests that reached a skip are those on the ledger
(`SuiteSeen`); outside the run unittest is bound as it was found (`SuiteHooked`). With
"every test was stopped" and "a stopped test has an event" that makes an accepted run a
real one.

The proofs changed the models where `CASE` arms overlapped: TLA+ leaves open which arm
counts, TLC takes the first. They now exclude each other (`SuiteExecution`,
`RepositoryGit`, `Level1Report`, `Level2Check`, `Level2Report`, `WindowsBenchmark`).
`TreeSnapshot` names the empty structure (`NoStructure`) where it was the constant of an
absent value, so that a dictionary is always a function.

Model-checked only:

- `AdmittedEnds`, `HelperAnswers`, `CallerReturns`: liveness is out of the prover's
  reach.
- The run `reports`: its properties are about the results of folds over rows, which
  would need induction over data.

## 7. Not modelled

Floating-point kernels, entry points, headers, catalogs and tuning tables: their
results are numbers, not behaviours. ABI manifests, generators, metadata and the
remaining plotters make one pass over text or object files. Of the two large
inventory tools, the parsing of Zig and Python sources and the comparison of rows
with recorded rows appear as an arbitrary verdict, the static review of test code
as the limits of what a test may do. Wording, layout and logs are left out
everywhere. Memory ordering weaker than sequential consistency is argued in
section 2. Liveness beyond `pool_live` and `commands`: the publications and
runners have no loops that wait for somebody.

## 8. Plan

1. `TriangularBlocks`: the block order of `trmmWorkspace` and `trsmWorkspace` for
   side, triangle and transposition; `RankTiles`: the cyclic ownership of tiles
   and the rank queue, over `JobQueue`.
2. `SymvParallel`: task boundaries of a triangle, private workspaces with stale
   contents, the ranged clear and the merge, over `TaskRuntime`.
3. `ThreadLimit`: the environment cache, the override and the callers that read
   them, with racing first readers.
4. Operand views and aliasing as operators against address sets; Level-1 splits;
   right-side solves; thread-local workspaces.
