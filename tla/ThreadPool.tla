----------------------------- MODULE ThreadPool -----------------------------
(***************************************************************************)
(* The shared task runtime, src/blas/core/execution/thread_pool.zig: the   *)
(* admission flag io_busy, the persistent workers behind runLowLatency,    *)
(* the std.Io.Group path behind run, and shutdown.                         *)
(*                                                                         *)
(* One action is one access (or a run of accesses nobody can observe apart)*)
(* to the shared atomics.  A futex wait is the atomic test-and-sleep the   *)
(* kernel provides and may return for no reason; a futexWake whose only    *)
(* sleeper can wake spuriously is one step with the store before it.       *)
(* Atomics are sequentially consistent: every hand-over in the code is a   *)
(* release store read by an acquire load, and PayloadQuiescent shows that  *)
(* the plain payload variables never race.                                 *)
(***************************************************************************)
EXTENDS Integers, FiniteSets

CONSTANTS
  Callers,    (* application threads that enter the library                *)
  None,       (* not a caller: `persistent_tasks = undefined`              *)
  MaxTasks,   (* max_tasks (64): the runtime has at most MaxTasks-1 helpers*)
  MaxCount,   (* bound on `count`: the largest task set a caller submits   *)
  Counts,     (* the task counts callers submit                            *)
  Entries,    (* the entry points callers use                              *)
  Capacity,   (* CPUs, at most the build's thread_limit                    *)
  EnvLimit,   (* envThreadLimit(): ZYNUM_MAXIMUM_THREADS, 0 = none         *)
  Overrides,  (* the values setMaxThreads is called with                   *)
  GenMod,     (* 2^32 in the code: generations wrap                        *)
  MacOS       (* whether the macOS-only early-wake hint is compiled in     *)

ASSUME PoolAssumptions ==
  /\ None \notin Callers
  /\ MaxTasks \in Nat /\ MaxTasks >= 2
  /\ MaxCount \in Nat
  /\ Counts \subseteq 0 .. MaxCount
  /\ Entries \subseteq {"run", "runLowLatency"}
  /\ Capacity \in Nat \ {0} /\ EnvLimit \in Nat
  /\ Overrides \subseteq Nat
  /\ GenMod \in Nat /\ GenMod >= 2
  /\ MacOS \in BOOLEAN

VARIABLES
  override,           (* max_threads_override, 0 = none                    *)
  busy,               (* io_busy                                           *)
  poolState,          (* persistent_init_state: 0 new, 1 busy, 2 up, 3 off *)
  ioState,            (* io_init_state, same values                        *)
  workerCount,        (* persistent_worker_count                           *)
  readyCount,         (* persistent_ready_count                            *)
  exitedCount,        (* persistent_exited_count                           *)
  shutdownRequested,  (* persistent_shutdown_requested                     *)
  generation,         (* persistent_worker_generation                      *)
  waiting,            (* persistent_worker_waiting                         *)
  job,                (* the published payload, see NoJob                  *)
  doneCount,          (* persistent_done_count                             *)
  pc,                 (* where each caller is                              *)
  size,               (* `count` of its current call                       *)
  exec,               (* exec[c][i]: how often task i of c has run         *)
  k,                  (* loop index of the caller that holds io_busy       *)
  group,              (* group[i]: whose task i is queued on io_threaded   *)
  wpc,                (* where each persistent worker is                   *)
  seen,               (* its local `seen`                                  *)
  local               (* its locals tasks, index and done_target           *)

gateVars    == <<override, busy>>
lifeVars    == <<poolState, workerCount, readyCount, exitedCount, shutdownRequested>>
ioVars      == <<ioState, group>>
helperVars  == <<generation, waiting, wpc, seen, local>>
jobVars     == <<job, doneCount>>
callVars    == <<size, exec, k>>
runtimeVars == <<lifeVars, ioVars, helperVars, jobVars>>
outside     == <<gateVars, lifeVars, ioVars, callVars>>
vars        == <<gateVars, runtimeVars, pc, callVars>>

Worker   == 0 .. MaxTasks - 2
Region   == 0 .. MaxCount - 1
NoWrites == [i \in Region |-> 0]
WrittenOnce(m) == [i \in Region |-> IF i < m THEN 1 ELSE 0]

\* persistent_tasks, _job_count, _first_helper, and _active_helpers, which
\* holds the same number as _done_target.
NoJob    == [owner |-> None, count |-> 0, first |-> 0, active |-> 0]
NoLocal  == [owner |-> None, index |-> 0, target |-> 0]

\* runtime.helperThreadCount(max_tasks - 1), computed afresh on every call.
LesserOf(a, b) == IF a <= b THEN a ELSE b
maxThreads ==
  IF override # 0 THEN LesserOf(override, Capacity)
  ELSE IF EnvLimit # 0 THEN LesserOf(EnvLimit, Capacity) ELSE Capacity
\* Defects a change could introduce (here the missing max_tasks - 1 limit); the
\* properties below are checked to notice each of them.
bugNoTaskCap == IF maxThreads <= 1 THEN 0 ELSE maxThreads - 1

configuredHelperCount ==
  IF maxThreads <= 1 THEN 0 ELSE LesserOf(maxThreads - 1, MaxTasks - 1)

bugNoLateWake      == {}
bugOneHelperTooFew == doneCount >= job.active - 1
bugGroupNotAwaited == TRUE
bugPoolNotJoined   == TRUE
bugSleepUnconditionally(w) == TRUE
bugSeenStartsAtZero(w)     == 0

gateOpen      == busy = 0
firstHelper(count, active) == IF count = 3 /\ workerCount >= active + 2 THEN 2 ELSE 0
activeHelpers == job.first .. job.first + job.active - 1
lateWakeSet   == activeHelpers
jobDone       == doneCount >= job.active
taskIndex(w)  == w - job.first + 1
groupDone     == \A i \in Region : group[i] = None
workersJoined == \A w \in Worker : wpc[w] \in {"none", "finished"}
bumped(w)     == (generation[w] + 1) % GenMod
unnotified(w) == generation[w] = seen[w]
bootSeen(w)   == generation[w]

Goto(c, from, to) == pc[c] = from /\ pc' = [pc EXCEPT ![c] = to]
WorkerGoto(w, from, to) == wpc[w] = from /\ wpc' = [wpc EXCEPT ![w] = to]

\* futexWake on an address a caller may sleep on; only one ever does.
WakeCaller(asleep, awake) ==
  pc' = [c \in Callers |-> IF pc[c] = asleep THEN awake ELSE pc[c]]

\* futexWake on the generation word of each worker in W.
WakeWorkers(W) ==
  wpc' = [w \in Worker |-> IF w \in W /\ wpc[w] = "asleep" THEN "park" ELSE wpc[w]]

Init ==
  /\ override = 0 /\ busy = 0
  /\ poolState = 0 /\ ioState = 0
  /\ workerCount = 0 /\ readyCount = 0 /\ exitedCount = 0
  /\ shutdownRequested = FALSE
  /\ generation = [w \in Worker |-> 0]
  /\ waiting = [w \in Worker |-> FALSE]
  /\ job = NoJob /\ doneCount = 0
  /\ pc = [c \in Callers |-> "idle"]
  /\ size = [c \in Callers |-> 0]
  /\ exec = [c \in Callers |-> NoWrites]
  /\ k = 0
  /\ group = [i \in Region |-> None]
  /\ wpc = [w \in Worker |-> "none"]
  /\ seen = [w \in Worker |-> 0]
  /\ local = [w \in Worker |-> NoLocal]
-----------------------------------------------------------------------------
(* Starting a call, admission, and what follows the answer.                *)

setMaxThreads(v) ==
  /\ override' = v
  /\ UNCHANGED <<callVars, runtimeVars, busy, pc>>

\* A BLAS routine has split its output into m disjoint tasks and enters.
Call(c, entry, m) ==
  /\ Goto(c, "idle", entry)
  /\ size' = [size EXCEPT ![c] = m]
  /\ UNCHANGED <<gateVars, runtimeVars, exec, k>>

\* `if (count <= 1) return false`, or io_busy is taken.
Refuse(c) ==
  /\ size[c] <= 1 \/ ~gateOpen
  /\ Goto(c, "run", "refused") \/ Goto(c, "runLowLatency", "refused")
  /\ UNCHANGED <<helperVars, jobVars, outside>>

Admit(c) ==
  /\ size[c] > 1 /\ gateOpen
  /\ Goto(c, "run", "ensureIo") \/ Goto(c, "runLowLatency", "ensurePool")
  /\ busy' = 1
  /\ UNCHANGED <<callVars, runtimeVars, override>>

\* `defer io_busy.store(0, .release)` after the answer is decided.
Release(c) ==
  /\ Goto(c, "true", "accepted") \/ Goto(c, "false", "refused")
  /\ busy' = 0
  /\ UNCHANGED <<callVars, runtimeVars, override>>

\* `if (!run(...))` the caller computes the whole result by itself.
Fallback(c) ==
  /\ Goto(c, "refused", "settled")
  /\ exec' = [exec EXCEPT ![c] = WrittenOnce(size[c])]
  /\ UNCHANGED <<gateVars, runtimeVars, size, k>>

\* The BLAS routine returns; its task array on the stack is gone.
Leave(c) ==
  /\ Goto(c, "accepted", "idle") \/ Goto(c, "settled", "idle")
  /\ size' = [size EXCEPT ![c] = 0]
  /\ exec' = [exec EXCEPT ![c] = NoWrites]
  /\ UNCHANGED <<gateVars, runtimeVars, k>>
-----------------------------------------------------------------------------
(* runLowLatency -> runPersistent -> ensurePersistentWorkers.              *)

ensurePersistentWorkers(c) ==
  /\ poolState # 1
  /\ Goto(c, "ensurePool", IF configuredHelperCount = 0 \/ poolState = 3 THEN "ensureIo"
                           ELSE IF poolState = 2 THEN "plan" ELSE "initPool")
  /\ poolState' = IF poolState = 0 /\ configuredHelperCount # 0 THEN 1 ELSE poolState
  /\ UNCHANGED <<gateVars, ioVars, helperVars, jobVars, workerCount, readyCount,
                 exitedCount, shutdownRequested, size, exec, k>>

\* The winner of the 0 -> 1 exchange reads the thread limit a second time.
StartNoWorkers(c) ==
  /\ configuredHelperCount = 0
  /\ Goto(c, "initPool", "ensureIo")
  /\ poolState' = 3
  /\ UNCHANGED <<gateVars, ioVars, helperVars, jobVars, workerCount, readyCount,
                 exitedCount, shutdownRequested, size, exec, k>>

\* m helpers are submitted before `group.concurrent(...) catch break`.
StartWorkers(c, m) ==
  /\ configuredHelperCount # 0
  /\ Goto(c, "initPool", IF m = 0 THEN "ensureIo" ELSE "awaitReady")
  /\ poolState' = IF m = 0 THEN 3 ELSE 1
  /\ workerCount' = IF m = 0 THEN workerCount ELSE m
  /\ shutdownRequested' = FALSE /\ exitedCount' = 0 /\ readyCount' = 0
  /\ wpc' = [w \in Worker |-> IF w < m THEN "boot" ELSE wpc[w]]
  /\ UNCHANGED <<gateVars, ioVars, jobVars, callVars, generation, waiting, seen, local>>

AwaitReady(c) ==
  /\ Goto(c, "awaitReady", IF readyCount >= workerCount THEN "plan" ELSE "readySleep")
  /\ poolState' = IF readyCount >= workerCount THEN 2 ELSE poolState
  /\ UNCHANGED <<gateVars, ioVars, helperVars, jobVars, workerCount, readyCount,
                 exitedCount, shutdownRequested, size, exec, k>>

\* Too few workers, or the limit was lowered meanwhile: use a group instead.
PlanRefuse(c) ==
  /\ workerCount < size[c] - 1 \/ configuredHelperCount < size[c] - 1
  /\ Goto(c, "plan", "ensureIo")
  /\ UNCHANGED <<helperVars, jobVars, outside>>

\* Writes the whole payload; nothing is published before a generation moves.
Plan(c) ==
  LET active == size[c] - 1 IN
  /\ workerCount >= active /\ configuredHelperCount >= active
  /\ Goto(c, "plan", "publish")
  /\ job' = [owner |-> c, count |-> size[c], first |-> firstHelper(size[c], active),
             active |-> active]
  /\ doneCount' = 0
  /\ k' = 0
  /\ UNCHANGED <<gateVars, lifeVars, ioVars, helperVars, size, exec>>

earlyWake(w) ==
  MacOS /\ (job.first # 0 \/ job.active # workerCount) /\ waiting[w]

\* Bump one helper's own generation, with the macOS early wake.
Publish(c) ==
  LET w == job.first + k IN
  /\ Goto(c, "publish", IF k + 1 = job.active THEN "self" ELSE "publish")
  /\ generation' = [generation EXCEPT ![w] = bumped(w)]
  /\ WakeWorkers(IF earlyWake(w) THEN {w} ELSE {})
  /\ k' = k + 1
  /\ UNCHANGED <<gateVars, lifeVars, ioVars, jobVars, waiting, seen, local, size, exec>>

RunTaskZero(c) ==
  /\ Goto(c, "self", "awaitDone")
  /\ exec' = [exec EXCEPT ![c][0] = @ + 1]
  /\ UNCHANGED <<gateVars, runtimeVars, size, k>>

\* Seen while spinning, or after woke_sleepers was set.
AllDone(c) ==
  /\ jobDone
  /\ Goto(c, "awaitDone", "true") \/ Goto(c, "awaitWoken", "true")
  /\ UNCHANGED <<helperVars, jobVars, outside>>

LateWake(c) ==
  /\ ~jobDone
  /\ Goto(c, "awaitDone", "awaitWoken")
  /\ WakeWorkers(lateWakeSet)
  /\ UNCHANGED <<jobVars, outside, generation, waiting, seen, local>>

SleepUntilDone(c) ==
  /\ ~jobDone
  /\ Goto(c, "awaitWoken", "doneSleep")
  /\ UNCHANGED <<helperVars, jobVars, outside>>

CallerSpuriousWake(c) ==
  /\ \/ Goto(c, "doneSleep", "awaitWoken")
     \/ Goto(c, "readySleep", "awaitReady")
     \/ Goto(c, "exitSleep", "awaitExit")
  /\ UNCHANGED <<helperVars, jobVars, outside>>
-----------------------------------------------------------------------------
(* runGroup: a std.Io.Group on io_threaded.                                *)

ensureIoThreaded(c) ==
  /\ ioState # 1
  /\ Goto(c, "ensureIo", IF configuredHelperCount = 0 \/ ioState = 3 THEN "false"
                         ELSE IF ioState = 2 THEN "checkIo" ELSE "initIo")
  /\ ioState' = IF ioState = 0 /\ configuredHelperCount # 0 THEN 1 ELSE ioState
  /\ UNCHANGED <<gateVars, lifeVars, helperVars, jobVars, group, size, exec, k>>

\* Again a second read of the thread limit after the 0 -> 1 exchange.
InitIo(c) ==
  /\ Goto(c, "initIo", IF configuredHelperCount = 0 THEN "false" ELSE "checkIo")
  /\ ioState' = IF configuredHelperCount = 0 THEN 3 ELSE 2
  /\ UNCHANGED <<gateVars, lifeVars, helperVars, jobVars, group, size, exec, k>>

CheckIo(c) ==
  /\ Goto(c, "checkIo", IF size[c] - 1 > configuredHelperCount THEN "false" ELSE "submit")
  /\ k' = 1
  /\ UNCHANGED <<gateVars, runtimeVars, size, exec>>

bugSubmitGivesUp(c) ==
  /\ \/ /\ Goto(c, "submit", IF k + 1 = size[c] THEN "groupSelf" ELSE "submit")
        /\ group' = [group EXCEPT ![k] = c]
     \/ Goto(c, "submit", "false") /\ UNCHANGED group
  /\ k' = k + 1
  /\ UNCHANGED <<gateVars, lifeVars, ioState, helperVars, jobVars, size, exec>>

\* group.concurrent queues task k, or fails and the caller runs it itself.
SubmitTask(c) ==
  /\ Goto(c, "submit", IF k + 1 = size[c] THEN "groupSelf" ELSE "submit")
  /\ \/ group' = [group EXCEPT ![k] = c] /\ UNCHANGED exec
     \/ exec' = [exec EXCEPT ![c][k] = @ + 1] /\ UNCHANGED group
  /\ k' = k + 1
  /\ UNCHANGED <<gateVars, lifeVars, helperVars, jobVars, ioState, size>>

\* On a thread of io_threaded, through the pointer that was queued.
runIoTask(i) ==
  /\ group[i] # None
  /\ exec' = [exec EXCEPT ![group[i]][i] = @ + 1]
  /\ group' = [group EXCEPT ![i] = None]
  /\ UNCHANGED <<gateVars, lifeVars, helperVars, jobVars, ioState, pc, size, k>>

GroupTaskZero(c) ==
  /\ Goto(c, "groupSelf", "awaitGroup")
  /\ exec' = [exec EXCEPT ![c][0] = @ + 1]
  /\ UNCHANGED <<gateVars, runtimeVars, size, k>>

AwaitGroup(c) ==
  /\ groupDone
  /\ Goto(c, "awaitGroup", "true")
  /\ UNCHANGED <<helperVars, jobVars, outside>>
-----------------------------------------------------------------------------
(* shutdown: spins until it owns io_busy, then stops both pools.           *)

ShutdownLock(c) ==
  /\ gateOpen
  /\ Goto(c, "idle", "stopPool")
  /\ busy' = 1
  /\ UNCHANGED <<callVars, runtimeVars, override>>

shutdownPersistentLocked(c) ==
  LET stop == poolState = 2 /\ workerCount # 0 IN
  /\ poolState # 1
  /\ Goto(c, "stopPool", IF poolState # 2 THEN "stopIo" ELSE IF stop THEN "bump" ELSE "join")
  /\ poolState' = IF poolState = 3 THEN 0 ELSE poolState
  /\ shutdownRequested' = IF stop THEN TRUE ELSE shutdownRequested
  /\ exitedCount' = IF stop THEN 0 ELSE exitedCount
  /\ k' = 0
  /\ UNCHANGED <<gateVars, ioVars, helperVars, jobVars, workerCount, readyCount, size,
                 exec>>

ShutdownBump(c) ==
  /\ Goto(c, "bump", IF k + 1 = workerCount THEN "awaitExit" ELSE "bump")
  /\ generation' = [generation EXCEPT ![k] = bumped(k)]
  /\ WakeWorkers({k})
  /\ k' = k + 1
  /\ UNCHANGED <<gateVars, lifeVars, ioVars, jobVars, waiting, seen, local, size, exec>>

AwaitExit(c) ==
  /\ Goto(c, "awaitExit", IF exitedCount >= workerCount THEN "join" ELSE "exitSleep")
  /\ UNCHANGED <<helperVars, jobVars, outside>>

\* persistent_group.await and persistent_threaded.deinit join the threads.
Join(c) ==
  /\ workersJoined
  /\ Goto(c, "join", "stopIo")
  /\ wpc' = [w \in Worker |-> IF wpc[w] = "finished" THEN "none" ELSE wpc[w]]
  /\ workerCount' = 0 /\ readyCount' = 0 /\ exitedCount' = 0
  /\ shutdownRequested' = FALSE /\ poolState' = 0
  /\ UNCHANGED <<gateVars, ioVars, jobVars, callVars, generation, waiting, seen, local>>

\* io_threaded.deinit waits for whatever still runs on it.
shutdownIoThreadedLocked(c) ==
  /\ ioState # 1 /\ groupDone
  /\ Goto(c, "stopIo", "unlock")
  /\ ioState' = 0
  /\ UNCHANGED <<gateVars, lifeVars, helperVars, jobVars, group, size, exec, k>>

ShutdownUnlock(c) ==
  /\ Goto(c, "unlock", "idle")
  /\ busy' = 0
  /\ UNCHANGED <<callVars, runtimeVars, override>>
-----------------------------------------------------------------------------
(* runPersistentWorker(w).                                                 *)

\* Reads its generation before it reports ready.
WorkerBoot(w) ==
  /\ WorkerGoto(w, "boot", "announce")
  /\ seen' = [seen EXCEPT ![w] = bootSeen(w)]
  /\ UNCHANGED <<jobVars, outside, generation, waiting, local, pc>>

WorkerAnnounce(w) ==
  /\ WorkerGoto(w, "announce", "spin")
  /\ readyCount' = readyCount + 1
  /\ WakeCaller("readySleep", "awaitReady")
  /\ UNCHANGED <<gateVars, ioVars, jobVars, callVars, poolState, workerCount,
                 exitedCount, shutdownRequested, generation, waiting, seen, local>>

\* A changed generation, seen while spinning or after the spin budget.
WorkerNotice(w) ==
  /\ generation[w] # seen[w]
  /\ WorkerGoto(w, "spin", "dispatch") \/ WorkerGoto(w, "park", "dispatch")
  /\ seen' = [seen EXCEPT ![w] = generation[w]]
  /\ waiting' = [waiting EXCEPT ![w] = FALSE]
  /\ UNCHANGED <<jobVars, outside, generation, local, pc>>

\* The spin budget is used up; macOS leaves the early-wake hint.
WorkerPark(w) ==
  /\ generation[w] = seen[w]
  /\ WorkerGoto(w, "spin", "park")
  /\ waiting' = [waiting EXCEPT ![w] = MacOS]
  /\ UNCHANGED <<jobVars, outside, generation, seen, local, pc>>

\* futexWaitUncancelable(generation, seen) goes to sleep.
WorkerSleep(w) ==
  /\ unnotified(w)
  /\ WorkerGoto(w, "park", "asleep")
  /\ UNCHANGED <<jobVars, outside, generation, waiting, seen, local, pc>>

WorkerSpuriousWake(w) ==
  /\ WorkerGoto(w, "asleep", "park")
  /\ UNCHANGED <<jobVars, outside, generation, waiting, seen, local, pc>>

WorkerStop(w) ==
  /\ shutdownRequested
  /\ WorkerGoto(w, "dispatch", "exit")
  /\ UNCHANGED <<jobVars, outside, generation, waiting, seen, local, pc>>

\* Reads the payload and takes the task index that belongs to it.
WorkerDispatch(w) ==
  LET mine == w \in activeHelpers IN
  /\ ~shutdownRequested
  /\ WorkerGoto(w, "dispatch", IF ~mine THEN "spin"
                               ELSE IF taskIndex(w) < job.count THEN "task" ELSE "ack")
  /\ local' = IF ~mine THEN local
              ELSE [local EXCEPT ![w] = [owner |-> job.owner, index |-> taskIndex(w),
                                         target |-> job.active]]
  /\ UNCHANGED <<jobVars, outside, generation, waiting, seen, pc>>

WorkerTask(w) ==
  /\ WorkerGoto(w, "task", "ack")
  /\ exec' = [exec EXCEPT ![local[w].owner][local[w].index] = @ + 1]
  /\ UNCHANGED <<gateVars, lifeVars, ioVars, jobVars, generation, waiting, seen, local,
                 pc, size, k>>

\* The last helper wakes the caller.
WorkerAck(w) ==
  /\ WorkerGoto(w, "ack", "spin")
  /\ doneCount' = doneCount + 1
  /\ IF doneCount + 1 >= local[w].target
     THEN WakeCaller("doneSleep", "awaitWoken") ELSE UNCHANGED pc
  /\ local' = [local EXCEPT ![w] = NoLocal]
  /\ UNCHANGED <<outside, generation, waiting, seen, job>>

WorkerExit(w) ==
  /\ WorkerGoto(w, "exit", IF exitedCount + 1 >= workerCount THEN "exitWake" ELSE "finished")
  /\ exitedCount' = exitedCount + 1
  /\ UNCHANGED <<gateVars, ioVars, jobVars, callVars, poolState, workerCount,
                 readyCount, shutdownRequested, generation, waiting, seen, local, pc>>

\* Still uses persistent_threaded.io() after it has reported its exit.
WorkerExitWake(w) ==
  /\ WorkerGoto(w, "exitWake", "finished")
  /\ WakeCaller("exitSleep", "awaitExit")
  /\ UNCHANGED <<jobVars, outside, generation, waiting, seen, local>>
-----------------------------------------------------------------------------
\* What a caller inside a call, or inside shutdown, does next.
CallerStep(c) ==
  \/ Refuse(c) \/ Admit(c) \/ Release(c) \/ Fallback(c) \/ Leave(c)
  \/ ensurePersistentWorkers(c) \/ StartNoWorkers(c)
  \/ \E m \in 0 .. configuredHelperCount : StartWorkers(c, m)
  \/ AwaitReady(c) \/ PlanRefuse(c) \/ Plan(c) \/ Publish(c) \/ RunTaskZero(c)
  \/ AllDone(c) \/ LateWake(c) \/ SleepUntilDone(c)
  \/ ensureIoThreaded(c) \/ InitIo(c) \/ CheckIo(c) \/ SubmitTask(c)
  \/ GroupTaskZero(c) \/ AwaitGroup(c)
  \/ shutdownPersistentLocked(c) \/ ShutdownBump(c) \/ AwaitExit(c)
  \/ Join(c) \/ shutdownIoThreadedLocked(c) \/ ShutdownUnlock(c)

WorkerStep(w) ==
  \/ WorkerBoot(w) \/ WorkerAnnounce(w) \/ WorkerNotice(w) \/ WorkerPark(w)
  \/ WorkerSleep(w) \/ WorkerStop(w) \/ WorkerDispatch(w) \/ WorkerTask(w)
  \/ WorkerAck(w) \/ WorkerExit(w) \/ WorkerExitWake(w)

Next ==
  \/ \E v \in Overrides : setMaxThreads(v)
  \/ \E c \in Callers :
       \/ \E entry \in Entries, m \in Counts : Call(c, entry, m)
       \/ ShutdownLock(c)
       \/ CallerStep(c)
       \/ CallerSpuriousWake(c)
  \/ \E w \in Worker : WorkerStep(w) \/ WorkerSpuriousWake(w)
  \/ \E i \in Region : runIoTask(i)

Spec == Init /\ [][Next]_vars

\* The OS keeps scheduling every thread that can run; nobody has to call.
Fairness ==
  /\ \A c \in Callers : WF_vars(CallerStep(c))
  /\ \A w \in Worker : WF_vars(WorkerStep(w))
  /\ \A i \in Region : WF_vars(runIoTask(i))

FairSpec == Spec /\ Fairness
-----------------------------------------------------------------------------
(* What the task runtime must guarantee, and the inductive invariant that  *)
(* shows why it does.                                                      *)

PersistentStage == {"publish", "self", "awaitDone", "awaitWoken", "doneSleep"}
GroupStage      == {"submit", "groupSelf", "awaitGroup"}
StartStage      == {"ensurePool", "initPool", "awaitReady", "readySleep", "plan"}
IoStage         == {"ensureIo", "initIo", "checkIo"}
StopStage       == {"stopPool", "bump", "awaitExit", "exitSleep", "join", "stopIo", "unlock"}
HoldStage       == PersistentStage \cup GroupStage \cup StartStage \cup IoStage
                   \cup StopStage \cup {"true", "false"}
FreeStage       == {"idle", "run", "runLowLatency", "accepted", "refused", "settled"}
WorkerStage     == {"none", "boot", "announce", "spin", "park", "asleep", "dispatch",
                    "task", "ack", "exit", "exitWake", "finished"}

Payload   == [owner : Callers \cup {None}, count : 0 .. MaxCount, first : {0, 2},
              active : 0 .. MaxTasks - 1]
LocalData == [owner : Callers \cup {None}, index : 0 .. MaxTasks - 1,
              target : 0 .. MaxTasks - 1]

\* Every variable of thread_pool.zig stays in its range; in particular every
\* worker index stays inside the max_tasks-sized arrays.
TypeOK ==
  /\ override \in Nat /\ busy \in {0, 1}
  /\ poolState \in 0 .. 3 /\ ioState \in 0 .. 3
  /\ workerCount \in 0 .. MaxTasks - 1
  /\ readyCount \in 0 .. MaxTasks - 1 /\ exitedCount \in 0 .. MaxTasks - 1
  /\ shutdownRequested \in BOOLEAN
  /\ generation \in [Worker -> 0 .. GenMod - 1]
  /\ waiting \in [Worker -> BOOLEAN]
  /\ job \in Payload /\ doneCount \in 0 .. MaxTasks - 1
  /\ pc \in [Callers -> HoldStage \cup FreeStage]
  /\ size \in [Callers -> 0 .. MaxCount]
  /\ exec \in [Callers -> [Region -> 0 .. 1]]
  /\ k \in 0 .. MaxTasks
  /\ group \in [Region -> Callers \cup {None}]
  /\ wpc \in [Worker -> WorkerStage]
  /\ seen \in [Worker -> 0 .. GenMod - 1]
  /\ local \in [Worker -> LocalData]

\* A call that answers true has run each of its tasks exactly once and no
\* other; one that answers false has run none, so that the caller's fallback
\* (`if (!run(...))`) does not write a region twice.
ExactlyOnce ==
  \A c \in Callers :
    /\ pc[c] \in {"true", "accepted", "settled"} => exec[c] = WrittenOnce(size[c])
    /\ pc[c] \in {"false", "refused"} => exec[c] = NoWrites

\* The task array lives on the caller's stack: a helper or a group thread
\* that is about to read it finds its caller still inside the same run.
NoUseAfterReturn ==
  /\ \A w \in Worker :
       wpc[w] = "task" => \E c \in Callers : c = local[w].owner /\ pc[c] \in PersistentStage
  /\ \A i \in Region :
       group[i] # None => \E c \in Callers : c = group[i] /\ pc[c] \in GroupStage

\* persistent_task_fn and persistent_tasks are plain variables.  While the
\* caller rewrites them no helper is between noticing a generation and its
\* acknowledgement, and none will notice one.
PayloadQuiescent ==
  (\E c \in Callers : pc[c] = "plan") =>
    \A w \in Worker :
      /\ wpc[w] \notin {"dispatch", "task", "ack"}
      /\ wpc[w] \in {"spin", "park", "asleep"} => generation[w] = seen[w]

\* When shutdown has stopped the pool, or the pool is off, no worker thread
\* is left: the library can be unloaded, or the pool started afresh.
NoWorkerLeft ==
  poolState \in {0, 3} => \A w \in Worker : wpc[w] = "none"

\* Under fair scheduling, a run that was admitted and a shutdown that owns
\* io_busy both come to an end: no futex wake-up is lost.
AdmittedEnds == \A c \in Callers : pc[c] \in HoldStage ~> pc[c] \in FreeStage

\* Every generation bump is answered: a helper that was addressed, asleep or
\* not, does not sleep on forever.
HelperAnswers ==
  \A w \in Worker :
    wpc[w] # "none" /\ generation[w] # seen[w] ~> wpc[w] = "none" \/ generation[w] = seen[w]

\* A caller's stage as the routine that called the runtime sees it.
stage(c) ==
  CASE pc[c] \in StopStage \cup {"idle"} -> "idle"
    [] pc[c] \in {"accepted", "refused", "settled"} -> pc[c]
    [] OTHER -> "open"

\* The runtime implements the promise of TaskRuntime: all tasks once and true,
\* or none and false, and never two calls' helper tasks at the same time.
TR == INSTANCE TaskRuntime WITH call <- [c \in Callers |-> stage(c)]
Refines == TR!Spec

-----------------------------------------------------------------------------
(***************************************************************************)
(* Why it is right: io_busy makes the caller past admission unique, so     *)
(* everything is said relative to that holder and its phase.               *)
(***************************************************************************)
HolderOf(p) == CHOOSE c \in Callers : p[c] \in HoldStage
PhaseOf(p)  == IF \E c \in Callers : p[c] \in HoldStage THEN p[HolderOf(p)] ELSE "free"
holder == HolderOf(pc)
phase  == PhaseOf(pc)

Awaiting == {"awaitReady", "readySleep"}
Stopping == {"bump", "awaitExit", "exitSleep", "join"}
Rest     == {"spin", "park", "asleep"}

\* Worker threads exist: the pool is up, or its creator waits for them.
PoolUp == poolState = 2 \/ phase \in Awaiting

\* The helpers whose generation the current run has moved.
Published ==
  job.first .. job.first + (IF phase = "publish" THEN k ELSE job.active) - 1

\* The workers whose generation the current shutdown has moved.
Stopped == 0 .. (IF phase = "bump" THEN k ELSE workerCount) - 1

Quiet(w) == wpc[w] \in Rest /\ seen[w] = generation[w]

\* Only the holder of io_busy is past admission.
GateInv ==
  /\ busy = 0 => \A c \in Callers : pc[c] \in FreeStage
  /\ \A c, d \in Callers : pc[c] \in HoldStage /\ pc[d] \in HoldStage => c = d

PoolInv ==
  /\ poolState = 1 <=> phase \in {"initPool"} \cup Awaiting
  /\ phase \in PersistentStage \cup Stopping \cup {"plan"} => poolState = 2
  /\ PoolUp => workerCount >= 1
  /\ shutdownRequested <=> phase \in Stopping
  /\ phase = "bump" => k \in 0 .. workerCount - 1

\* A helper that was given a task of the current run: it has yet to notice,
\* has yet to run the task, has run it, or has acknowledged it.
Helping(w) ==
  LET done == exec[holder][taskIndex(w)] = 1 IN
  /\ wpc[w] \in Rest \cup {"dispatch", "task", "ack"}
  /\ wpc[w] \in Rest => (seen[w] = generation[w] <=> done)
  /\ wpc[w] \in {"dispatch", "task"} => ~done
  /\ wpc[w] = "ack" => done
  /\ wpc[w] \in {"task", "ack"} =>
       local[w] = [owner |-> holder, index |-> taskIndex(w), target |-> job.active]
  /\ wpc[w] \notin Rest => seen[w] = generation[w]

Starting(w) ==
  /\ wpc[w] \in Rest \cup {"boot", "announce"}
  /\ wpc[w] # "boot" => seen[w] = generation[w]

Leaving(w) ==
  \/ wpc[w] \in Rest /\ seen[w] # generation[w]
  \/ wpc[w] \in {"dispatch", "exit", "exitWake", "finished"}

WorkerOK(w) ==
  IF ~PoolUp \/ w >= workerCount THEN wpc[w] = "none"
  ELSE IF phase \in Awaiting THEN Starting(w)
  ELSE IF phase \in PersistentStage /\ w \in Published THEN Helping(w)
  ELSE IF phase \in Stopping /\ w \in Stopped THEN Leaving(w)
  ELSE Quiet(w)

WorkerInv == \A w \in Worker : WorkerOK(w)

\* The three counters count what the caller waits for.
CountInv ==
  /\ phase \in Awaiting => readyCount = Cardinality({w \in Worker : wpc[w] \in Rest})
  /\ phase \in PersistentStage =>
       doneCount = Cardinality({w \in Worker : w \in Published /\ Quiet(w)})
  /\ phase \in Stopping =>
       exitedCount = Cardinality({w \in Worker : wpc[w] \in {"exitWake", "finished"}})

JobInv ==
  phase \in PersistentStage =>
    /\ job.owner = holder /\ job.count = size[holder]
    /\ job.active = size[holder] - 1 /\ job.active >= 1
    /\ job.first + job.active <= workerCount
    /\ phase = "publish" => k \in 0 .. job.active - 1
    /\ \A i \in Region :
         IF i = 0 THEN exec[holder][0] = (IF phase \in {"publish", "self"} THEN 0 ELSE 1)
         ELSE i - 1 + job.first \notin Published => exec[holder][i] = 0

GroupInv ==
  IF phase \in GroupStage
  THEN /\ size[holder] <= MaxTasks
       /\ phase = "submit" => k \in 1 .. size[holder] - 1
       /\ \A i \in Region :
            LET submitted == i >= 1 /\ i < (IF phase = "submit" THEN k ELSE size[holder]) IN
            /\ group[i] \in IF submitted THEN {None, holder} ELSE {None}
            /\ exec[holder][i] = IF i = 0 THEN (IF phase = "awaitGroup" THEN 1 ELSE 0)
                                 ELSE IF submitted /\ group[i] = None THEN 1 ELSE 0
  ELSE \A i \in Region : group[i] = None

ExecInv ==
  /\ phase \notin StopStage \cup {"free"} => size[holder] >= 2
  /\ \A c \in Callers :
       IF pc[c] \in {"true", "accepted", "settled"} THEN exec[c] = WrittenOnce(size[c])
       ELSE pc[c] \in PersistentStage \cup GroupStage \/ exec[c] = NoWrites

IndInv ==
  TypeOK /\ GateInv /\ PoolInv /\ WorkerInv /\ CountInv /\ JobInv /\ GroupInv /\ ExecInv
=============================================================================
