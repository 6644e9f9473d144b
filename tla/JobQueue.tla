------------------------------ MODULE JobQueue ------------------------------
(***************************************************************************)
(* runQueued of thread_pool.zig: a set of independent jobs that the tasks  *)
(* of one admitted run take from a shared counter, one job at a time and   *)
(* without a barrier, and the routines that do all the jobs themselves     *)
(* when it answers false (structured_blocked.zig).                         *)
(*                                                                         *)
(* The runtime is the abstract TaskRuntime.  A task here is a loop and not *)
(* one step: Execute is its start, and the runtime answers true when every *)
(* task has returned (ThreadPool acknowledges a task after its last write).*)
(* `next` never wraps: it is a usize that starts at 0 for every queue and  *)
(* ends at most at jobs + workers.                                         *)
(***************************************************************************)
EXTENDS RuntimeUser

CONSTANTS
  MaxJobs,   (* bound on `count`                                           *)
  Limits     (* the worker limits callers pass                             *)

ASSUME QueueAssumptions ==
  MaxTasks \in Nat \ {0} /\ MaxJobs \in Nat /\ Limits \subseteq Nat

VARIABLES
  jobs,              (* Queue.count                                        *)
  next,              (* Queue.next                                         *)
  slot,              (* slot[c][i]: where task i of c is in Queue.execute  *)
  index,             (* index[c][i]: the job it is in, 0 outside one       *)
  ran                (* ran[c][j]: how often job j of c has run            *)

queueVars == <<runtimeVars, pc, jobs, next, slot, index, ran>>

Task  == 0 .. MaxTasks - 1
Job   == 0 .. MaxJobs - 1
AllOf(S, v) == [x \in S |-> v]
RanOnce(n)  == [j \in Job |-> IF j < n THEN 1 ELSE 0]

workers(count, limit, helpers) == AtMost(count, AtMost(limit, helpers + 1))

QueueInit ==
  /\ Runtime!Init
  /\ pc = AllOf(Callers, "idle")
  /\ jobs = AllOf(Callers, 0) /\ next = AllOf(Callers, 0)
  /\ slot = AllOf(Callers, AllOf(Task, "none"))
  /\ index = AllOf(Callers, AllOf(Task, 0))
  /\ ran = AllOf(Callers, AllOf(Job, 0))

\* `helpers` is configuredHelperCount() now; the limit may change any time.
runQueued(c, count, limit, helpers) ==
  LET n == workers(count, limit, helpers) IN
  /\ Goto(c, "idle", IF n <= 1 THEN "false" ELSE "queue")
  /\ IF n <= 1 THEN UNCHANGED runtimeVars ELSE Runtime!Begin(c, n)
  /\ jobs' = [jobs EXCEPT ![c] = count]
  /\ UNCHANGED <<next, slot, index, ran>>

\* A thread of the runtime enters Queue.execute.
StartTask(c, i) ==
  /\ pc[c] = "queue"
  /\ Runtime!Execute(c, i)
  /\ slot' = [slot EXCEPT ![c][i] = "claim"]
  /\ UNCHANGED <<pc, jobs, next, index, ran>>

\* Defects a change could introduce have names that begin with bug; the
\* properties are checked to notice them.
bugLastJobDropped(c, i) ==
  /\ slot[c][i] = "claim"
  /\ index' = [index EXCEPT ![c][i] = IF next[c] + 1 >= jobs[c] THEN 0 ELSE next[c]]
  /\ next' = [next EXCEPT ![c] = @ + 1]
  /\ slot' = [slot EXCEPT ![c][i] = IF next[c] + 1 >= jobs[c] THEN "done" ELSE "job"]
  /\ UNCHANGED <<runtimeVars, pc, jobs, ran>>

\* A load and a store in place of the fetchAdd.
bugClaimMayGetLost(c, i) ==
  /\ slot[c][i] = "claim"
  /\ index' = [index EXCEPT ![c][i] = IF next[c] >= jobs[c] THEN 0 ELSE next[c]]
  /\ next' \in {next, [next EXCEPT ![c] = @ + 1]}
  /\ slot' = [slot EXCEPT ![c][i] = IF next[c] >= jobs[c] THEN "done" ELSE "job"]
  /\ UNCHANGED <<runtimeVars, pc, jobs, ran>>

\* next.fetchAdd(1, .monotonic)
Claim(c, i) ==
  /\ slot[c][i] = "claim"
  /\ index' = [index EXCEPT ![c][i] = IF next[c] >= jobs[c] THEN 0 ELSE next[c]]
  /\ next' = [next EXCEPT ![c] = @ + 1]
  /\ slot' = [slot EXCEPT ![c][i] = IF next[c] >= jobs[c] THEN "done" ELSE "job"]
  /\ UNCHANGED <<runtimeVars, pc, jobs, ran>>

RunJob(c, i) ==
  /\ slot[c][i] = "job"
  /\ ran' = [ran EXCEPT ![c][index[c][i]] = @ + 1]
  /\ slot' = [slot EXCEPT ![c][i] = "claim"]
  /\ index' = [index EXCEPT ![c][i] = 0]
  /\ UNCHANGED <<runtimeVars, pc, jobs, next>>

\* runLowLatency answers true: all tasks have returned.
Accepted(c) ==
  /\ Goto(c, "queue", "true")
  /\ Runtime!Accept(c)
  /\ \A i \in Task : slot[c][i] \in {"none", "done"}
  /\ slot' = [slot EXCEPT ![c] = AllOf(Task, "none")]
  /\ next' = [next EXCEPT ![c] = 0]
  /\ UNCHANGED <<jobs, index, ran>>

Refused(c) ==
  /\ Goto(c, "queue", "false")
  /\ Runtime!Refuse(c)
  /\ UNCHANGED <<jobs, next, slot, index, ran>>

\* `if (!runQueued(...)) for (0..jobs) |index| execute(index)`, or a serial
\* routine in its place.
SerialFallback(c) ==
  /\ Goto(c, "false", "true")
  /\ IF call[c] = "refused" THEN Runtime!Fallback(c) ELSE UNCHANGED runtimeVars
  /\ ran' = [ran EXCEPT ![c] = [j \in Job |-> @[j] + (IF j < jobs[c] THEN 1 ELSE 0)]]
  /\ UNCHANGED <<jobs, next, slot, index>>

ReturnFromQueue(c) ==
  /\ Goto(c, "true", "idle")
  /\ IF call[c] = "idle" THEN UNCHANGED runtimeVars ELSE Runtime!Finish(c)
  /\ ran' = [ran EXCEPT ![c] = AllOf(Job, 0)]
  /\ jobs' = [jobs EXCEPT ![c] = 0]
  /\ UNCHANGED <<next, slot, index>>

QueueNext ==
  \E c \in Callers :
    \/ \E count \in 0 .. MaxJobs, limit \in Limits, helpers \in 0 .. MaxTasks - 1 :
         runQueued(c, count, limit, helpers)
    \/ \E i \in Task : StartTask(c, i) \/ Claim(c, i) \/ RunJob(c, i)
    \/ Accepted(c) \/ Refused(c) \/ SerialFallback(c)
    \/ ReturnFromQueue(c)

QueueSpec == QueueInit /\ [][QueueNext]_queueVars
-----------------------------------------------------------------------------
\* "Queued jobs execute exactly once and refusal leaves output untouched": the
\* routine goes on when each of its jobs has run exactly once, and a false
\* answer comes before any has run.
JobsOnce ==
  \A c \in Callers :
    /\ pc[c] = "true" => ran[c] = RanOnce(jobs[c])
    /\ pc[c] = "false" => ran[c] = AllOf(Job, 0)

\* Two tasks are never in the same job: a job has a scratch area, a diagonal
\* tile or a strip of B to itself (`workspace[index * per_job ..]`), and a job
\* that has run is never taken again.
JobsApart ==
  \A c \in Callers : \A i \in Task : slot[c][i] = "job" =>
    /\ ran[c][index[c][i]] = 0
    /\ \A h \in Task \ {i} : slot[c][h] = "job" => index[c][h] # index[c][i]
=============================================================================
