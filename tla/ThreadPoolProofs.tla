-------------------------- MODULE ThreadPoolProofs --------------------------
(***************************************************************************)
(* Every step preserves the inductive invariant of ThreadPool, and what    *)
(* follows from it: the safety properties of ThreadPool, and               *)
(* that ThreadPool implements TaskRuntime, for every set of callers, every *)
(* max_tasks, every thread limit and every generation width.               *)
(*                                                                         *)
(* First the facts the proofs share: counting helpers, the arithmetic of   *)
(* generations, who holds io_busy and how moves of callers affect it, and  *)
(* that a step of one worker leaves the obligations of the others alone.   *)
(* Then one lemma per action, of callers, shutdown and setMaxThreads, then *)
(* of workers and io_threaded threads; under each, step <1>2 to <1>8 is    *)
(* one conjunct of the invariant.                                          *)
(***************************************************************************)
EXTENDS ThreadPool, FiniteSetTheorems, TLAPS

Stages == HoldStage \cup FreeStage
USE PoolAssumptions DEF PoolAssumptions

\* A subset of an interval of n numbers has at most n elements, and with n
\* elements is all of it: the counters reach their targets only when every
\* helper has reported.
LEMMA FillsInterval ==
  ASSUME NEW lo \in Int, NEW n \in Nat, NEW S \in SUBSET (lo .. lo + n - 1)
  PROVE  /\ IsFiniteSet(S) /\ Cardinality(S) \in 0 .. n
         /\ Cardinality(S) >= n => S = lo .. lo + n - 1
<1>1. IsFiniteSet(lo .. lo + n - 1) /\ Cardinality(lo .. lo + n - 1) = n
  BY FS_Interval
<1>2. IsFiniteSet(S) /\ Cardinality(S) \in Nat /\ Cardinality(S) <= n
      /\ (Cardinality(S) = n => S = lo .. lo + n - 1)
  BY <1>1, FS_Subset, FS_CardinalityType
<1> QED BY <1>2

\* One more report raises the count by one, and the count stays in range.
LEMMA OneMore ==
  ASSUME NEW S \in SUBSET Worker, NEW x \in Worker, x \notin S
  PROVE  /\ Cardinality(S \cup {x}) = Cardinality(S) + 1
         /\ Cardinality(S) \in 0 .. MaxTasks - 2
<1>1. Worker = 0 .. 0 + (MaxTasks - 1) - 1 /\ MaxTasks - 1 \in Nat /\ 0 \in Int
  BY DEF Worker
<1>2. IsFiniteSet(S) /\ Cardinality(S) \in 0 .. MaxTasks - 1
  BY <1>1, FillsInterval
<1>3. S \cup {x} \in SUBSET Worker
  OBVIOUS
<1>4. Cardinality(S \cup {x}) \in 0 .. MaxTasks - 1
  BY <1>1, <1>3, FillsInterval
<1>5. Cardinality(S \cup {x}) = Cardinality(S) + 1
  BY <1>2, FS_AddElement
<1> QED BY <1>2, <1>4, <1>5

\* A bumped generation differs from the one before, although it wraps.
LEMMA Bumps ==
  ASSUME NEW g \in 0 .. GenMod - 1
  PROVE  (g + 1) % GenMod \in 0 .. GenMod - 1 /\ (g + 1) % GenMod # g
<1>1. CASE g + 1 < GenMod
  <2>1. (g + 1) % GenMod = g + 1 BY <1>1
  <2> QED BY <2>1, <1>1
<1>2. CASE g + 1 = GenMod
  <2>1. (g + 1) % GenMod = 0 BY <1>2
  <2> QED BY <2>1, <1>2
<1> QED BY <1>1, <1>2

\* helperThreadCount never exceeds the limit it is given, whatever the override.
LEMMA HelperCap ==
  ASSUME override \in Nat
  PROVE  configuredHelperCount \in 0 .. MaxTasks - 1
BY DEF configuredHelperCount, maxThreads, LesserOf

\* A caller past admission, when it is the only one, is the holder.
LEMMA HolderIs ==
  ASSUME NEW p, NEW c \in Callers, p[c] \in HoldStage,
         \A d \in Callers : p[d] \in HoldStage => d = c
  PROVE  HolderOf(p) = c /\ PhaseOf(p) = p[c]
BY DEF HolderOf, PhaseOf

\* With nobody past admission the phase is "free".
LEMMA NoHolder ==
  ASSUME NEW p, \A d \in Callers : p[d] \notin HoldStage
  PROVE  PhaseOf(p) = "free"
BY DEF PhaseOf

\* No stage is on both sides of admission.
LEMMA Disjoint == HoldStage \cap FreeStage = {} /\ "free" \notin HoldStage
BY DEF HoldStage, FreeStage, PersistentStage, GroupStage, StartStage, IoStage, StopStage

\* While a run or a shutdown goes on its caller stays the holder of io_busy.
LEMMA HolderMoves ==
  ASSUME TypeOK, GateInv, NEW c \in Callers, NEW from \in HoldStage, NEW to \in HoldStage,
         Goto(c, from, to)
  PROVE  /\ holder = c /\ phase = from /\ holder' = c /\ phase' = to
         /\ pc' \in [Callers -> Stages] /\ (busy' = busy => GateInv')
         /\ pc[c] = from /\ pc'[c] = to
         /\ \A d \in Callers \ {c} : pc'[d] = pc[d] /\ pc[d] \notin HoldStage
<1>1. pc \in [Callers -> Stages] BY DEF TypeOK, Stages
<1>2. pc[c] = from /\ pc' = [pc EXCEPT ![c] = to] BY DEF Goto
<1>3. \A d \in Callers : pc[d] \in HoldStage => d = c BY <1>2 DEF GateInv
<1>4. holder = c /\ phase = from BY <1>2, <1>3, HolderIs DEF holder, phase
<1>5. pc' \in [Callers -> Stages] /\ pc'[c] = to BY <1>1, <1>2 DEF Stages
<1>6. \A d \in Callers : pc'[d] \in HoldStage => d = c BY <1>1, <1>2, <1>3
<1>7. holder' = c /\ phase' = to BY <1>5, <1>6, HolderIs DEF holder, phase
<1>8. busy' = busy => GateInv' BY <1>5, <1>6, <1>2, Disjoint DEF GateInv
<1> QED BY <1>1, <1>2, <1>3, <1>4, <1>5, <1>7, <1>8

\* Waking workers changes nothing but who is asleep.
LEMMA WakeType ==
  ASSUME TypeOK, NEW W, WakeWorkers(W)
  PROVE  /\ wpc' \in [Worker -> WorkerStage]
         /\ \A w \in Worker : wpc'[w] = wpc[w] \/ (w \in W /\ wpc[w] = "asleep" /\ wpc'[w] = "park")
BY DEF TypeOK, WakeWorkers, WorkerStage

\* An exec counter stays 0 or 1 when a task that has not run yet runs.
LEMMA RunsOnce ==
  ASSUME TypeOK, NEW c \in Callers, NEW i \in Region, exec[c][i] = 0,
         exec' = [exec EXCEPT ![c][i] = @ + 1]
  PROVE  /\ exec' \in [Callers -> [Region -> 0 .. 1]] /\ exec'[c][i] = 1
         /\ \A j \in Region \ {i} : exec'[c][j] = exec[c][j]
         /\ \A d \in Callers \ {c} : exec'[d] = exec[d]
BY DEF TypeOK

\* What the published payload says while a run is under way.
LEMMA JobFacts ==
  ASSUME TypeOK, PoolInv, JobInv, ExecInv, phase \in PersistentStage, holder \in Callers
  PROVE  /\ size[holder] \in 2 .. MaxCount /\ job.active \in 1 .. MaxTasks - 1
         /\ job.first \in Nat /\ workerCount \in 1 .. MaxTasks - 1 /\ PoolUp
         /\ job.owner = holder /\ job.count = size[holder] /\ job.active = size[holder] - 1
         /\ job.first + job.active <= workerCount
         /\ (phase = "publish" => k \in 0 .. job.active - 1)
         /\ \A w \in Published : /\ w \in Worker /\ w < workerCount
                                 /\ taskIndex(w) \in Region \ {0} /\ taskIndex(w) < size[holder]
<1>1. /\ job.first \in {0, 2} /\ job.active \in 0 .. MaxTasks - 1 /\ workerCount \in 0 .. MaxTasks - 1
      /\ size[holder] \in 0 .. MaxCount
  BY DEF TypeOK, Payload
<1>2. /\ job.owner = holder /\ job.count = size[holder] /\ job.active = size[holder] - 1
      /\ job.active >= 1 /\ job.first + job.active <= workerCount
      /\ (phase = "publish" => k \in 0 .. job.active - 1)
  BY DEF JobInv
<1>3. PoolUp BY DEF PoolInv, PoolUp
<1>4. ASSUME NEW w \in Published
      PROVE  /\ w \in Worker /\ w < workerCount
             /\ taskIndex(w) \in Region \ {0} /\ taskIndex(w) < size[holder]
  <2>1. w \in job.first .. job.first + job.active - 1
    BY <1>1, <1>2 DEF Published
  <2> QED BY <2>1, <1>1, <1>2 DEF Worker, Region, taskIndex
<1> QED BY <1>1, <1>2, <1>3, <1>4

\* The regions of the run that no addressed helper owns are as they were.
LEMMA RegionFacts ==
  ASSUME TypeOK, JobInv, phase \in PersistentStage, 0 \in Region
  PROVE  /\ exec[holder][0] = (IF phase \in {"publish", "self"} THEN 0 ELSE 1)
         /\ \A i \in Region \ {0} : i - 1 + job.first \notin Published => exec[holder][i] = 0
BY DEF JobInv

\* Admission makes a caller the holder.
LEMMA HolderArrives ==
  ASSUME TypeOK, GateInv, busy = 0, busy' = 1, NEW c \in Callers,
         NEW from \in FreeStage, NEW to \in HoldStage, Goto(c, from, to)
  PROVE  /\ phase = "free" /\ holder' = c /\ phase' = to /\ GateInv'
         /\ pc' \in [Callers -> Stages] /\ pc[c] = from /\ pc'[c] = to
         /\ \A d \in Callers : pc[d] \notin HoldStage
         /\ \A d \in Callers \ {c} : pc'[d] = pc[d]
<1>1. /\ pc \in [Callers -> Stages] /\ pc[c] = from /\ pc' = [pc EXCEPT ![c] = to]
      /\ \A d \in Callers : pc[d] \notin HoldStage
  BY Disjoint DEF TypeOK, Stages, Goto, GateInv
<1>2. /\ pc' \in [Callers -> Stages] /\ pc'[c] = to
      /\ \A d \in Callers : pc'[d] \in HoldStage => d = c
      /\ \A d \in Callers \ {c} : pc'[d] = pc[d]
  BY <1>1 DEF Stages
<1>3. phase = "free" BY <1>1, NoHolder DEF phase
<1>4. holder' = c /\ phase' = to BY <1>2, HolderIs DEF holder, phase
<1>5. GateInv' BY <1>2 DEF GateInv
<1> QED BY <1>1, <1>2, <1>3, <1>4, <1>5

\* Giving io_busy back leaves nobody past admission.
LEMMA HolderDeparts ==
  ASSUME TypeOK, GateInv, NEW c \in Callers,
         NEW from \in HoldStage, NEW to \in FreeStage, Goto(c, from, to)
  PROVE  /\ holder = c /\ phase = from /\ phase' = "free" /\ GateInv'
         /\ pc' \in [Callers -> Stages] /\ pc[c] = from /\ pc'[c] = to
         /\ \A d \in Callers : pc'[d] \notin HoldStage
         /\ \A d \in Callers \ {c} : pc'[d] = pc[d] /\ pc[d] \notin HoldStage
<1>1. /\ pc \in [Callers -> Stages] /\ pc[c] = from /\ pc' = [pc EXCEPT ![c] = to]
      /\ \A d \in Callers : pc[d] \in HoldStage => d = c
  BY DEF TypeOK, Stages, Goto, GateInv
<1>2. /\ pc' \in [Callers -> Stages] /\ pc'[c] = to
      /\ \A d \in Callers \ {c} : pc'[d] = pc[d] /\ pc[d] \notin HoldStage
  BY <1>1 DEF Stages
<1>3. \A d \in Callers : pc'[d] \notin HoldStage BY <1>2, Disjoint
<1>4. holder = c /\ phase = from BY <1>1, HolderIs DEF holder, phase
<1>5. phase' = "free" BY <1>3, NoHolder DEF phase
<1>6. GateInv' BY <1>2, <1>3 DEF GateInv, Stages
<1> QED BY <1>1, <1>2, <1>3, <1>4, <1>5, <1>6

\* A caller outside the runtime does not disturb the holder.
LEMMA BystanderMoves ==
  ASSUME TypeOK, GateInv, NEW c \in Callers, busy' = busy,
         NEW from \in FreeStage, NEW to \in FreeStage, Goto(c, from, to)
  PROVE  /\ phase' = phase /\ GateInv'
         /\ phase # "free" => holder \in Callers \ {c} /\ holder' = holder
         /\ pc' \in [Callers -> Stages] /\ pc[c] = from /\ pc'[c] = to
         /\ \A d \in Callers \ {c} : pc'[d] = pc[d]
<1>1. /\ pc \in [Callers -> Stages] /\ pc[c] = from /\ pc' = [pc EXCEPT ![c] = to]
      /\ pc' \in [Callers -> Stages] /\ pc'[c] = to
      /\ \A d \in Callers \ {c} : pc'[d] = pc[d]
  BY DEF TypeOK, Stages, Goto
<1>2. pc[c] \notin HoldStage /\ pc'[c] \notin HoldStage BY <1>1, Disjoint
<1>3. GateInv' BY <1>1, <1>2 DEF GateInv
<1>4. CASE \E d \in Callers : pc[d] \in HoldStage
  <2>1. PICK d \in Callers : pc[d] \in HoldStage BY <1>4
  <2>2. d # c /\ pc'[d] = pc[d] BY <1>1, <1>2, <2>1
  <2>3. \A e \in Callers : (pc[e] \in HoldStage => e = d) /\ (pc'[e] \in HoldStage => e = d)
    BY <1>3, <2>1, <2>2 DEF GateInv
  <2>4. holder = d /\ phase = pc[d] /\ holder' = d /\ phase' = pc'[d]
    BY <2>1, <2>2, <2>3, HolderIs DEF holder, phase
  <2> QED BY <1>1, <1>3, <2>2, <2>4
<1>5. CASE ~ \E d \in Callers : pc[d] \in HoldStage
  <2>1. \A d \in Callers : pc[d] \notin HoldStage /\ pc'[d] \notin HoldStage
    BY <1>1, <1>2, <1>5
  <2>2. phase = "free" /\ phase' = "free" BY <2>1, NoHolder DEF phase
  <2> QED BY <1>1, <1>3, <2>2
<1> QED BY <1>4, <1>5

\* Waking a caller that sleeps on a futex only moves the holder on.
LEMMA HolderWakes ==
  ASSUME TypeOK, GateInv, busy' = busy, NEW asleep \in HoldStage, NEW awake \in HoldStage,
         WakeCaller(asleep, awake)
  PROVE  /\ phase' = IF phase = asleep THEN awake ELSE phase
         /\ phase # "free" => holder \in Callers /\ holder' = holder
         /\ GateInv' /\ pc' \in [Callers -> Stages]
         /\ \A d \in Callers : pc'[d] = IF pc[d] = asleep THEN awake ELSE pc[d]
<1>1. /\ pc \in [Callers -> Stages] /\ pc' \in [Callers -> Stages]
      /\ \A d \in Callers : pc'[d] = IF pc[d] = asleep THEN awake ELSE pc[d]
  BY DEF TypeOK, Stages, WakeCaller
<1>2. \A d \in Callers : pc'[d] \in HoldStage <=> pc[d] \in HoldStage BY <1>1
<1>3. GateInv'
  BY <1>1, <1>2, Disjoint DEF GateInv, Stages
<1>4. CASE \E d \in Callers : pc[d] \in HoldStage
  <2>1. PICK d \in Callers : pc[d] \in HoldStage BY <1>4
  <2>2. \A e \in Callers : (pc[e] \in HoldStage => e = d) /\ (pc'[e] \in HoldStage => e = d)
    BY <1>2, <2>1 DEF GateInv
  <2>3. holder = d /\ phase = pc[d] /\ holder' = d /\ phase' = pc'[d]
    BY <2>1, <2>2, <1>2, HolderIs DEF holder, phase
  <2> QED BY <1>1, <1>3, <2>3
<1>5. CASE ~ \E d \in Callers : pc[d] \in HoldStage
  <2>1. \A d \in Callers : pc[d] \notin HoldStage /\ pc'[d] \notin HoldStage
    BY <1>2, <1>5
  <2>2. phase = "free" /\ phase' = "free" BY <2>1, NoHolder DEF phase
  <2> QED BY <1>1, <1>3, <2>2, Disjoint
<1> QED BY <1>4, <1>5

\* Unless everybody is outside there is a holder, and the phase is its stage.
LEMMA HolderExists ==
  ASSUME phase # "free"
  PROVE  holder \in Callers /\ pc[holder] = phase /\ phase \in HoldStage
BY DEF phase, holder, PhaseOf, HolderOf

\* The phases the invariant speaks of are not "free".
LEMMA PhaseNames ==
  /\ "free" \notin PersistentStage \cup GroupStage \cup StopStage \cup Awaiting \cup Stopping
  /\ PersistentStage \cap (GroupStage \cup StopStage \cup Awaiting \cup Stopping) = {}
  /\ GroupStage \cap (StopStage \cup Awaiting \cup Stopping) = {}
  /\ Awaiting \cap Stopping = {} /\ Awaiting \cap StopStage = {} /\ Stopping \subseteq StopStage
BY DEF PersistentStage, GroupStage, StopStage, Awaiting, Stopping

\* Steps that move no caller leave the holder and the phase alone.
LEMMA NobodyMoves ==
  ASSUME GateInv, pc' = pc, busy' = busy
  PROVE  holder' = holder /\ phase' = phase /\ GateInv'
BY DEF holder, phase, HolderOf, PhaseOf, GateInv

\* A step of worker w alone is no business of the other workers.
LEMMA OthersKeep ==
  ASSUME WorkerInv, NEW w \in Worker,
         (PoolUp' <=> PoolUp), workerCount' = workerCount, Published' = Published, Stopped' = Stopped,
         phase' \in Awaiting <=> phase \in Awaiting,
         phase' \in PersistentStage <=> phase \in PersistentStage,
         phase' \in Stopping <=> phase \in Stopping,
         phase \in PersistentStage => holder' = holder,
         UNCHANGED <<job, generation>>,
         \A v \in Worker \ {w} : wpc'[v] = wpc[v] /\ seen'[v] = seen[v] /\ local'[v] = local[v],
         \A v \in Worker \ {w} : phase \in PersistentStage /\ v \in Published =>
            exec'[holder][taskIndex(v)] = exec[holder][taskIndex(v)],
         WorkerOK(w)'
  PROVE  WorkerInv'
<1>1. ASSUME NEW v \in Worker, v # w PROVE WorkerOK(v)'
  <2>1. WorkerOK(v) BY DEF WorkerInv
  <2>2. wpc'[v] = wpc[v] /\ seen'[v] = seen[v] /\ local'[v] = local[v] /\ generation'[v] = generation[v]
    BY <1>1
  <2>3. Starting(v) => Starting(v)' BY <2>2 DEF Starting
  <2>4. Quiet(v) => Quiet(v)' BY <2>2 DEF Quiet
  <2>5. Leaving(v) => Leaving(v)' BY <2>2 DEF Leaving
  <2>6. phase \in PersistentStage /\ v \in Published /\ Helping(v) => Helping(v)'
    <3>1. HAVE phase \in PersistentStage /\ v \in Published /\ Helping(v)
    <3>2. exec'[holder][taskIndex(v)] = exec[holder][taskIndex(v)] /\ holder' = holder
      BY <3>1, <1>1
    <3>3. taskIndex(v)' = taskIndex(v) /\ job' = job BY DEF taskIndex
    <3> QED BY <2>2, <3>1, <3>2, <3>3 DEF Helping
  <2> QED BY <2>1, <2>2, <2>3, <2>4, <2>5, <2>6 DEF WorkerOK
<1> QED BY <1>1 DEF WorkerInv

\* Where a worker is says which phase the holder can be in.
LEMMA WorkerCase ==
  ASSUME IndInv, NEW w \in Worker, wpc[w] # "none"
  PROVE  /\ PoolUp /\ ~(w >= workerCount)
         /\ \/ phase \in Awaiting /\ Starting(w)
            \/ phase \in PersistentStage /\ w \in Published /\ Helping(w)
            \/ phase \in Stopping /\ w \in Stopped /\ Leaving(w)
            \/ /\ phase \notin Awaiting /\ Quiet(w)
               /\ ~(phase \in PersistentStage /\ w \in Published)
               /\ ~(phase \in Stopping /\ w \in Stopped)
<1>1. w \in Int /\ workerCount \in Int BY DEF IndInv, TypeOK, Worker
<1> QED BY <1>1 DEF IndInv, WorkerInv, WorkerOK

-----------------------------------------------------------------------------
USE DEF gateVars, runtimeVars, lifeVars, ioVars, helperVars, jobVars, callVars, outside

\* The creator of the pool is decided under io_busy.
LEMMA ensurePersistentWorkersSafe ==
  ASSUME IndInv, NEW c \in Callers, ensurePersistentWorkers(c)
  PROVE  IndInv'
<1> USE DEF IndInv
<1>0. PICK from \in HoldStage, to \in HoldStage :
         /\ Goto(c, from, to)
         /\ from = "ensurePool"
         /\ to = IF configuredHelperCount = 0 \/ poolState = 3 THEN "ensureIo"
                 ELSE IF poolState = 2 THEN "plan" ELSE "initPool"
  BY DEF ensurePersistentWorkers, HoldStage, FreeStage, PersistentStage, GroupStage, StartStage, IoStage, StopStage
<1>1. /\ holder = c /\ phase = from /\ holder' = c /\ phase' = to /\ GateInv'
      /\ pc' \in [Callers -> Stages] /\ pc[c] = from /\ pc'[c] = to
      /\ \A d \in Callers \ {c} : pc'[d] = pc[d] /\ pc[d] \notin HoldStage
  BY <1>0, HolderMoves DEF ensurePersistentWorkers
<1>2. TypeOK'
  BY <1>0, <1>1 DEF TypeOK, ensurePersistentWorkers, Stages, Worker
<1>3. PoolInv'
  BY <1>0, <1>1 DEF TypeOK, PoolInv, PoolUp, ensurePersistentWorkers, Awaiting,
     Stopping, PersistentStage
<1>4. WorkerInv'
  BY <1>0, <1>1 DEF TypeOK, PoolInv, WorkerInv, WorkerOK, PoolUp,
     ensurePersistentWorkers, Awaiting, Stopping, PersistentStage, Quiet,
     Leaving, Helping, Starting, Published, Stopped, taskIndex, Rest, Worker
<1>5. CountInv'
  BY <1>0, <1>1 DEF TypeOK, PoolInv, WorkerInv, WorkerOK, PoolUp, CountInv,
     ensurePersistentWorkers, Awaiting, Stopping, PersistentStage, Quiet,
     Published, Stopped, Rest
<1>6. JobInv'
  BY <1>0, <1>1 DEF TypeOK, JobInv, ensurePersistentWorkers, PersistentStage,
     Published, Region
<1>7. GroupInv'
  BY <1>0, <1>1 DEF TypeOK, GroupInv, ensurePersistentWorkers, GroupStage, Region
<1>8. ExecInv'
  BY <1>0, <1>1 DEF TypeOK, ExecInv, ensurePersistentWorkers, HoldStage,
     FreeStage, PersistentStage, GroupStage, StartStage, IoStage, StopStage
<1> QED BY <1>1, <1>2, <1>3, <1>4, <1>5, <1>6, <1>7, <1>8

\* A limit of one thread turns the pool off.
LEMMA StartNoWorkersSafe ==
  ASSUME IndInv, NEW c \in Callers, StartNoWorkers(c)
  PROVE  IndInv'
<1> USE DEF IndInv
<1>0. PICK from \in HoldStage, to \in HoldStage :
         /\ Goto(c, from, to)
         /\ from = "initPool" /\ to = "ensureIo"
  BY DEF StartNoWorkers, HoldStage, FreeStage, PersistentStage, GroupStage, StartStage, IoStage, StopStage
<1>1. /\ holder = c /\ phase = from /\ holder' = c /\ phase' = to /\ GateInv'
      /\ pc' \in [Callers -> Stages] /\ pc[c] = from /\ pc'[c] = to
      /\ \A d \in Callers \ {c} : pc'[d] = pc[d] /\ pc[d] \notin HoldStage
  BY <1>0, HolderMoves DEF StartNoWorkers
<1>2. TypeOK'
  BY <1>0, <1>1 DEF TypeOK, StartNoWorkers, Stages, Worker
<1>3. PoolInv'
  BY <1>0, <1>1 DEF TypeOK, PoolInv, PoolUp, StartNoWorkers, Awaiting, Stopping,
     PersistentStage
<1>4. WorkerInv'
  BY <1>0, <1>1 DEF TypeOK, PoolInv, WorkerInv, WorkerOK, PoolUp, StartNoWorkers,
     Awaiting, Stopping, PersistentStage, Quiet, Leaving, Helping, Starting,
     Published, Stopped, taskIndex, Rest, Worker
<1>5. CountInv'
  BY <1>0, <1>1 DEF TypeOK, PoolInv, WorkerInv, WorkerOK, PoolUp, CountInv,
     StartNoWorkers, Awaiting, Stopping, PersistentStage, Quiet, Published,
     Stopped, Rest
<1>6. JobInv'
  BY <1>0, <1>1 DEF TypeOK, JobInv, StartNoWorkers, PersistentStage, Published,
     Region
<1>7. GroupInv'
  BY <1>0, <1>1 DEF TypeOK, GroupInv, StartNoWorkers, GroupStage, Region
<1>8. ExecInv'
  BY <1>0, <1>1 DEF TypeOK, ExecInv, StartNoWorkers, HoldStage, FreeStage,
     PersistentStage, GroupStage, StartStage, IoStage, StopStage
<1> QED BY <1>1, <1>2, <1>3, <1>4, <1>5, <1>6, <1>7, <1>8

\* The pool is up only when every worker has announced itself.
LEMMA AwaitReadySafe ==
  ASSUME IndInv, NEW c \in Callers, AwaitReady(c)
  PROVE  IndInv'
<1> USE DEF IndInv
<1>0. PICK from \in HoldStage, to \in HoldStage :
         /\ Goto(c, from, to)
         /\ from = "awaitReady"
         /\ to = IF readyCount >= workerCount THEN "plan" ELSE "readySleep"
  BY DEF AwaitReady, HoldStage, FreeStage, PersistentStage, GroupStage, StartStage, IoStage, StopStage
<1>1. /\ holder = c /\ phase = from /\ holder' = c /\ phase' = to /\ GateInv'
      /\ pc' \in [Callers -> Stages] /\ pc[c] = from /\ pc'[c] = to
      /\ \A d \in Callers \ {c} : pc'[d] = pc[d] /\ pc[d] \notin HoldStage
  BY <1>0, HolderMoves DEF AwaitReady
<1>2. TypeOK'
  BY <1>0, <1>1 DEF TypeOK, AwaitReady, Stages, Worker
<1>3. PoolInv'
  BY <1>0, <1>1 DEF TypeOK, PoolInv, PoolUp, AwaitReady, Awaiting, Stopping,
     PersistentStage
<1>4. WorkerInv'
  <2> DEFINE R == {w \in Worker : wpc[w] \in Rest}
  <2>1. /\ readyCount = Cardinality(R) /\ workerCount \in 1 .. MaxTasks - 1
        /\ \A w \in Worker : w >= workerCount => wpc[w] = "none"
    BY <1>0, <1>1 DEF TypeOK, CountInv, PoolInv, WorkerInv, WorkerOK, PoolUp, Awaiting
  <2>2. R \in SUBSET (0 .. 0 + workerCount - 1)
    BY <2>1 DEF Rest, Worker, TypeOK
  <2>3. readyCount >= workerCount => R = 0 .. 0 + workerCount - 1
    <3>1. 0 \in Int /\ workerCount \in Nat BY <2>1
    <3> HIDE DEF R
    <3> QED BY <3>1, <2>1, <2>2, FillsInterval
  <2>4. ASSUME NEW w \in Worker, w < workerCount PROVE Starting(w)
    BY <2>4, <1>0, <1>1, <2>1 DEF WorkerInv, WorkerOK, PoolUp, Awaiting, Worker
  <2>5. CASE readyCount >= workerCount
    <3>1. ASSUME NEW w \in Worker, w < workerCount PROVE Quiet(w)'
      <4>1. wpc[w] \in Rest BY <3>1, <2>1, <2>3, <2>5 DEF Worker
      <4> QED BY <4>1, <2>4, <3>1 DEF Starting, Quiet, Rest, AwaitReady
    <3>2. /\ phase' = "plan" /\ poolState' = 2 /\ workerCount' = workerCount /\ wpc' = wpc
      BY <1>0, <1>1, <2>5 DEF AwaitReady
    <3> QED
      BY <3>1, <3>2, <2>1 DEF WorkerInv, WorkerOK, PoolUp, Awaiting, PersistentStage, Stopping, Worker
  <2>6. CASE ~(readyCount >= workerCount)
    <3>1. phase' = "readySleep" /\ UNCHANGED <<workerCount, wpc, seen, generation>>
      BY <1>0, <1>1, <2>6 DEF AwaitReady
    <3> QED BY <3>1, <2>1, <2>4 DEF WorkerInv, WorkerOK, PoolUp, Awaiting, Starting, Worker
  <2> QED BY <2>5, <2>6
<1>5. CountInv'
  BY <1>0, <1>1 DEF TypeOK, PoolInv, WorkerInv, WorkerOK, PoolUp, CountInv,
     AwaitReady, Awaiting, Stopping, PersistentStage, Quiet, Published, Stopped,
     Rest
<1>6. JobInv'
  BY <1>0, <1>1 DEF TypeOK, JobInv, AwaitReady, PersistentStage, Published,
     Region
<1>7. GroupInv'
  BY <1>0, <1>1 DEF TypeOK, GroupInv, AwaitReady, GroupStage, Region
<1>8. ExecInv'
  BY <1>0, <1>1 DEF TypeOK, ExecInv, AwaitReady, HoldStage, FreeStage,
     PersistentStage, GroupStage, StartStage, IoStage, StopStage
<1> QED BY <1>1, <1>2, <1>3, <1>4, <1>5, <1>6, <1>7, <1>8

\* A run the pool is too small for leaves it alone.
LEMMA PlanRefuseSafe ==
  ASSUME IndInv, NEW c \in Callers, PlanRefuse(c)
  PROVE  IndInv'
<1> USE DEF IndInv
<1>0. PICK from \in HoldStage, to \in HoldStage :
         /\ Goto(c, from, to)
         /\ from = "plan" /\ to = "ensureIo"
  BY DEF PlanRefuse, HoldStage, FreeStage, PersistentStage, GroupStage, StartStage, IoStage, StopStage
<1>1. /\ holder = c /\ phase = from /\ holder' = c /\ phase' = to /\ GateInv'
      /\ pc' \in [Callers -> Stages] /\ pc[c] = from /\ pc'[c] = to
      /\ \A d \in Callers \ {c} : pc'[d] = pc[d] /\ pc[d] \notin HoldStage
  BY <1>0, HolderMoves DEF PlanRefuse
<1>2. TypeOK'
  BY <1>0, <1>1 DEF TypeOK, PlanRefuse, Stages, Worker
<1>3. PoolInv'
  BY <1>0, <1>1 DEF TypeOK, PoolInv, PoolUp, PlanRefuse, Awaiting, Stopping,
     PersistentStage
<1>4. WorkerInv'
  BY <1>0, <1>1 DEF TypeOK, PoolInv, WorkerInv, WorkerOK, PoolUp, PlanRefuse,
     Awaiting, Stopping, PersistentStage, Quiet, Leaving, Helping, Starting,
     Published, Stopped, taskIndex, Rest, Worker
<1>5. CountInv'
  BY <1>0, <1>1 DEF TypeOK, PoolInv, WorkerInv, WorkerOK, PoolUp, CountInv,
     PlanRefuse, Awaiting, Stopping, PersistentStage, Quiet, Published, Stopped,
     Rest
<1>6. JobInv'
  BY <1>0, <1>1 DEF TypeOK, JobInv, PlanRefuse, PersistentStage, Published,
     Region
<1>7. GroupInv'
  BY <1>0, <1>1 DEF TypeOK, GroupInv, PlanRefuse, GroupStage, Region
<1>8. ExecInv'
  BY <1>0, <1>1 DEF TypeOK, ExecInv, PlanRefuse, HoldStage, FreeStage,
     PersistentStage, GroupStage, StartStage, IoStage, StopStage
<1> QED BY <1>1, <1>2, <1>3, <1>4, <1>5, <1>6, <1>7, <1>8

\* Each generation bump addresses one quiet helper and no other.
LEMMA PublishSafe ==
  ASSUME IndInv, NEW c \in Callers, Publish(c)
  PROVE  IndInv'
<1> USE DEF IndInv
<1>0. PICK from \in HoldStage, to \in HoldStage :
         /\ Goto(c, from, to)
         /\ from = "publish" /\ to = IF k + 1 = job.active THEN "self" ELSE "publish"
  BY DEF Publish, HoldStage, FreeStage, PersistentStage, GroupStage, StartStage, IoStage, StopStage
<1>1. /\ holder = c /\ phase = from /\ holder' = c /\ phase' = to /\ GateInv'
      /\ pc' \in [Callers -> Stages] /\ pc[c] = from /\ pc'[c] = to
      /\ \A d \in Callers \ {c} : pc'[d] = pc[d] /\ pc[d] \notin HoldStage
  BY <1>0, HolderMoves DEF Publish
<1>a. PICK h \in Worker :
      /\ h = job.first + k /\ h < workerCount /\ k \in 0 .. job.active - 1
      /\ job.active \in 1 .. MaxTasks - 1 /\ job.first \in Nat
  BY <1>0, <1>1, JobFacts DEF PersistentStage, Worker
<1>b. /\ generation'[h] \in 0 .. GenMod - 1 /\ generation'[h] # generation[h]
      /\ \A w \in Worker \ {h} : generation'[w] = generation[w]
      /\ generation' \in [Worker -> 0 .. GenMod - 1]
  BY <1>a, Bumps DEF TypeOK, Publish, bumped
<1>c. /\ wpc' \in [Worker -> WorkerStage]
      /\ \A w \in Worker : wpc'[w] = wpc[w] \/ (wpc[w] = "asleep" /\ wpc'[w] = "park")
  BY WakeType DEF Publish
<1>d. /\ h \in Published' /\ h \notin Published
      /\ \A w \in Worker \ {h} : w \in Published' <=> w \in Published
  <2>1. Published = job.first .. job.first + k - 1
    BY <1>0, <1>1 DEF Published
  <2>2. Published' = job.first .. job.first + k
    BY <1>0, <1>1, <1>a DEF Published, Publish
  <2> QED BY <2>1, <2>2, <1>a DEF Worker
<1>e. PoolUp /\ Quiet(h)
  BY <1>0, <1>1, <1>a, <1>d DEF PoolInv, PoolUp, WorkerInv, WorkerOK, PersistentStage, Stopping, Awaiting,
     Worker, TypeOK
<1>f. PoolUp' /\ ~Quiet(h)' /\ wpc[h] \in Rest /\ seen[h] # generation'[h]
  BY <1>0, <1>1, <1>b, <1>e DEF PoolInv, PoolUp, PersistentStage, Quiet, Publish
<1>2. TypeOK'
  BY <1>0, <1>1, <1>a, <1>b, <1>c DEF TypeOK, Publish, Stages
<1>3. PoolInv'
  BY <1>0, <1>1 DEF TypeOK, PoolInv, PoolUp, Publish, Awaiting, Stopping,
     PersistentStage
<1>4. WorkerInv'
  <2>1. exec[c][taskIndex(h)] = 0
    <3>1. taskIndex(h) \in Region \ {0} /\ h = taskIndex(h) - 1 + job.first
      BY <1>0, <1>1, <1>a, JobFacts DEF PersistentStage, taskIndex, Region
    <3> QED BY <3>1, <1>0, <1>1, <1>d DEF JobInv, PersistentStage
  <2>2. Helping(h)'
    <3>1. wpc'[h] \in Rest BY <1>a, <1>c, <1>f DEF Rest
    <3>2. UNCHANGED <<exec, job, seen, local>> BY DEF Publish
    <3> QED BY <3>1, <3>2, <1>1, <1>f, <2>1 DEF Helping, taskIndex, Rest
  <2>3. ASSUME NEW w \in Worker, w # h, w \in Published, Helping(w) PROVE Helping(w)'
    BY <2>3, <1>0, <1>1, <1>a, <1>b, <1>c DEF Helping, taskIndex, Rest, Publish
  <2>4. ASSUME NEW w \in Worker, w # h, Quiet(w) PROVE Quiet(w)'
    <3>1. wpc'[w] \in Rest /\ generation'[w] = generation[w] /\ seen' = seen
      BY <2>4, <1>b, <1>c DEF Quiet, Rest, Publish
    <3> QED BY <3>1, <2>4 DEF Quiet
  <2> QED
    BY <1>0, <1>1, <1>a, <1>c, <1>d, <1>e, <1>f, <2>2, <2>3, <2>4
       DEF WorkerInv, WorkerOK, PersistentStage, Awaiting, Stopping, Publish
<1>5. CountInv'
  <2>1. \A w \in Worker \ {h} : Quiet(w)' <=> Quiet(w)
    BY <1>b, <1>c DEF Quiet, Rest, Publish
  <2>2. {w \in Worker : w \in Published /\ Quiet(w)}
          = {w \in Worker : w \in Published' /\ Quiet(w)'}
    BY <2>1, <1>d, <1>f
  <2> QED
    BY <1>0, <1>1, <2>2 DEF CountInv, PersistentStage, Awaiting, Stopping, Publish
<1>6. JobInv'
  <2>1. /\ UNCHANGED <<job, size, exec, workerCount>> /\ k' = k + 1
        /\ phase' \in {"publish", "self"} /\ (phase' = "publish" => k + 1 # job.active)
    BY <1>0, <1>1 DEF Publish
  <2>2. \A i \in Region \ {0} : i - 1 + job.first \notin Published' => i - 1 + job.first \notin Published
    BY <1>0, <1>1, <1>a DEF Published, Publish, Region
  <2> QED
    BY <2>1, <2>2, <1>0, <1>1, <1>a DEF JobInv, PersistentStage
<1>7. GroupInv'
  BY <1>0, <1>1 DEF TypeOK, GroupInv, Publish, GroupStage, Region
<1>8. ExecInv'
  BY <1>0, <1>1 DEF TypeOK, ExecInv, Publish, HoldStage, FreeStage,
     PersistentStage, GroupStage, StartStage, IoStage, StopStage
<1> QED BY <1>1, <1>2, <1>3, <1>4, <1>5, <1>6, <1>7, <1>8

\* Task 0 is the caller's alone.
LEMMA RunTaskZeroSafe ==
  ASSUME IndInv, NEW c \in Callers, RunTaskZero(c)
  PROVE  IndInv'
<1> USE DEF IndInv
<1>0. PICK from \in HoldStage, to \in HoldStage :
         /\ Goto(c, from, to)
         /\ from = "self" /\ to = "awaitDone"
  BY DEF RunTaskZero, HoldStage, FreeStage, PersistentStage, GroupStage, StartStage, IoStage, StopStage
<1>1. /\ holder = c /\ phase = from /\ holder' = c /\ phase' = to /\ GateInv'
      /\ pc' \in [Callers -> Stages] /\ pc[c] = from /\ pc'[c] = to
      /\ \A d \in Callers \ {c} : pc'[d] = pc[d] /\ pc[d] \notin HoldStage
  BY <1>0, HolderMoves DEF RunTaskZero
<1>a. /\ 0 \in Region /\ exec[c][0] = 0
      /\ \A w \in Worker : w \in Published => taskIndex(w) # 0
  BY <1>0, <1>1 DEF JobInv, ExecInv, TypeOK, PersistentStage, Region, StopStage, Published,
     taskIndex, Payload
<1>b. /\ exec' \in [Callers -> [Region -> 0 .. 1]] /\ exec'[c][0] = 1
      /\ \A j \in Region \ {0} : exec'[c][j] = exec[c][j]
      /\ \A d \in Callers \ {c} : exec'[d] = exec[d]
  BY <1>a, RunsOnce DEF RunTaskZero
<1>2. TypeOK'
  BY <1>0, <1>1, <1>b DEF TypeOK, RunTaskZero, Stages
<1>3. PoolInv'
  BY <1>0, <1>1 DEF TypeOK, PoolInv, PoolUp, RunTaskZero, Awaiting, Stopping,
     PersistentStage
<1>4. WorkerInv'
  <2>1. \A w \in Worker : w \in Published => taskIndex(w) \in Region \ {0}
    BY <1>0, <1>1, JobFacts DEF PersistentStage
  <2>2. \A w \in Worker : w \in Published => exec'[c][taskIndex(w)] = exec[c][taskIndex(w)]
    BY <2>1, <1>b
  <2> QED
    BY <1>0, <1>1, <2>2 DEF WorkerInv, WorkerOK, RunTaskZero, PoolUp, Awaiting, Stopping,
       PersistentStage, Quiet, Helping, Published, taskIndex
<1>5. CountInv'
  BY <1>0, <1>1 DEF TypeOK, PoolInv, WorkerInv, WorkerOK, PoolUp, CountInv,
     RunTaskZero, Awaiting, Stopping, PersistentStage, Quiet, Published, Stopped,
     Rest
<1>6. JobInv'
  BY <1>0, <1>1, <1>a, <1>b DEF JobInv, RunTaskZero, PersistentStage, Published
<1>7. GroupInv'
  BY <1>0, <1>1 DEF TypeOK, GroupInv, RunTaskZero, GroupStage, Region
<1>8. ExecInv'
  BY <1>0, <1>1 DEF TypeOK, ExecInv, RunTaskZero, HoldStage, FreeStage,
     PersistentStage, GroupStage, StartStage, IoStage, StopStage
<1> QED BY <1>1, <1>2, <1>3, <1>4, <1>5, <1>6, <1>7, <1>8

\* The caller answers true only after every helper has acknowledged.
LEMMA AllDoneSafe ==
  ASSUME IndInv, NEW c \in Callers, AllDone(c)
  PROVE  IndInv'
<1> USE DEF IndInv
<1>0. PICK from \in HoldStage, to \in HoldStage :
         /\ Goto(c, from, to)
         /\ from \in {"awaitDone", "awaitWoken"} /\ to = "true"
  BY DEF AllDone, HoldStage, FreeStage, PersistentStage, GroupStage, StartStage, IoStage, StopStage
<1>1. /\ holder = c /\ phase = from /\ holder' = c /\ phase' = to /\ GateInv'
      /\ pc' \in [Callers -> Stages] /\ pc[c] = from /\ pc'[c] = to
      /\ \A d \in Callers \ {c} : pc'[d] = pc[d] /\ pc[d] \notin HoldStage
  BY <1>0, HolderMoves DEF AllDone
<1>a. /\ job.owner = c /\ job.active = size[c] - 1 /\ job.active \in 1 .. MaxTasks - 1
      /\ job.first \in Nat /\ job.first + job.active <= workerCount
      /\ Published = job.first .. job.first + job.active - 1
      /\ doneCount >= job.active
  BY <1>0, <1>1, JobFacts DEF PersistentStage, Published, AllDone, jobDone
<1>b. \A w \in Worker : w \in Published => Quiet(w)
  <2> DEFINE D == {w \in Worker : w \in Published /\ Quiet(w)}
  <2>1. D \in SUBSET (job.first .. job.first + job.active - 1)
    BY <1>a
  <2>2. Cardinality(D) >= job.active
    BY <1>0, <1>1, <1>a DEF CountInv, PersistentStage
  <2>3. D = job.first .. job.first + job.active - 1
    <3>1. job.first \in Int /\ job.active \in Nat BY <1>a
    <3> QED BY <3>1, <2>1, <2>2, FillsInterval
  <2> QED BY <2>3, <1>a
<1>2. TypeOK'
  BY <1>0, <1>1 DEF TypeOK, AllDone, Stages, Worker
<1>3. PoolInv'
  BY <1>0, <1>1 DEF TypeOK, PoolInv, PoolUp, AllDone, Awaiting, Stopping,
     PersistentStage
<1>4. WorkerInv'
  BY <1>0, <1>1, <1>b DEF WorkerInv, WorkerOK, PoolInv, AllDone, PoolUp, Awaiting, Stopping,
     PersistentStage, Quiet
<1>5. CountInv'
  BY <1>0, <1>1 DEF TypeOK, PoolInv, WorkerInv, WorkerOK, PoolUp, CountInv,
     AllDone, Awaiting, Stopping, PersistentStage, Quiet, Published, Stopped,
     Rest
<1>6. JobInv'
  BY <1>0, <1>1 DEF TypeOK, JobInv, AllDone, PersistentStage, Published, Region
<1>7. GroupInv'
  BY <1>0, <1>1 DEF TypeOK, GroupInv, AllDone, GroupStage, Region
<1>8. ExecInv'
  <2>1. ASSUME NEW i \in Region, i >= 1, i < size[c] PROVE exec[c][i] = 1
    <3> DEFINE w == i - 1 + job.first
    <3>1. w \in Worker /\ w \in Published /\ taskIndex(w) = i
      <4>1. workerCount \in 1 .. MaxTasks - 1 /\ size[c] \in Nat
        BY <1>0, <1>1, JobFacts DEF PersistentStage
      <4>2. i \in 1 .. job.active BY <4>1, <2>1, <1>a DEF Region
      <4>3. w \in job.first .. job.first + job.active - 1 BY <4>2, <1>a
      <4>4. w \in Worker BY <4>3, <1>a, <1>0, <1>1, JobFacts DEF PersistentStage
      <4>5. taskIndex(w) = i BY <4>2, <1>a DEF taskIndex
      <4> QED BY <4>3, <4>4, <4>5, <1>a
    <3>2. Quiet(w) BY <3>1, <1>b
    <3>3. w < workerCount /\ PoolUp
      BY <3>1, <1>0, <1>1, JobFacts DEF PersistentStage
    <3>4. Helping(w)
      <4>1. workerCount \in 1 .. MaxTasks - 1 BY <1>0, <1>1, JobFacts DEF PersistentStage
      <4> QED BY <4>1, <3>1, <3>3, <1>0, <1>1 DEF WorkerInv, WorkerOK, PersistentStage, Awaiting, Worker
    <3> QED BY <3>1, <3>2, <3>4, <1>1 DEF Helping, Quiet
  <2>2. ASSUME NEW i \in Region, i >= size[c] PROVE exec[c][i] = 0
    <3>1. i # 0 /\ i - 1 + job.first \notin Published
      <4>1. size[c] \in 2 .. MaxCount BY <1>0, <1>1, JobFacts DEF PersistentStage
      <4> QED BY <4>1, <2>2, <1>a DEF Region
    <3> QED BY <3>1, <1>0, <1>1 DEF JobInv, PersistentStage
  <2>3. exec[c][0] = 1
    <3>1. 0 \in Region BY <1>0, <1>1, JobFacts DEF PersistentStage, Region
    <3> QED BY <3>1, <1>0, <1>1 DEF JobInv, PersistentStage
  <2>4. exec[c] = WrittenOnce(size[c])
    <3>1. exec[c] \in [Region -> 0 .. 1] /\ size[c] \in 2 .. MaxCount
      BY <1>0, <1>1, JobFacts DEF TypeOK, PersistentStage
    <3>2. \A i \in Region : exec[c][i] = IF i < size[c] THEN 1 ELSE 0
      BY <2>1, <2>2, <2>3, <3>1 DEF Region
    <3> QED BY <3>1, <3>2 DEF WrittenOnce
  <2> QED
    BY <1>0, <1>1, <2>4 DEF ExecInv, AllDone, HoldStage, PersistentStage, GroupStage,
       StartStage, IoStage, StopStage
<1> QED BY <1>1, <1>2, <1>3, <1>4, <1>5, <1>6, <1>7, <1>8

\* The deferred wake-ups change nothing but who is asleep.
LEMMA LateWakeSafe ==
  ASSUME IndInv, NEW c \in Callers, LateWake(c)
  PROVE  IndInv'
<1> USE DEF IndInv
<1>0. PICK from \in HoldStage, to \in HoldStage :
         /\ Goto(c, from, to)
         /\ from = "awaitDone" /\ to = "awaitWoken"
  BY DEF LateWake, HoldStage, FreeStage, PersistentStage, GroupStage, StartStage, IoStage, StopStage
<1>1. /\ holder = c /\ phase = from /\ holder' = c /\ phase' = to /\ GateInv'
      /\ pc' \in [Callers -> Stages] /\ pc[c] = from /\ pc'[c] = to
      /\ \A d \in Callers \ {c} : pc'[d] = pc[d] /\ pc[d] \notin HoldStage
  BY <1>0, HolderMoves DEF LateWake
<1>a. /\ wpc' \in [Worker -> WorkerStage]
      /\ \A w \in Worker : wpc'[w] = wpc[w] \/ (wpc[w] = "asleep" /\ wpc'[w] = "park")
  BY WakeType DEF LateWake
<1>2. TypeOK'
  BY <1>0, <1>1, <1>a DEF TypeOK, LateWake, Stages
<1>3. PoolInv'
  BY <1>0, <1>1 DEF TypeOK, PoolInv, PoolUp, LateWake, Awaiting, Stopping,
     PersistentStage
<1>4. WorkerInv'
  BY <1>0, <1>1, <1>a DEF WorkerInv, WorkerOK, LateWake, PoolUp, Awaiting, Stopping,
     PersistentStage, Quiet, Helping, Published, taskIndex, Rest
<1>5. CountInv'
  <2>1. \A w \in Worker : (w \in Published' <=> w \in Published) /\ (Quiet(w)' <=> Quiet(w))
    BY <1>0, <1>1, <1>a DEF LateWake, Quiet, Rest, Published
  <2>2. {w \in Worker : w \in Published /\ Quiet(w)}
          = {w \in Worker : w \in Published' /\ Quiet(w)'}
    BY <2>1
  <2> QED
    BY <1>0, <1>1, <2>2 DEF CountInv, PersistentStage, Awaiting, Stopping, LateWake
<1>6. JobInv'
  BY <1>0, <1>1 DEF TypeOK, JobInv, LateWake, PersistentStage, Published, Region
<1>7. GroupInv'
  BY <1>0, <1>1 DEF TypeOK, GroupInv, LateWake, GroupStage, Region
<1>8. ExecInv'
  BY <1>0, <1>1 DEF TypeOK, ExecInv, LateWake, HoldStage, FreeStage,
     PersistentStage, GroupStage, StartStage, IoStage, StopStage
<1> QED BY <1>1, <1>2, <1>3, <1>4, <1>5, <1>6, <1>7, <1>8

\* Going to sleep for persistent_done_count.
LEMMA SleepUntilDoneSafe ==
  ASSUME IndInv, NEW c \in Callers, SleepUntilDone(c)
  PROVE  IndInv'
<1> USE DEF IndInv
<1>0. PICK from \in HoldStage, to \in HoldStage :
         /\ Goto(c, from, to)
         /\ from = "awaitWoken" /\ to = "doneSleep"
  BY DEF SleepUntilDone, HoldStage, FreeStage, PersistentStage, GroupStage, StartStage, IoStage, StopStage
<1>1. /\ holder = c /\ phase = from /\ holder' = c /\ phase' = to /\ GateInv'
      /\ pc' \in [Callers -> Stages] /\ pc[c] = from /\ pc'[c] = to
      /\ \A d \in Callers \ {c} : pc'[d] = pc[d] /\ pc[d] \notin HoldStage
  BY <1>0, HolderMoves DEF SleepUntilDone
<1>2. TypeOK'
  BY <1>0, <1>1 DEF TypeOK, SleepUntilDone, Stages, Worker
<1>3. PoolInv'
  BY <1>0, <1>1 DEF TypeOK, PoolInv, PoolUp, SleepUntilDone, Awaiting, Stopping,
     PersistentStage
<1>4. WorkerInv'
  BY <1>0, <1>1 DEF TypeOK, PoolInv, WorkerInv, WorkerOK, PoolUp, SleepUntilDone,
     Awaiting, Stopping, PersistentStage, Quiet, Leaving, Helping, Starting,
     Published, Stopped, taskIndex, Rest, Worker
<1>5. CountInv'
  BY <1>0, <1>1 DEF TypeOK, PoolInv, WorkerInv, WorkerOK, PoolUp, CountInv,
     SleepUntilDone, Awaiting, Stopping, PersistentStage, Quiet, Published,
     Stopped, Rest
<1>6. JobInv'
  BY <1>0, <1>1 DEF TypeOK, JobInv, SleepUntilDone, PersistentStage, Published,
     Region
<1>7. GroupInv'
  BY <1>0, <1>1 DEF TypeOK, GroupInv, SleepUntilDone, GroupStage, Region
<1>8. ExecInv'
  BY <1>0, <1>1 DEF TypeOK, ExecInv, SleepUntilDone, HoldStage, FreeStage,
     PersistentStage, GroupStage, StartStage, IoStage, StopStage
<1> QED BY <1>1, <1>2, <1>3, <1>4, <1>5, <1>6, <1>7, <1>8

\* A futex wait that returns for no reason.
LEMMA CallerSpuriousWakeSafe ==
  ASSUME IndInv, NEW c \in Callers, CallerSpuriousWake(c)
  PROVE  IndInv'
<1> USE DEF IndInv
<1>0. PICK from \in HoldStage, to \in HoldStage :
         /\ Goto(c, from, to)
         /\ \/ from = "doneSleep" /\ to = "awaitWoken"
            \/ from = "readySleep" /\ to = "awaitReady"
            \/ from = "exitSleep" /\ to = "awaitExit"
  BY DEF CallerSpuriousWake, HoldStage, FreeStage, PersistentStage, GroupStage, StartStage, IoStage, StopStage
<1>1. /\ holder = c /\ phase = from /\ holder' = c /\ phase' = to /\ GateInv'
      /\ pc' \in [Callers -> Stages] /\ pc[c] = from /\ pc'[c] = to
      /\ \A d \in Callers \ {c} : pc'[d] = pc[d] /\ pc[d] \notin HoldStage
  BY <1>0, HolderMoves DEF CallerSpuriousWake
<1>2. TypeOK'
  BY <1>0, <1>1 DEF TypeOK, CallerSpuriousWake, Stages, Worker
<1>3. PoolInv'
  BY <1>0, <1>1 DEF TypeOK, PoolInv, PoolUp, CallerSpuriousWake, Awaiting,
     Stopping, PersistentStage
<1>4. WorkerInv'
  BY <1>0, <1>1 DEF TypeOK, PoolInv, WorkerInv, WorkerOK, PoolUp,
     CallerSpuriousWake, Awaiting, Stopping, PersistentStage, Quiet, Leaving,
     Helping, Starting, Published, Stopped, taskIndex, Rest, Worker
<1>5. CountInv'
  <2>1. \A w \in Worker : (w \in Published' <=> w \in Published) /\ (Quiet(w)' <=> Quiet(w))
    BY <1>0, <1>1 DEF CallerSpuriousWake, Quiet, Published
  <2>2. {w \in Worker : w \in Published /\ Quiet(w)}
          = {w \in Worker : w \in Published' /\ Quiet(w)'}
    BY <2>1
  <2> QED
    BY <1>0, <1>1, <2>2 DEF CountInv, PersistentStage, Awaiting, Stopping, CallerSpuriousWake
<1>6. JobInv'
  BY <1>0, <1>1 DEF TypeOK, JobInv, CallerSpuriousWake, PersistentStage,
     Published, Region
<1>7. GroupInv'
  BY <1>0, <1>1 DEF TypeOK, GroupInv, CallerSpuriousWake, GroupStage, Region
<1>8. ExecInv'
  BY <1>0, <1>1 DEF TypeOK, ExecInv, CallerSpuriousWake, HoldStage, FreeStage,
     PersistentStage, GroupStage, StartStage, IoStage, StopStage
<1> QED BY <1>1, <1>2, <1>3, <1>4, <1>5, <1>6, <1>7, <1>8

\* Setting up io_threaded runs no task.
LEMMA ensureIoThreadedSafe ==
  ASSUME IndInv, NEW c \in Callers, ensureIoThreaded(c)
  PROVE  IndInv'
<1> USE DEF IndInv
<1>0. PICK from \in HoldStage, to \in HoldStage :
         /\ Goto(c, from, to)
         /\ from = "ensureIo"
         /\ to = IF configuredHelperCount = 0 \/ ioState = 3 THEN "false"
                 ELSE IF ioState = 2 THEN "checkIo" ELSE "initIo"
  BY DEF ensureIoThreaded, HoldStage, FreeStage, PersistentStage, GroupStage, StartStage, IoStage, StopStage
<1>1. /\ holder = c /\ phase = from /\ holder' = c /\ phase' = to /\ GateInv'
      /\ pc' \in [Callers -> Stages] /\ pc[c] = from /\ pc'[c] = to
      /\ \A d \in Callers \ {c} : pc'[d] = pc[d] /\ pc[d] \notin HoldStage
  BY <1>0, HolderMoves DEF ensureIoThreaded
<1>2. TypeOK'
  BY <1>0, <1>1 DEF TypeOK, ensureIoThreaded, Stages, Worker
<1>3. PoolInv'
  BY <1>0, <1>1 DEF TypeOK, PoolInv, PoolUp, ensureIoThreaded, Awaiting,
     Stopping, PersistentStage
<1>4. WorkerInv'
  BY <1>0, <1>1 DEF TypeOK, PoolInv, WorkerInv, WorkerOK, PoolUp,
     ensureIoThreaded, Awaiting, Stopping, PersistentStage, Quiet, Leaving,
     Helping, Starting, Published, Stopped, taskIndex, Rest, Worker
<1>5. CountInv'
  BY <1>0, <1>1 DEF TypeOK, PoolInv, WorkerInv, WorkerOK, PoolUp, CountInv,
     ensureIoThreaded, Awaiting, Stopping, PersistentStage, Quiet, Published,
     Stopped, Rest
<1>6. JobInv'
  BY <1>0, <1>1 DEF TypeOK, JobInv, ensureIoThreaded, PersistentStage, Published,
     Region
<1>7. GroupInv'
  BY <1>0, <1>1 DEF TypeOK, GroupInv, ensureIoThreaded, GroupStage, Region
<1>8. ExecInv'
  BY <1>0, <1>1 DEF TypeOK, ExecInv, ensureIoThreaded, HoldStage, FreeStage,
     PersistentStage, GroupStage, StartStage, IoStage, StopStage
<1> QED BY <1>1, <1>2, <1>3, <1>4, <1>5, <1>6, <1>7, <1>8

\* Setting up io_threaded runs no task.
LEMMA InitIoSafe ==
  ASSUME IndInv, NEW c \in Callers, InitIo(c)
  PROVE  IndInv'
<1> USE DEF IndInv
<1>0. PICK from \in HoldStage, to \in HoldStage :
         /\ Goto(c, from, to)
         /\ from = "initIo" /\ to = IF configuredHelperCount = 0 THEN "false" ELSE "checkIo"
  BY DEF InitIo, HoldStage, FreeStage, PersistentStage, GroupStage, StartStage, IoStage, StopStage
<1>1. /\ holder = c /\ phase = from /\ holder' = c /\ phase' = to /\ GateInv'
      /\ pc' \in [Callers -> Stages] /\ pc[c] = from /\ pc'[c] = to
      /\ \A d \in Callers \ {c} : pc'[d] = pc[d] /\ pc[d] \notin HoldStage
  BY <1>0, HolderMoves DEF InitIo
<1>2. TypeOK'
  BY <1>0, <1>1 DEF TypeOK, InitIo, Stages, Worker
<1>3. PoolInv'
  BY <1>0, <1>1 DEF TypeOK, PoolInv, PoolUp, InitIo, Awaiting, Stopping,
     PersistentStage
<1>4. WorkerInv'
  BY <1>0, <1>1 DEF TypeOK, PoolInv, WorkerInv, WorkerOK, PoolUp, InitIo,
     Awaiting, Stopping, PersistentStage, Quiet, Leaving, Helping, Starting,
     Published, Stopped, taskIndex, Rest, Worker
<1>5. CountInv'
  BY <1>0, <1>1 DEF TypeOK, PoolInv, WorkerInv, WorkerOK, PoolUp, CountInv,
     InitIo, Awaiting, Stopping, PersistentStage, Quiet, Published, Stopped, Rest
<1>6. JobInv'
  BY <1>0, <1>1 DEF TypeOK, JobInv, InitIo, PersistentStage, Published, Region
<1>7. GroupInv'
  BY <1>0, <1>1 DEF TypeOK, GroupInv, InitIo, GroupStage, Region
<1>8. ExecInv'
  BY <1>0, <1>1 DEF TypeOK, ExecInv, InitIo, HoldStage, FreeStage,
     PersistentStage, GroupStage, StartStage, IoStage, StopStage
<1> QED BY <1>1, <1>2, <1>3, <1>4, <1>5, <1>6, <1>7, <1>8

\* A group is refused before its first task is submitted.
LEMMA CheckIoSafe ==
  ASSUME IndInv, NEW c \in Callers, CheckIo(c)
  PROVE  IndInv'
<1> USE DEF IndInv
<1>0. PICK from \in HoldStage, to \in HoldStage :
         /\ Goto(c, from, to)
         /\ from = "checkIo"
         /\ to = IF size[c] - 1 > configuredHelperCount THEN "false" ELSE "submit"
  BY DEF CheckIo, HoldStage, FreeStage, PersistentStage, GroupStage, StartStage, IoStage, StopStage
<1>1. /\ holder = c /\ phase = from /\ holder' = c /\ phase' = to /\ GateInv'
      /\ pc' \in [Callers -> Stages] /\ pc[c] = from /\ pc'[c] = to
      /\ \A d \in Callers \ {c} : pc'[d] = pc[d] /\ pc[d] \notin HoldStage
  BY <1>0, HolderMoves DEF CheckIo
<1>2. TypeOK'
  BY <1>0, <1>1 DEF TypeOK, CheckIo, Stages
<1>3. PoolInv'
  BY <1>0, <1>1 DEF TypeOK, PoolInv, PoolUp, CheckIo, Awaiting, Stopping,
     PersistentStage
<1>4. WorkerInv'
  BY <1>0, <1>1 DEF TypeOK, PoolInv, WorkerInv, WorkerOK, PoolUp, CheckIo,
     Awaiting, Stopping, PersistentStage, Quiet, Leaving, Helping, Starting,
     Published, Stopped, taskIndex, Rest, Worker
<1>5. CountInv'
  BY <1>0, <1>1 DEF TypeOK, PoolInv, WorkerInv, WorkerOK, PoolUp, CountInv,
     CheckIo, Awaiting, Stopping, PersistentStage, Quiet, Published, Stopped,
     Rest
<1>6. JobInv'
  BY <1>0, <1>1 DEF TypeOK, JobInv, CheckIo, PersistentStage, Published, Region
<1>7. GroupInv'
  <2>1. to = "submit" => size[c] <= MaxTasks
    BY <1>0, HelperCap DEF TypeOK
  <2>2. size[c] >= 2 /\ exec[c] = NoWrites
    BY <1>0, <1>1 DEF ExecInv, StopStage, PersistentStage, GroupStage
  <2> QED
    BY <1>0, <1>1, <2>1, <2>2 DEF TypeOK, GroupInv, CheckIo, GroupStage, Region, NoWrites
<1>8. ExecInv'
  BY <1>0, <1>1 DEF TypeOK, ExecInv, CheckIo, HoldStage, FreeStage,
     PersistentStage, GroupStage, StartStage, IoStage, StopStage
<1> QED BY <1>1, <1>2, <1>3, <1>4, <1>5, <1>6, <1>7, <1>8

\* Each task is queued, or run by the caller when concurrent fails.
LEMMA SubmitTaskSafe ==
  ASSUME IndInv, NEW c \in Callers, SubmitTask(c)
  PROVE  IndInv'
<1> USE DEF IndInv
<1>0. PICK from \in HoldStage, to \in HoldStage :
         /\ Goto(c, from, to)
         /\ from = "submit" /\ to = IF k + 1 = size[c] THEN "groupSelf" ELSE "submit"
  BY DEF SubmitTask, HoldStage, FreeStage, PersistentStage, GroupStage, StartStage, IoStage, StopStage
<1>1. /\ holder = c /\ phase = from /\ holder' = c /\ phase' = to /\ GateInv'
      /\ pc' \in [Callers -> Stages] /\ pc[c] = from /\ pc'[c] = to
      /\ \A d \in Callers \ {c} : pc'[d] = pc[d] /\ pc[d] \notin HoldStage
  BY <1>0, HolderMoves DEF SubmitTask
<1>a. /\ k \in Region /\ k >= 1 /\ k < size[c] /\ size[c] <= MaxTasks
      /\ exec[c][k] = 0 /\ group[k] = None
  BY <1>0, <1>1 DEF GroupInv, GroupStage, Region, TypeOK
<1> DEFINE Others == \A d \in Callers \ {c} : exec'[d] = exec[d]
<1>b. ASSUME exec' = [exec EXCEPT ![c][k] = @ + 1], UNCHANGED group
      PROVE  TypeOK' /\ GroupInv' /\ Others
  <2>1. /\ exec' \in [Callers -> [Region -> 0 .. 1]] /\ exec'[c][k] = 1
        /\ \A j \in Region \ {k} : exec'[c][j] = exec[c][j]
        /\ \A d \in Callers \ {c} : exec'[d] = exec[d]
    BY <1>a, <1>b, RunsOnce
  <2>2. TypeOK' BY <1>0, <1>1, <1>a, <1>b, <2>1 DEF TypeOK, SubmitTask, Stages
  <2>3. GroupInv'
    <3>1. /\ UNCHANGED <<group, size>> /\ k' = k + 1 /\ size[c] \in Nat
          /\ phase' = IF k + 1 = size[c] THEN "groupSelf" ELSE "submit"
      BY <1>0, <1>1, <1>b DEF SubmitTask, TypeOK
    <3>2. ASSUME NEW i \in Region, i # k
          PROVE  exec'[c][i] = exec[c][i] /\ (i < k + 1 <=> i < k)
      BY <3>2, <2>1, <1>a DEF Region
    <3> QED BY <3>1, <3>2, <2>1, <1>0, <1>1, <1>a DEF GroupInv, GroupStage, Region
  <2> QED BY <2>1, <2>2, <2>3
<1>c. ASSUME group' = [group EXCEPT ![k] = c], UNCHANGED exec
      PROVE  TypeOK' /\ GroupInv' /\ Others
  <2>1. group'[k] = c /\ \A j \in Region \ {k} : group'[j] = group[j]
    BY <1>a, <1>c DEF TypeOK
  <2>2. TypeOK' BY <1>0, <1>1, <1>a, <1>c DEF TypeOK, SubmitTask, Stages
  <2>3. GroupInv'
    <3>1. /\ UNCHANGED <<exec, size>> /\ k' = k + 1 /\ size[c] \in Nat
          /\ phase' = IF k + 1 = size[c] THEN "groupSelf" ELSE "submit"
      BY <1>0, <1>1, <1>c DEF SubmitTask, TypeOK
    <3>2. ASSUME NEW i \in Region, i # k
          PROVE  group'[i] = group[i] /\ (i < k + 1 <=> i < k)
      BY <3>2, <2>1, <1>a DEF Region
    <3> QED BY <3>1, <3>2, <2>1, <1>0, <1>1, <1>a DEF GroupInv, GroupStage, Region
  <2> QED BY <2>2, <2>3, <1>c
<1>d. TypeOK' /\ GroupInv' /\ Others
  BY <1>b, <1>c DEF SubmitTask
<1>2. TypeOK'
  BY <1>d
<1>3. PoolInv'
  BY <1>0, <1>1 DEF TypeOK, PoolInv, PoolUp, SubmitTask, Awaiting, Stopping,
     PersistentStage
<1>4. WorkerInv'
  BY <1>0, <1>1 DEF TypeOK, PoolInv, WorkerInv, WorkerOK, PoolUp, SubmitTask,
     Awaiting, Stopping, PersistentStage, Quiet, Leaving, Helping, Starting,
     Published, Stopped, taskIndex, Rest, Worker
<1>5. CountInv'
  BY <1>0, <1>1 DEF TypeOK, PoolInv, WorkerInv, WorkerOK, PoolUp, CountInv,
     SubmitTask, Awaiting, Stopping, PersistentStage, Quiet, Published, Stopped,
     Rest
<1>6. JobInv'
  BY <1>0, <1>1 DEF TypeOK, JobInv, SubmitTask, PersistentStage, Published,
     Region
<1>7. GroupInv'
  BY <1>d
<1>8. ExecInv'
  BY <1>0, <1>1, <1>d DEF TypeOK, ExecInv, SubmitTask, HoldStage, PersistentStage, GroupStage,
     StartStage, IoStage, StopStage
<1> QED BY <1>1, <1>2, <1>3, <1>4, <1>5, <1>6, <1>7, <1>8

\* Task 0 is the caller's alone.
LEMMA GroupTaskZeroSafe ==
  ASSUME IndInv, NEW c \in Callers, GroupTaskZero(c)
  PROVE  IndInv'
<1> USE DEF IndInv
<1>0. PICK from \in HoldStage, to \in HoldStage :
         /\ Goto(c, from, to)
         /\ from = "groupSelf" /\ to = "awaitGroup"
  BY DEF GroupTaskZero, HoldStage, FreeStage, PersistentStage, GroupStage, StartStage, IoStage, StopStage
<1>1. /\ holder = c /\ phase = from /\ holder' = c /\ phase' = to /\ GateInv'
      /\ pc' \in [Callers -> Stages] /\ pc[c] = from /\ pc'[c] = to
      /\ \A d \in Callers \ {c} : pc'[d] = pc[d] /\ pc[d] \notin HoldStage
  BY <1>0, HolderMoves DEF GroupTaskZero
<1>a. 0 \in Region /\ exec[c][0] = 0
  BY <1>0, <1>1 DEF GroupInv, ExecInv, GroupStage, StopStage, Region, TypeOK
<1>b. /\ exec' \in [Callers -> [Region -> 0 .. 1]] /\ exec'[c][0] = 1
      /\ \A j \in Region \ {0} : exec'[c][j] = exec[c][j]
      /\ \A d \in Callers \ {c} : exec'[d] = exec[d]
  BY <1>a, RunsOnce DEF GroupTaskZero
<1>2. TypeOK'
  BY <1>0, <1>1, <1>b DEF TypeOK, GroupTaskZero, Stages
<1>3. PoolInv'
  BY <1>0, <1>1 DEF TypeOK, PoolInv, PoolUp, GroupTaskZero, Awaiting, Stopping,
     PersistentStage
<1>4. WorkerInv'
  BY <1>0, <1>1 DEF TypeOK, PoolInv, WorkerInv, WorkerOK, PoolUp, GroupTaskZero,
     Awaiting, Stopping, PersistentStage, Quiet, Leaving, Helping, Starting,
     Published, Stopped, taskIndex, Rest, Worker
<1>5. CountInv'
  BY <1>0, <1>1 DEF TypeOK, PoolInv, WorkerInv, WorkerOK, PoolUp, CountInv,
     GroupTaskZero, Awaiting, Stopping, PersistentStage, Quiet, Published,
     Stopped, Rest
<1>6. JobInv'
  BY <1>0, <1>1 DEF TypeOK, JobInv, GroupTaskZero, PersistentStage, Published,
     Region
<1>7. GroupInv'
  BY <1>0, <1>1, <1>a, <1>b DEF TypeOK, GroupInv, GroupTaskZero, GroupStage, Region
<1>8. ExecInv'
  BY <1>0, <1>1, <1>b DEF ExecInv, GroupTaskZero, HoldStage, PersistentStage, GroupStage,
     StartStage, IoStage, StopStage
<1> QED BY <1>1, <1>2, <1>3, <1>4, <1>5, <1>6, <1>7, <1>8

\* The group has run every task when the caller answers true.
LEMMA AwaitGroupSafe ==
  ASSUME IndInv, NEW c \in Callers, AwaitGroup(c)
  PROVE  IndInv'
<1> USE DEF IndInv
<1>0. PICK from \in HoldStage, to \in HoldStage :
         /\ Goto(c, from, to)
         /\ from = "awaitGroup" /\ to = "true"
  BY DEF AwaitGroup, HoldStage, FreeStage, PersistentStage, GroupStage, StartStage, IoStage, StopStage
<1>1. /\ holder = c /\ phase = from /\ holder' = c /\ phase' = to /\ GateInv'
      /\ pc' \in [Callers -> Stages] /\ pc[c] = from /\ pc'[c] = to
      /\ \A d \in Callers \ {c} : pc'[d] = pc[d] /\ pc[d] \notin HoldStage
  BY <1>0, HolderMoves DEF AwaitGroup
<1>2. TypeOK'
  BY <1>0, <1>1 DEF TypeOK, AwaitGroup, Stages, Worker
<1>3. PoolInv'
  BY <1>0, <1>1 DEF TypeOK, PoolInv, PoolUp, AwaitGroup, Awaiting, Stopping,
     PersistentStage
<1>4. WorkerInv'
  BY <1>0, <1>1 DEF TypeOK, PoolInv, WorkerInv, WorkerOK, PoolUp, AwaitGroup,
     Awaiting, Stopping, PersistentStage, Quiet, Leaving, Helping, Starting,
     Published, Stopped, taskIndex, Rest, Worker
<1>5. CountInv'
  BY <1>0, <1>1 DEF TypeOK, PoolInv, WorkerInv, WorkerOK, PoolUp, CountInv,
     AwaitGroup, Awaiting, Stopping, PersistentStage, Quiet, Published, Stopped,
     Rest
<1>6. JobInv'
  BY <1>0, <1>1 DEF TypeOK, JobInv, AwaitGroup, PersistentStage, Published,
     Region
<1>7. GroupInv'
  BY <1>0, <1>1 DEF GroupInv, AwaitGroup, groupDone, GroupStage
<1>8. ExecInv'
  <2>1. \A i \in Region : exec[c][i] = IF i < size[c] THEN 1 ELSE 0
    BY <1>0, <1>1 DEF GroupInv, AwaitGroup, groupDone, GroupStage, ExecInv, StopStage, Region, TypeOK
  <2>2. exec[c] = WrittenOnce(size[c])
    BY <2>1 DEF WrittenOnce, TypeOK
  <2> QED
    BY <1>0, <1>1, <2>2 DEF ExecInv, AwaitGroup, HoldStage, PersistentStage, GroupStage,
       StartStage, IoStage, StopStage
<1> QED BY <1>1, <1>2, <1>3, <1>4, <1>5, <1>6, <1>7, <1>8

\* A pool that is up has workers, and shutdown starts to stop them.
LEMMA shutdownPersistentLockedSafe ==
  ASSUME IndInv, NEW c \in Callers, shutdownPersistentLocked(c)
  PROVE  IndInv'
<1> USE DEF IndInv
<1>0. PICK from \in HoldStage, to \in HoldStage :
         /\ Goto(c, from, to)
         /\ from = "stopPool"
         /\ to = IF poolState # 2 THEN "stopIo" ELSE IF workerCount # 0 THEN "bump" ELSE "join"
  BY DEF shutdownPersistentLocked, HoldStage, FreeStage, PersistentStage, GroupStage, StartStage, IoStage, StopStage
<1>1. /\ holder = c /\ phase = from /\ holder' = c /\ phase' = to /\ GateInv'
      /\ pc' \in [Callers -> Stages] /\ pc[c] = from /\ pc'[c] = to
      /\ \A d \in Callers \ {c} : pc'[d] = pc[d] /\ pc[d] \notin HoldStage
  BY <1>0, HolderMoves DEF shutdownPersistentLocked
<1>2. TypeOK'
  <2>1. shutdownRequested' \in BOOLEAN
    BY DEF shutdownPersistentLocked, TypeOK
  <2>2. k' \in 0 .. MaxTasks /\ poolState' \in 0 .. 3
    BY DEF shutdownPersistentLocked, TypeOK
  <2>3. exitedCount' \in 0 .. MaxTasks - 1
    BY DEF shutdownPersistentLocked, TypeOK
  <2> QED BY <1>0, <1>1, <2>1, <2>2, <2>3 DEF TypeOK, shutdownPersistentLocked, Stages, Worker
<1>3. PoolInv'
  <2>1. phase = "stopPool" /\ poolState # 1 /\ shutdownRequested = FALSE
    BY <1>0, <1>1 DEF PoolInv, Stopping, shutdownPersistentLocked
  <2>2. CASE poolState = 2
    <3>1. /\ workerCount >= 1 /\ workerCount \in 1 .. MaxTasks - 1
      BY <2>2 DEF PoolInv, PoolUp, TypeOK
    <3>2. phase' = "bump" /\ poolState' = 2 /\ k' = 0 /\ workerCount' = workerCount
      BY <3>1, <2>2, <1>0, <1>1 DEF shutdownPersistentLocked
    <3>3. shutdownRequested' = TRUE
      BY <3>1, <2>2 DEF shutdownPersistentLocked
    <3> QED BY <3>1, <3>2, <3>3 DEF PoolInv, PoolUp, Awaiting, Stopping, PersistentStage
  <2>3. CASE poolState # 2
    <3>1. phase' = "stopIo" /\ poolState' = 0 /\ shutdownRequested' = FALSE
      BY <2>1, <2>3, <1>0, <1>1 DEF shutdownPersistentLocked, TypeOK
    <3> QED BY <3>1 DEF PoolInv, PoolUp, Awaiting, Stopping, PersistentStage
  <2> QED BY <2>2, <2>3
<1>4. WorkerInv'
  BY <1>0, <1>1 DEF TypeOK, PoolInv, WorkerInv, WorkerOK, PoolUp,
     shutdownPersistentLocked, Awaiting, Stopping, PersistentStage, Quiet,
     Leaving, Helping, Starting, Published, Stopped, taskIndex, Rest, Worker
<1>5. CountInv'
  <2>1. CASE poolState = 2
    <3>1. workerCount \in 1 .. MaxTasks - 1 BY <2>1 DEF PoolInv, PoolUp, TypeOK
    <3>2. phase' = "bump" /\ exitedCount' = 0 /\ wpc' = wpc
      BY <3>1, <2>1, <1>0, <1>1 DEF shutdownPersistentLocked
    <3>3. {w \in Worker : wpc[w] \in {"exitWake", "finished"}} = {}
      BY <1>0, <1>1 DEF WorkerInv, WorkerOK, Quiet, Rest, Awaiting, PersistentStage, Stopping
    <3> QED BY <3>2, <3>3, FS_EmptySet DEF CountInv, Awaiting, PersistentStage, Stopping
  <2>2. CASE poolState # 2
    BY <2>2, <1>0, <1>1 DEF CountInv, shutdownPersistentLocked, Awaiting, PersistentStage, Stopping
  <2> QED BY <2>1, <2>2
<1>6. JobInv'
  BY <1>0, <1>1 DEF TypeOK, JobInv, shutdownPersistentLocked, PersistentStage,
     Published, Region
<1>7. GroupInv'
  BY <1>0, <1>1 DEF TypeOK, GroupInv, shutdownPersistentLocked, GroupStage,
     Region
<1>8. ExecInv'
  BY <1>0, <1>1 DEF TypeOK, ExecInv, shutdownPersistentLocked, HoldStage,
     FreeStage, PersistentStage, GroupStage, StartStage, IoStage, StopStage
<1> QED BY <1>1, <1>2, <1>3, <1>4, <1>5, <1>6, <1>7, <1>8

\* Each generation bump of shutdown addresses one quiet worker.
LEMMA ShutdownBumpSafe ==
  ASSUME IndInv, NEW c \in Callers, ShutdownBump(c)
  PROVE  IndInv'
<1> USE DEF IndInv
<1>0. PICK from \in HoldStage, to \in HoldStage :
         /\ Goto(c, from, to)
         /\ from = "bump" /\ to = IF k + 1 = workerCount THEN "awaitExit" ELSE "bump"
  BY DEF ShutdownBump, HoldStage, FreeStage, PersistentStage, GroupStage, StartStage, IoStage, StopStage
<1>1. /\ holder = c /\ phase = from /\ holder' = c /\ phase' = to /\ GateInv'
      /\ pc' \in [Callers -> Stages] /\ pc[c] = from /\ pc'[c] = to
      /\ \A d \in Callers \ {c} : pc'[d] = pc[d] /\ pc[d] \notin HoldStage
  BY <1>0, HolderMoves DEF ShutdownBump
<1>a. PICK h \in Worker : h = k /\ h < workerCount /\ workerCount \in 1 .. MaxTasks - 1
  BY <1>0, <1>1 DEF TypeOK, PoolInv, Stopping, Worker, PoolUp
<1>b. /\ generation'[h] # generation[h]
      /\ \A w \in Worker \ {h} : generation'[w] = generation[w]
      /\ generation' \in [Worker -> 0 .. GenMod - 1]
  BY <1>a, Bumps DEF TypeOK, ShutdownBump, bumped
<1>c. /\ wpc' \in [Worker -> WorkerStage]
      /\ \A w \in Worker : wpc'[w] = wpc[w] \/ (wpc[w] = "asleep" /\ wpc'[w] = "park")
  BY WakeType DEF ShutdownBump
<1>d. /\ h \in Stopped' /\ h \notin Stopped
      /\ \A w \in Worker \ {h} : w \in Stopped' <=> w \in Stopped
  BY <1>0, <1>1, <1>a DEF Stopped, ShutdownBump, TypeOK, Worker
<1>2. TypeOK'
  BY <1>0, <1>1, <1>a, <1>b, <1>c DEF TypeOK, ShutdownBump, Stages, GateInv
<1>3. PoolInv'
  BY <1>0, <1>1 DEF TypeOK, PoolInv, PoolUp, ShutdownBump, Awaiting, Stopping,
     PersistentStage
<1>4. WorkerInv'
  <2>1. PoolUp /\ PoolUp' /\ Quiet(h)
    BY <1>0, <1>1, <1>a, <1>d DEF PoolInv, PoolUp, WorkerInv, WorkerOK, PersistentStage, Stopping, Awaiting,
       ShutdownBump
  <2>2. Leaving(h)'
    <3>1. wpc'[h] \in Rest /\ seen[h] # generation'[h] /\ seen' = seen
      BY <2>1, <1>a, <1>b, <1>c DEF Quiet, Rest, ShutdownBump
    <3> QED BY <3>1 DEF Leaving
  <2>3. ASSUME NEW w \in Worker, w # h, Leaving(w) PROVE Leaving(w)'
    BY <2>3, <1>b, <1>c DEF Leaving, Rest, ShutdownBump
  <2>4. ASSUME NEW w \in Worker, w # h, Quiet(w) PROVE Quiet(w)'
    <3>1. wpc'[w] \in Rest /\ generation'[w] = generation[w] /\ seen' = seen
      BY <2>4, <1>b, <1>c DEF Quiet, Rest, ShutdownBump
    <3> QED BY <3>1, <2>4 DEF Quiet
  <2> QED
    BY <1>0, <1>1, <1>a, <1>c, <1>d, <2>1, <2>2, <2>3, <2>4 DEF WorkerInv, WorkerOK, PersistentStage,
       Stopping, Awaiting, ShutdownBump
<1>5. CountInv'
  <2>1. {w \in Worker : wpc'[w] \in {"exitWake", "finished"}}
          = {w \in Worker : wpc[w] \in {"exitWake", "finished"}}
    BY <1>c
  <2> QED
    BY <1>0, <1>1, <2>1 DEF CountInv, ShutdownBump, Awaiting, Stopping, PersistentStage
<1>6. JobInv'
  BY <1>0, <1>1 DEF TypeOK, JobInv, ShutdownBump, PersistentStage, Published,
     Region
<1>7. GroupInv'
  BY <1>0, <1>1 DEF TypeOK, GroupInv, ShutdownBump, GroupStage, Region
<1>8. ExecInv'
  BY <1>0, <1>1 DEF TypeOK, ExecInv, ShutdownBump, HoldStage, FreeStage,
     PersistentStage, GroupStage, StartStage, IoStage, StopStage
<1> QED BY <1>1, <1>2, <1>3, <1>4, <1>5, <1>6, <1>7, <1>8

\* Waiting for persistent_exited_count.
LEMMA AwaitExitSafe ==
  ASSUME IndInv, NEW c \in Callers, AwaitExit(c)
  PROVE  IndInv'
<1> USE DEF IndInv
<1>0. PICK from \in HoldStage, to \in HoldStage :
         /\ Goto(c, from, to)
         /\ from = "awaitExit"
         /\ to = IF exitedCount >= workerCount THEN "join" ELSE "exitSleep"
  BY DEF AwaitExit, HoldStage, FreeStage, PersistentStage, GroupStage, StartStage, IoStage, StopStage
<1>1. /\ holder = c /\ phase = from /\ holder' = c /\ phase' = to /\ GateInv'
      /\ pc' \in [Callers -> Stages] /\ pc[c] = from /\ pc'[c] = to
      /\ \A d \in Callers \ {c} : pc'[d] = pc[d] /\ pc[d] \notin HoldStage
  BY <1>0, HolderMoves DEF AwaitExit
<1>2. TypeOK'
  BY <1>0, <1>1 DEF TypeOK, AwaitExit, Stages, Worker
<1>3. PoolInv'
  BY <1>0, <1>1 DEF TypeOK, PoolInv, PoolUp, AwaitExit, Awaiting, Stopping,
     PersistentStage
<1>4. WorkerInv'
  BY <1>0, <1>1 DEF TypeOK, PoolInv, WorkerInv, WorkerOK, PoolUp, AwaitExit,
     Awaiting, Stopping, PersistentStage, Quiet, Leaving, Helping, Starting,
     Published, Stopped, taskIndex, Rest, Worker
<1>5. CountInv'
  BY <1>0, <1>1 DEF TypeOK, PoolInv, WorkerInv, WorkerOK, PoolUp, CountInv,
     AwaitExit, Awaiting, Stopping, PersistentStage, Quiet, Published, Stopped,
     Rest
<1>6. JobInv'
  BY <1>0, <1>1 DEF TypeOK, JobInv, AwaitExit, PersistentStage, Published, Region
<1>7. GroupInv'
  BY <1>0, <1>1 DEF TypeOK, GroupInv, AwaitExit, GroupStage, Region
<1>8. ExecInv'
  BY <1>0, <1>1 DEF TypeOK, ExecInv, AwaitExit, HoldStage, FreeStage,
     PersistentStage, GroupStage, StartStage, IoStage, StopStage
<1> QED BY <1>1, <1>2, <1>3, <1>4, <1>5, <1>6, <1>7, <1>8

\* The threads are joined before the pool counts as new.
LEMMA JoinSafe ==
  ASSUME IndInv, NEW c \in Callers, Join(c)
  PROVE  IndInv'
<1> USE DEF IndInv
<1>0. PICK from \in HoldStage, to \in HoldStage :
         /\ Goto(c, from, to)
         /\ from = "join" /\ to = "stopIo"
  BY DEF Join, HoldStage, FreeStage, PersistentStage, GroupStage, StartStage, IoStage, StopStage
<1>1. /\ holder = c /\ phase = from /\ holder' = c /\ phase' = to /\ GateInv'
      /\ pc' \in [Callers -> Stages] /\ pc[c] = from /\ pc'[c] = to
      /\ \A d \in Callers \ {c} : pc'[d] = pc[d] /\ pc[d] \notin HoldStage
  BY <1>0, HolderMoves DEF Join
<1>a. \A w \in Worker : wpc'[w] = "none"
  BY <1>0, <1>1 DEF Join, workersJoined, TypeOK
<1>2. TypeOK'
  <2>1. wpc' \in [Worker -> WorkerStage]
    BY <1>a DEF Join, WorkerStage
  <2>2. /\ UNCHANGED <<ioVars, gateVars, jobVars, callVars, generation, waiting, seen, local>>
        /\ workerCount' = 0 /\ readyCount' = 0 /\ exitedCount' = 0 /\ poolState' = 0
        /\ shutdownRequested' = FALSE
    BY DEF Join
  <2>3. MaxTasks - 1 \in Nat OBVIOUS
  <2>4. /\ generation' \in [Worker -> 0 .. GenMod - 1] /\ waiting' \in [Worker -> BOOLEAN]
        /\ seen' \in [Worker -> 0 .. GenMod - 1] /\ local' \in [Worker -> LocalData]
    BY <2>2 DEF TypeOK
  <2>5. /\ size' \in [Callers -> 0 .. MaxCount] /\ exec' \in [Callers -> [Region -> 0 .. 1]]
        /\ group' \in [Region -> Callers \cup {None}] /\ k' \in 0 .. MaxTasks
        /\ job' \in Payload /\ doneCount' \in 0 .. MaxTasks - 1
    BY <2>2 DEF TypeOK
  <2>6. override' \in Nat /\ busy' \in {0, 1} /\ ioState' \in 0 .. 3
    BY <2>2 DEF TypeOK
  <2>7. /\ workerCount' \in 0 .. MaxTasks - 1 /\ readyCount' \in 0 .. MaxTasks - 1
        /\ exitedCount' \in 0 .. MaxTasks - 1 /\ poolState' \in 0 .. 3
    BY <2>2, <2>3
  <2>8. shutdownRequested' \in BOOLEAN
    BY <2>2
  <2> QED BY <1>1, <2>1, <2>4, <2>5, <2>6, <2>7, <2>8 DEF TypeOK, Stages
<1>3. PoolInv'
  BY <1>0, <1>1 DEF TypeOK, PoolInv, PoolUp, Join, Awaiting, Stopping,
     PersistentStage
<1>4. WorkerInv'
  <2>1. phase' = "stopIo" /\ poolState' = 0 BY <1>0, <1>1 DEF Join
  <2> QED BY <2>1, <1>a DEF WorkerInv, WorkerOK, PoolUp, Awaiting
<1>5. CountInv'
  BY <1>0, <1>1 DEF TypeOK, PoolInv, WorkerInv, WorkerOK, PoolUp, CountInv, Join,
     Awaiting, Stopping, PersistentStage, Quiet, Published, Stopped, Rest
<1>6. JobInv'
  BY <1>0, <1>1 DEF TypeOK, JobInv, Join, PersistentStage, Published, Region
<1>7. GroupInv'
  BY <1>0, <1>1 DEF TypeOK, GroupInv, Join, GroupStage, Region
<1>8. ExecInv'
  BY <1>0, <1>1 DEF TypeOK, ExecInv, Join, HoldStage, FreeStage, PersistentStage,
     GroupStage, StartStage, IoStage, StopStage
<1> QED BY <1>1, <1>2, <1>3, <1>4, <1>5, <1>6, <1>7, <1>8

\* io_threaded is gone only when nothing runs on it.
LEMMA shutdownIoThreadedLockedSafe ==
  ASSUME IndInv, NEW c \in Callers, shutdownIoThreadedLocked(c)
  PROVE  IndInv'
<1> USE DEF IndInv
<1>0. PICK from \in HoldStage, to \in HoldStage :
         /\ Goto(c, from, to)
         /\ from = "stopIo" /\ to = "unlock"
  BY DEF shutdownIoThreadedLocked, HoldStage, FreeStage, PersistentStage, GroupStage, StartStage, IoStage, StopStage
<1>1. /\ holder = c /\ phase = from /\ holder' = c /\ phase' = to /\ GateInv'
      /\ pc' \in [Callers -> Stages] /\ pc[c] = from /\ pc'[c] = to
      /\ \A d \in Callers \ {c} : pc'[d] = pc[d] /\ pc[d] \notin HoldStage
  BY <1>0, HolderMoves DEF shutdownIoThreadedLocked
<1>2. TypeOK'
  BY <1>0, <1>1 DEF TypeOK, shutdownIoThreadedLocked, Stages, Worker
<1>3. PoolInv'
  BY <1>0, <1>1 DEF TypeOK, PoolInv, PoolUp, shutdownIoThreadedLocked, Awaiting,
     Stopping, PersistentStage
<1>4. WorkerInv'
  BY <1>0, <1>1 DEF TypeOK, PoolInv, WorkerInv, WorkerOK, PoolUp,
     shutdownIoThreadedLocked, Awaiting, Stopping, PersistentStage, Quiet,
     Leaving, Helping, Starting, Published, Stopped, taskIndex, Rest, Worker
<1>5. CountInv'
  BY <1>0, <1>1 DEF TypeOK, PoolInv, WorkerInv, WorkerOK, PoolUp, CountInv,
     shutdownIoThreadedLocked, Awaiting, Stopping, PersistentStage, Quiet,
     Published, Stopped, Rest
<1>6. JobInv'
  BY <1>0, <1>1 DEF TypeOK, JobInv, shutdownIoThreadedLocked, PersistentStage,
     Published, Region
<1>7. GroupInv'
  BY <1>0, <1>1 DEF TypeOK, GroupInv, shutdownIoThreadedLocked, GroupStage,
     Region
<1>8. ExecInv'
  BY <1>0, <1>1 DEF TypeOK, ExecInv, shutdownIoThreadedLocked, HoldStage,
     FreeStage, PersistentStage, GroupStage, StartStage, IoStage, StopStage
<1> QED BY <1>1, <1>2, <1>3, <1>4, <1>5, <1>6, <1>7, <1>8

\* New workers boot with all counters reset.
LEMMA StartWorkersSafe ==
  ASSUME IndInv, NEW c \in Callers, NEW m \in 0 .. configuredHelperCount, StartWorkers(c, m)
  PROVE  IndInv'
<1> USE DEF IndInv
<1>0. PICK from \in HoldStage, to \in HoldStage :
         /\ Goto(c, from, to)
         /\ from = "initPool" /\ to = IF m = 0 THEN "ensureIo" ELSE "awaitReady"
  BY DEF StartWorkers, HoldStage, FreeStage, PersistentStage, GroupStage, StartStage, IoStage, StopStage
<1>1. /\ holder = c /\ phase = from /\ holder' = c /\ phase' = to /\ GateInv'
      /\ pc' \in [Callers -> Stages] /\ pc[c] = from /\ pc'[c] = to
      /\ \A d \in Callers \ {c} : pc'[d] = pc[d] /\ pc[d] \notin HoldStage
  BY <1>0, HolderMoves DEF StartWorkers
<1>a. m \in 0 .. MaxTasks - 1
  BY HelperCap DEF TypeOK
<1>b. /\ poolState = 1 /\ ~PoolUp /\ \A w \in Worker : wpc[w] = "none"
  BY <1>0, <1>1 DEF PoolInv, PoolUp, WorkerInv, WorkerOK, Awaiting
<1>c. \A w \in Worker : wpc'[w] = IF w < m THEN "boot" ELSE "none"
  BY <1>b DEF StartWorkers
<1>2. TypeOK'
  <2>1. wpc' \in [Worker -> WorkerStage]
    BY <1>b, <1>c DEF StartWorkers, WorkerStage
  <2>2. /\ poolState' \in 0 .. 3 /\ workerCount' \in 0 .. MaxTasks - 1
        /\ readyCount' \in 0 .. MaxTasks - 1 /\ exitedCount' \in 0 .. MaxTasks - 1
    BY <1>a DEF StartWorkers, TypeOK
  <2>3. shutdownRequested' \in BOOLEAN BY DEF StartWorkers
  <2>4. UNCHANGED <<gateVars, ioVars, jobVars, callVars, generation, waiting, seen, local>>
    BY DEF StartWorkers
  <2> QED BY <1>1, <2>1, <2>2, <2>3, <2>4 DEF TypeOK, Stages
<1>3. PoolInv'
  BY <1>0, <1>1, <1>a, <1>b DEF PoolInv, PoolUp, StartWorkers, Awaiting, Stopping, PersistentStage
<1>4. WorkerInv'
  BY <1>0, <1>1, <1>a, <1>b, <1>c DEF WorkerInv, WorkerOK, StartWorkers, PoolUp, Awaiting, Starting, Worker
<1>5. CountInv'
  <2>1. {w \in Worker : wpc'[w] \in Rest} = {} BY <1>c DEF Rest
  <2>2. readyCount' = 0 BY DEF StartWorkers
  <2> QED
    BY <1>0, <1>1, <2>1, <2>2, FS_EmptySet DEF CountInv, Awaiting, PersistentStage, Stopping
<1>6. JobInv'
  BY <1>0, <1>1 DEF TypeOK, JobInv, StartWorkers, PersistentStage, Published,
     Region
<1>7. GroupInv'
  BY <1>0, <1>1 DEF TypeOK, GroupInv, StartWorkers, GroupStage, Region
<1>8. ExecInv'
  BY <1>0, <1>1 DEF TypeOK, ExecInv, StartWorkers, HoldStage, FreeStage,
     PersistentStage, GroupStage, StartStage, IoStage, StopStage
<1> QED BY <1>1, <1>2, <1>3, <1>4, <1>5, <1>6, <1>7, <1>8

\* The payload is written while every worker is quiet.
LEMMA PlanSafe ==
  ASSUME IndInv, NEW c \in Callers, Plan(c)
  PROVE  IndInv'
<1> USE DEF IndInv
<1>0. PICK from \in HoldStage, to \in HoldStage :
         /\ Goto(c, from, to)
         /\ from = "plan" /\ to = "publish"
  BY DEF Plan, HoldStage, FreeStage, PersistentStage, GroupStage, StartStage, IoStage, StopStage
<1>1. /\ holder = c /\ phase = from /\ holder' = c /\ phase' = to /\ GateInv'
      /\ pc' \in [Callers -> Stages] /\ pc[c] = from /\ pc'[c] = to
      /\ \A d \in Callers \ {c} : pc'[d] = pc[d] /\ pc[d] \notin HoldStage
  BY <1>0, HolderMoves DEF Plan
<1>a. /\ size[c] \in 2 .. MaxCount /\ exec[c] = NoWrites
  BY <1>0, <1>1 DEF ExecInv, StopStage, PersistentStage, GroupStage, TypeOK
<1>b. /\ workerCount \in 1 .. MaxTasks - 1 /\ workerCount >= size[c] - 1 /\ poolState = 2
      /\ \A w \in Worker : wpc[w] = "none" \/ Quiet(w)
  BY <1>0, <1>1 DEF Plan, PoolInv, PoolUp, TypeOK, WorkerInv, WorkerOK, Awaiting, PersistentStage, Stopping
<1>c. /\ job' = [owner |-> c, count |-> size[c], first |-> firstHelper(size[c], size[c] - 1),
                 active |-> size[c] - 1]
      /\ doneCount' = 0 /\ k' = 0
      /\ UNCHANGED <<gateVars, lifeVars, ioVars, helperVars, size, exec>>
  BY DEF Plan
<1>d. /\ job'.first \in {0, 2} /\ job'.first + job'.active <= workerCount
      /\ job'.owner = c /\ job'.count = size[c] /\ job'.active = size[c] - 1
  <2>1. /\ firstHelper(size[c], size[c] - 1) \in {0, 2}
        /\ firstHelper(size[c], size[c] - 1) + (size[c] - 1) <= workerCount
    BY <1>a, <1>b DEF firstHelper
  <2> QED BY <2>1, <1>c
<1>e. Published' = {}
  <2>1. Published' = job'.first .. job'.first + k' - 1 BY <1>0, <1>1 DEF Published
  <2> QED BY <2>1, <1>c, <1>d
<1>2. TypeOK'
  <2>1. job' \in Payload
    BY <1>a, <1>b, <1>c, <1>d DEF Payload
  <2>2. doneCount' \in 0 .. MaxTasks - 1 /\ k' \in 0 .. MaxTasks BY <1>c
  <2> QED BY <1>1, <1>c, <2>1, <2>2 DEF TypeOK, Stages
<1>3. PoolInv'
  BY <1>0, <1>1, <1>b, <1>c DEF PoolInv, PoolUp, Awaiting, Stopping, PersistentStage
<1>4. WorkerInv'
  BY <1>0, <1>1, <1>b, <1>c, <1>e DEF WorkerInv, WorkerOK, PoolUp, Awaiting, Stopping, PersistentStage,
     Quiet
<1>5. CountInv'
  <2>1. {w \in Worker : w \in Published' /\ Quiet(w)'} = {} BY <1>e
  <2> QED
    BY <1>0, <1>1, <1>c, <2>1, FS_EmptySet DEF CountInv, Awaiting, PersistentStage, Stopping
<1>6. JobInv'
  <2>1. \A i \in Region : exec'[c][i] = 0 BY <1>a, <1>c DEF NoWrites
  <2>2. job'.active >= 1 /\ k' \in 0 .. job'.active - 1 /\ job'.first + job'.active <= workerCount'
    BY <1>a, <1>c, <1>d
  <2>3. job'.owner = holder' /\ job'.count = size'[holder'] /\ job'.active = size'[holder'] - 1
    BY <1>1, <1>c, <1>d
  <2> QED BY <2>1, <2>2, <2>3, <1>0, <1>1 DEF JobInv, PersistentStage
<1>7. GroupInv'
  BY <1>0, <1>1, <1>c DEF GroupInv, GroupStage
<1>8. ExecInv'
  BY <1>0, <1>1, <1>a, <1>c DEF ExecInv, HoldStage, FreeStage, PersistentStage, GroupStage, StartStage, IoStage, StopStage
<1> QED BY <1>1, <1>2, <1>3, <1>4, <1>5, <1>6, <1>7, <1>8

\* Entering the runtime touches nothing but io_busy.
LEMMA AdmitSafe ==
  ASSUME IndInv, NEW c \in Callers, Admit(c)
  PROVE  IndInv'
<1> USE DEF IndInv
<1>0. PICK from \in FreeStage, to \in HoldStage :
         /\ Goto(c, from, to)
         /\ \/ from = "run" /\ to = "ensureIo"
            \/ from = "runLowLatency" /\ to = "ensurePool"
  BY DEF Admit, HoldStage, FreeStage, PersistentStage, GroupStage, StartStage, IoStage, StopStage
<1>1. /\ phase = "free" /\ holder' = c /\ phase' = to /\ GateInv'
      /\ pc' \in [Callers -> Stages] /\ pc[c] = from /\ pc'[c] = to
      /\ \A d \in Callers : pc[d] \notin HoldStage
      /\ \A d \in Callers \ {c} : pc'[d] = pc[d]
  BY <1>0, HolderArrives DEF Admit, gateOpen
<1>a. UNCHANGED <<callVars, runtimeVars, override>>
  BY DEF Admit
<1>2. TypeOK'
  BY <1>1, <1>a DEF TypeOK, Admit, Stages
<1>3. PoolInv'
  BY <1>0, <1>1, <1>a DEF PoolInv, PoolUp, Awaiting, Stopping, PersistentStage
<1>4. WorkerInv'
  BY <1>0, <1>1, <1>a DEF WorkerInv, WorkerOK, PoolUp, Awaiting, Stopping, PersistentStage, Quiet
<1>5. CountInv'
  BY <1>0, <1>1, <1>a DEF CountInv, Awaiting, Stopping, PersistentStage
<1>6. JobInv'
  BY <1>0, <1>1, <1>a DEF JobInv, PersistentStage
<1>7. GroupInv'
  BY <1>0, <1>1, <1>a DEF GroupInv, GroupStage
<1>8. ExecInv'
  BY <1>0, <1>1, <1>a DEF TypeOK, ExecInv, Admit, HoldStage, FreeStage, PersistentStage, GroupStage, StartStage, IoStage, StopStage
<1> QED BY <1>1, <1>2, <1>3, <1>4, <1>5, <1>6, <1>7, <1>8

\* Entering shutdown touches nothing but io_busy.
LEMMA ShutdownLockSafe ==
  ASSUME IndInv, NEW c \in Callers, ShutdownLock(c)
  PROVE  IndInv'
<1> USE DEF IndInv
<1>0. PICK from \in FreeStage, to \in HoldStage :
         /\ Goto(c, from, to)
         /\ from = "idle" /\ to = "stopPool"
  BY DEF ShutdownLock, HoldStage, FreeStage, PersistentStage, GroupStage, StartStage, IoStage, StopStage
<1>1. /\ phase = "free" /\ holder' = c /\ phase' = to /\ GateInv'
      /\ pc' \in [Callers -> Stages] /\ pc[c] = from /\ pc'[c] = to
      /\ \A d \in Callers : pc[d] \notin HoldStage
      /\ \A d \in Callers \ {c} : pc'[d] = pc[d]
  BY <1>0, HolderArrives DEF ShutdownLock, gateOpen
<1>a. UNCHANGED <<callVars, runtimeVars, override>>
  BY DEF ShutdownLock
<1>2. TypeOK'
  BY <1>1, <1>a DEF TypeOK, ShutdownLock, Stages
<1>3. PoolInv'
  BY <1>0, <1>1, <1>a DEF PoolInv, PoolUp, Awaiting, Stopping, PersistentStage
<1>4. WorkerInv'
  BY <1>0, <1>1, <1>a DEF WorkerInv, WorkerOK, PoolUp, Awaiting, Stopping, PersistentStage, Quiet
<1>5. CountInv'
  BY <1>0, <1>1, <1>a DEF CountInv, Awaiting, Stopping, PersistentStage
<1>6. JobInv'
  BY <1>0, <1>1, <1>a DEF JobInv, PersistentStage
<1>7. GroupInv'
  BY <1>0, <1>1, <1>a DEF GroupInv, GroupStage
<1>8. ExecInv'
  BY <1>0, <1>1, <1>a DEF TypeOK, ExecInv, ShutdownLock, HoldStage, FreeStage, PersistentStage, GroupStage, StartStage, IoStage, StopStage
<1> QED BY <1>1, <1>2, <1>3, <1>4, <1>5, <1>6, <1>7, <1>8

\* The answer is decided before io_busy is given back.
LEMMA ReleaseSafe ==
  ASSUME IndInv, NEW c \in Callers, Release(c)
  PROVE  IndInv'
<1> USE DEF IndInv
<1>0. PICK from \in HoldStage, to \in FreeStage :
         /\ Goto(c, from, to)
         /\ \/ from = "true" /\ to = "accepted"
            \/ from = "false" /\ to = "refused"
  BY DEF Release, HoldStage, FreeStage, PersistentStage, GroupStage, StartStage, IoStage, StopStage
<1>1. /\ holder = c /\ phase = from /\ phase' = "free" /\ GateInv'
      /\ pc' \in [Callers -> Stages] /\ pc[c] = from /\ pc'[c] = to
      /\ \A d \in Callers : pc'[d] \notin HoldStage
      /\ \A d \in Callers \ {c} : pc'[d] = pc[d] /\ pc[d] \notin HoldStage
  BY <1>0, HolderDeparts DEF Release
<1>a. UNCHANGED <<callVars, runtimeVars, override>>
  BY DEF Release
<1>2. TypeOK'
  BY <1>1, <1>a DEF TypeOK, Release, Stages
<1>3. PoolInv'
  BY <1>0, <1>1, <1>a DEF PoolInv, PoolUp, Awaiting, Stopping, PersistentStage
<1>4. WorkerInv'
  BY <1>0, <1>1, <1>a DEF WorkerInv, WorkerOK, PoolUp, Awaiting, Stopping, PersistentStage, Quiet
<1>5. CountInv'
  BY <1>0, <1>1, <1>a DEF CountInv, Awaiting, Stopping, PersistentStage
<1>6. JobInv'
  BY <1>0, <1>1, <1>a DEF JobInv, PersistentStage
<1>7. GroupInv'
  BY <1>0, <1>1, <1>a DEF GroupInv, GroupStage
<1>8. ExecInv'
  BY <1>0, <1>1, <1>a DEF TypeOK, ExecInv, Release, HoldStage, FreeStage, PersistentStage, GroupStage, StartStage, IoStage, StopStage
<1> QED BY <1>1, <1>2, <1>3, <1>4, <1>5, <1>6, <1>7, <1>8

\* shutdown gives io_busy back with the pools stopped.
LEMMA ShutdownUnlockSafe ==
  ASSUME IndInv, NEW c \in Callers, ShutdownUnlock(c)
  PROVE  IndInv'
<1> USE DEF IndInv
<1>0. PICK from \in HoldStage, to \in FreeStage :
         /\ Goto(c, from, to)
         /\ from = "unlock" /\ to = "idle"
  BY DEF ShutdownUnlock, HoldStage, FreeStage, PersistentStage, GroupStage, StartStage, IoStage, StopStage
<1>1. /\ holder = c /\ phase = from /\ phase' = "free" /\ GateInv'
      /\ pc' \in [Callers -> Stages] /\ pc[c] = from /\ pc'[c] = to
      /\ \A d \in Callers : pc'[d] \notin HoldStage
      /\ \A d \in Callers \ {c} : pc'[d] = pc[d] /\ pc[d] \notin HoldStage
  BY <1>0, HolderDeparts DEF ShutdownUnlock
<1>a. UNCHANGED <<callVars, runtimeVars, override>>
  BY DEF ShutdownUnlock
<1>2. TypeOK'
  BY <1>1, <1>a DEF TypeOK, ShutdownUnlock, Stages
<1>3. PoolInv'
  BY <1>0, <1>1, <1>a DEF PoolInv, PoolUp, Awaiting, Stopping, PersistentStage
<1>4. WorkerInv'
  BY <1>0, <1>1, <1>a DEF WorkerInv, WorkerOK, PoolUp, Awaiting, Stopping, PersistentStage, Quiet
<1>5. CountInv'
  BY <1>0, <1>1, <1>a DEF CountInv, Awaiting, Stopping, PersistentStage
<1>6. JobInv'
  BY <1>0, <1>1, <1>a DEF JobInv, PersistentStage
<1>7. GroupInv'
  BY <1>0, <1>1, <1>a DEF GroupInv, GroupStage
<1>8. ExecInv'
  BY <1>0, <1>1, <1>a DEF TypeOK, ExecInv, ShutdownUnlock, HoldStage, FreeStage, PersistentStage, GroupStage, StartStage, IoStage, StopStage
<1> QED BY <1>1, <1>2, <1>3, <1>4, <1>5, <1>6, <1>7, <1>8

\* A new call starts with nothing written.
LEMMA CallSafe ==
  ASSUME IndInv, NEW c \in Callers, NEW entry \in Entries, NEW m \in Counts, Call(c, entry, m)
  PROVE  IndInv'
<1> USE DEF IndInv
<1>0. PICK from \in FreeStage, to \in FreeStage :
         /\ Goto(c, from, to)
         /\ from = "idle" /\ to = entry /\ to \in {"run", "runLowLatency"}
  BY DEF Call, HoldStage, FreeStage, PersistentStage, GroupStage, StartStage, IoStage, StopStage
<1>1. /\ phase' = phase /\ GateInv'
      /\ phase # "free" => holder \in Callers \ {c} /\ holder' = holder
      /\ pc' \in [Callers -> Stages] /\ pc[c] = from /\ pc'[c] = to
      /\ \A d \in Callers \ {c} : pc'[d] = pc[d]
  BY <1>0, BystanderMoves DEF Call
<1>a. UNCHANGED <<gateVars, runtimeVars, exec, k>>
  BY DEF Call
<1>b. /\ phase \in PersistentStage \cup GroupStage \cup StopStage => phase # "free"
      /\ phase # "free" => exec'[holder] = exec[holder] /\ size'[holder] = size[holder]
  BY <1>1, <1>a DEF Call, TypeOK, PersistentStage, GroupStage, StopStage
<1>2. TypeOK'
  BY <1>1, <1>a DEF TypeOK, Call, Stages
<1>3. PoolInv'
  BY <1>1, <1>a DEF PoolInv, PoolUp, Awaiting, Stopping, PersistentStage
<1>4. WorkerInv'
  <2>1. ASSUME NEW w \in Worker, phase \in PersistentStage, Helping(w) PROVE Helping(w)'
    BY <2>1, <1>1, <1>a, <1>b DEF Helping, taskIndex
  <2> QED
    BY <2>1, <1>1, <1>a DEF WorkerInv, WorkerOK, PoolUp, Awaiting, Starting, Leaving, Quiet, Published, Stopped
<1>5. CountInv'
  BY <1>1, <1>a DEF CountInv, Quiet, Published
<1>6. JobInv'
  BY <1>1, <1>a, <1>b DEF JobInv, Published
<1>7. GroupInv'
  BY <1>1, <1>a, <1>b DEF GroupInv
<1>8. ExecInv'
  <2>1. phase' \notin StopStage \cup {"free"} => size'[holder'] >= 2
    BY <1>1, <1>b DEF ExecInv
  <2>2. ASSUME NEW d \in Callers, d # c
        PROVE  pc'[d] = pc[d] /\ exec'[d] = exec[d] /\ size'[d] = size[d]
    BY <2>2, <1>1, <1>a DEF Call, TypeOK
  <2>3. IF pc'[c] \in {"true", "accepted", "settled"} THEN exec'[c] = WrittenOnce(size'[c])
        ELSE pc'[c] \in PersistentStage \cup GroupStage \/ exec'[c] = NoWrites
    BY <1>0, <1>1, <1>a DEF Call, TypeOK, ExecInv, PersistentStage, GroupStage
  <2> QED BY <2>1, <2>2, <2>3 DEF ExecInv
<1> QED BY <1>1, <1>2, <1>3, <1>4, <1>5, <1>6, <1>7, <1>8

\* A refused call leaves the holder alone.
LEMMA RefuseSafe ==
  ASSUME IndInv, NEW c \in Callers, Refuse(c)
  PROVE  IndInv'
<1> USE DEF IndInv
<1>0. PICK from \in FreeStage, to \in FreeStage :
         /\ Goto(c, from, to)
         /\ from \in {"run", "runLowLatency"} /\ to = "refused"
  BY DEF Refuse, HoldStage, FreeStage, PersistentStage, GroupStage, StartStage, IoStage, StopStage
<1>1. /\ phase' = phase /\ GateInv'
      /\ phase # "free" => holder \in Callers \ {c} /\ holder' = holder
      /\ pc' \in [Callers -> Stages] /\ pc[c] = from /\ pc'[c] = to
      /\ \A d \in Callers \ {c} : pc'[d] = pc[d]
  BY <1>0, BystanderMoves DEF Refuse
<1>a. UNCHANGED <<helperVars, jobVars, outside>>
  BY DEF Refuse
<1>b. /\ phase \in PersistentStage \cup GroupStage \cup StopStage => phase # "free"
      /\ phase # "free" => exec'[holder] = exec[holder] /\ size'[holder] = size[holder]
  BY <1>1, <1>a DEF Refuse, TypeOK, PersistentStage, GroupStage, StopStage
<1>2. TypeOK'
  BY <1>1, <1>a DEF TypeOK, Refuse, Stages
<1>3. PoolInv'
  BY <1>1, <1>a DEF PoolInv, PoolUp, Awaiting, Stopping, PersistentStage
<1>4. WorkerInv'
  <2>1. ASSUME NEW w \in Worker, phase \in PersistentStage, Helping(w) PROVE Helping(w)'
    BY <2>1, <1>1, <1>a, <1>b DEF Helping, taskIndex
  <2> QED
    BY <2>1, <1>1, <1>a DEF WorkerInv, WorkerOK, PoolUp, Awaiting, Starting, Leaving, Quiet, Published, Stopped
<1>5. CountInv'
  BY <1>1, <1>a DEF CountInv, Quiet, Published
<1>6. JobInv'
  BY <1>1, <1>a, <1>b DEF JobInv, Published
<1>7. GroupInv'
  BY <1>1, <1>a, <1>b DEF GroupInv
<1>8. ExecInv'
  <2>1. phase' \notin StopStage \cup {"free"} => size'[holder'] >= 2
    BY <1>1, <1>b DEF ExecInv
  <2>2. ASSUME NEW d \in Callers, d # c
        PROVE  pc'[d] = pc[d] /\ exec'[d] = exec[d] /\ size'[d] = size[d]
    BY <2>2, <1>1, <1>a DEF Refuse, TypeOK
  <2>3. IF pc'[c] \in {"true", "accepted", "settled"} THEN exec'[c] = WrittenOnce(size'[c])
        ELSE pc'[c] \in PersistentStage \cup GroupStage \/ exec'[c] = NoWrites
    BY <1>0, <1>1, <1>a DEF Refuse, TypeOK, ExecInv, PersistentStage, GroupStage
  <2> QED BY <2>1, <2>2, <2>3 DEF ExecInv
<1> QED BY <1>1, <1>2, <1>3, <1>4, <1>5, <1>6, <1>7, <1>8

\* The fallback writes each region of its own call once.
LEMMA FallbackSafe ==
  ASSUME IndInv, NEW c \in Callers, Fallback(c)
  PROVE  IndInv'
<1> USE DEF IndInv
<1>0. PICK from \in FreeStage, to \in FreeStage :
         /\ Goto(c, from, to)
         /\ from = "refused" /\ to = "settled"
  BY DEF Fallback, HoldStage, FreeStage, PersistentStage, GroupStage, StartStage, IoStage, StopStage
<1>1. /\ phase' = phase /\ GateInv'
      /\ phase # "free" => holder \in Callers \ {c} /\ holder' = holder
      /\ pc' \in [Callers -> Stages] /\ pc[c] = from /\ pc'[c] = to
      /\ \A d \in Callers \ {c} : pc'[d] = pc[d]
  BY <1>0, BystanderMoves DEF Fallback
<1>a. UNCHANGED <<gateVars, runtimeVars, size, k>>
  BY DEF Fallback
<1>b. /\ phase \in PersistentStage \cup GroupStage \cup StopStage => phase # "free"
      /\ phase # "free" => exec'[holder] = exec[holder] /\ size'[holder] = size[holder]
  BY <1>1, <1>a DEF Fallback, TypeOK, PersistentStage, GroupStage, StopStage
<1>2. TypeOK'
  <2>1. exec' \in [Callers -> [Region -> 0 .. 1]]
    BY DEF TypeOK, Fallback, WrittenOnce, NoWrites
  <2> QED BY <1>1, <1>a, <2>1 DEF TypeOK, Fallback, Stages
<1>3. PoolInv'
  BY <1>1, <1>a DEF PoolInv, PoolUp, Awaiting, Stopping, PersistentStage
<1>4. WorkerInv'
  <2>1. ASSUME NEW w \in Worker, phase \in PersistentStage, Helping(w) PROVE Helping(w)'
    BY <2>1, <1>1, <1>a, <1>b DEF Helping, taskIndex
  <2> QED
    BY <2>1, <1>1, <1>a DEF WorkerInv, WorkerOK, PoolUp, Awaiting, Starting, Leaving, Quiet, Published, Stopped
<1>5. CountInv'
  BY <1>1, <1>a DEF CountInv, Quiet, Published
<1>6. JobInv'
  BY <1>1, <1>a, <1>b DEF JobInv, Published
<1>7. GroupInv'
  BY <1>1, <1>a, <1>b DEF GroupInv
<1>8. ExecInv'
  <2>1. phase' \notin StopStage \cup {"free"} => size'[holder'] >= 2
    BY <1>1, <1>b DEF ExecInv
  <2>2. ASSUME NEW d \in Callers, d # c
        PROVE  pc'[d] = pc[d] /\ exec'[d] = exec[d] /\ size'[d] = size[d]
    BY <2>2, <1>1, <1>a DEF Fallback, TypeOK
  <2>3. IF pc'[c] \in {"true", "accepted", "settled"} THEN exec'[c] = WrittenOnce(size'[c])
        ELSE pc'[c] \in PersistentStage \cup GroupStage \/ exec'[c] = NoWrites
    BY <1>0, <1>1, <1>a DEF Fallback, TypeOK, ExecInv, PersistentStage, GroupStage
  <2> QED BY <2>1, <2>2, <2>3 DEF ExecInv
<1> QED BY <1>1, <1>2, <1>3, <1>4, <1>5, <1>6, <1>7, <1>8

\* Returning forgets only the call's own state.
LEMMA LeaveSafe ==
  ASSUME IndInv, NEW c \in Callers, Leave(c)
  PROVE  IndInv'
<1> USE DEF IndInv
<1>0. PICK from \in FreeStage, to \in FreeStage :
         /\ Goto(c, from, to)
         /\ from \in {"accepted", "settled"} /\ to = "idle"
  BY DEF Leave, HoldStage, FreeStage, PersistentStage, GroupStage, StartStage, IoStage, StopStage
<1>1. /\ phase' = phase /\ GateInv'
      /\ phase # "free" => holder \in Callers \ {c} /\ holder' = holder
      /\ pc' \in [Callers -> Stages] /\ pc[c] = from /\ pc'[c] = to
      /\ \A d \in Callers \ {c} : pc'[d] = pc[d]
  BY <1>0, BystanderMoves DEF Leave
<1>a. UNCHANGED <<gateVars, runtimeVars, k>>
  BY DEF Leave
<1>b. /\ phase \in PersistentStage \cup GroupStage \cup StopStage => phase # "free"
      /\ phase # "free" => exec'[holder] = exec[holder] /\ size'[holder] = size[holder]
  BY <1>1, <1>a DEF Leave, TypeOK, PersistentStage, GroupStage, StopStage
<1>2. TypeOK'
  <2>1. exec' \in [Callers -> [Region -> 0 .. 1]]
    BY DEF TypeOK, Leave, WrittenOnce, NoWrites
  <2> QED BY <1>1, <1>a, <2>1 DEF TypeOK, Leave, Stages
<1>3. PoolInv'
  BY <1>1, <1>a DEF PoolInv, PoolUp, Awaiting, Stopping, PersistentStage
<1>4. WorkerInv'
  <2>1. ASSUME NEW w \in Worker, phase \in PersistentStage, Helping(w) PROVE Helping(w)'
    BY <2>1, <1>1, <1>a, <1>b DEF Helping, taskIndex
  <2> QED
    BY <2>1, <1>1, <1>a DEF WorkerInv, WorkerOK, PoolUp, Awaiting, Starting, Leaving, Quiet, Published, Stopped
<1>5. CountInv'
  BY <1>1, <1>a DEF CountInv, Quiet, Published
<1>6. JobInv'
  BY <1>1, <1>a, <1>b DEF JobInv, Published
<1>7. GroupInv'
  BY <1>1, <1>a, <1>b DEF GroupInv
<1>8. ExecInv'
  <2>1. phase' \notin StopStage \cup {"free"} => size'[holder'] >= 2
    BY <1>1, <1>b DEF ExecInv
  <2>2. ASSUME NEW d \in Callers, d # c
        PROVE  pc'[d] = pc[d] /\ exec'[d] = exec[d] /\ size'[d] = size[d]
    BY <2>2, <1>1, <1>a DEF Leave, TypeOK
  <2>3. IF pc'[c] \in {"true", "accepted", "settled"} THEN exec'[c] = WrittenOnce(size'[c])
        ELSE pc'[c] \in PersistentStage \cup GroupStage \/ exec'[c] = NoWrites
    BY <1>0, <1>1, <1>a DEF Leave, TypeOK, ExecInv, PersistentStage, GroupStage
  <2> QED BY <2>1, <2>2, <2>3 DEF ExecInv
<1> QED BY <1>1, <1>2, <1>3, <1>4, <1>5, <1>6, <1>7, <1>8

\* Changing the limit at any time is harmless.
LEMMA setMaxThreadsSafe ==
  ASSUME IndInv, NEW v \in Overrides, setMaxThreads(v)
  PROVE  IndInv'
<1> USE DEF IndInv
<1>1. /\ holder' = holder /\ phase' = phase /\ GateInv' /\ pc' = pc
  BY NobodyMoves DEF setMaxThreads
<1>a. UNCHANGED <<callVars, runtimeVars, busy, pc>>
  BY DEF setMaxThreads
<1>2. TypeOK'
  BY <1>1, <1>a DEF TypeOK, setMaxThreads
<1>3. PoolInv'
  BY <1>1, <1>a DEF PoolInv, PoolUp
<1>4. WorkerInv'
  <2>1. (PoolUp' <=> PoolUp) /\ Published' = Published /\ Stopped' = Stopped
    BY <1>1, <1>a DEF PoolUp, Published, Stopped
  <2> SUFFICES ASSUME NEW w \in Worker PROVE WorkerOK(w)'
    BY DEF WorkerInv
  <2>2. WorkerOK(w) BY DEF WorkerInv
  <2> QED
    BY <2>1, <2>2, <1>1, <1>a DEF WorkerOK, Quiet, Leaving, Helping, Starting, taskIndex
<1>5. CountInv'
  BY <1>1, <1>a DEF CountInv, Quiet, Published
<1>6. JobInv'
  BY <1>1, <1>a DEF JobInv, Published
<1>7. GroupInv'
  BY <1>1, <1>a DEF GroupInv
<1>8. ExecInv'
  BY <1>1, <1>a DEF ExecInv
<1> QED BY <1>1, <1>2, <1>3, <1>4, <1>5, <1>6, <1>7, <1>8

-----------------------------------------------------------------------------
(* The steps of workers and of io_threaded threads.                        *)
USE DEF gateVars, runtimeVars, lifeVars, ioVars, helperVars, jobVars, callVars, outside

\* A queued task runs once, while its caller waits.
LEMMA runIoTaskSafe ==
  ASSUME IndInv, NEW i \in Region, runIoTask(i)
  PROVE  IndInv'
<1> USE DEF IndInv
<1>1. /\ holder' = holder /\ phase' = phase /\ GateInv' /\ pc' = pc
  BY NobodyMoves DEF runIoTask
<1>a. UNCHANGED <<gateVars, lifeVars, helperVars, jobVars, ioState, pc, size, k>>
  BY DEF runIoTask
<1>b. /\ phase \in GroupStage /\ group[i] = holder /\ exec[holder][i] = 0 /\ i >= 1
      /\ i < (IF phase = "submit" THEN k ELSE size[holder]) /\ holder \in Callers
  BY HolderExists, PhaseNames DEF runIoTask, GroupInv, TypeOK
<1>c. /\ exec' \in [Callers -> [Region -> 0 .. 1]] /\ exec'[holder][i] = 1
      /\ \A j \in Region \ {i} : exec'[holder][j] = exec[holder][j]
      /\ \A d \in Callers \ {holder} : exec'[d] = exec[d]
  <2>1. exec' = [exec EXCEPT ![holder][i] = @ + 1] BY <1>b DEF runIoTask
  <2>2. holder \in Callers /\ i \in Region /\ exec[holder][i] = 0 BY <1>b
  <2> HIDE DEF IndInv
  <2>3. TypeOK BY DEF IndInv
  <2> QED BY <2>1, <2>2, <2>3, RunsOnce
<1>d. group' = [group EXCEPT ![i] = None]
  BY DEF runIoTask
<1>2. TypeOK'
  BY <1>1, <1>a, <1>c, <1>d DEF TypeOK
<1>3. PoolInv'
  BY <1>1, <1>a DEF PoolInv, PoolUp
<1>4. WorkerInv'
  <2>1. (PoolUp' <=> PoolUp) /\ Stopped' = Stopped BY <1>1, <1>a DEF PoolUp, Stopped
  <2> SUFFICES ASSUME NEW w \in Worker PROVE WorkerOK(w)'
    BY DEF WorkerInv
  <2>2. WorkerOK(w) BY DEF WorkerInv
  <2> QED
    BY <2>1, <2>2, <1>1, <1>a, <1>b, PhaseNames DEF WorkerOK, Quiet, Leaving, Starting
<1>5. CountInv'
  BY <1>1, <1>a DEF CountInv, Quiet, Published
<1>6. JobInv'
  BY <1>1, <1>b, PhaseNames DEF JobInv
<1>7. GroupInv'
  <2>1. group'[i] = None /\ \A j \in Region \ {i} : group'[j] = group[j]
    BY <1>d DEF TypeOK
  <2> QED BY <2>1, <1>1, <1>a, <1>b, <1>c DEF GroupInv
<1>8. ExecInv'
  <2>1. pc[holder] = phase BY <1>b, HolderExists, PhaseNames
  <2> QED BY <2>1, <1>1, <1>a, <1>b, <1>c, PhaseNames DEF ExecInv, GroupStage
<1> QED BY <1>1, <1>2, <1>3, <1>4, <1>5, <1>6, <1>7, <1>8

\* A booting worker takes the generation as it stands.
LEMMA WorkerBootSafe ==
  ASSUME IndInv, NEW w \in Worker, WorkerBoot(w)
  PROVE  IndInv'
<1> USE DEF IndInv
<1>1. /\ holder' = holder /\ phase' = phase /\ GateInv' /\ pc' = pc
  BY NobodyMoves DEF WorkerBoot
<1>a. UNCHANGED <<jobVars, outside, generation, waiting, local>>
  BY DEF WorkerBoot
<1>b. PoolUp /\ ~(w >= workerCount) /\ phase \in Awaiting /\ Starting(w)' /\ ~Quiet(w) /\ ~Quiet(w)'
      /\ wpc[w] = "boot" /\ wpc'[w] = "announce"
  BY WorkerCase DEF WorkerBoot, WorkerGoto, TypeOK, Starting, Helping, Leaving, Quiet, Rest, bootSeen
<1>w. /\ wpc' \in [Worker -> WorkerStage] /\ wpc'[w] = "announce"
      /\ \A v \in Worker \ {w} : wpc'[v] = wpc[v] /\ seen'[v] = seen[v] /\ local'[v] = local[v]
  BY DEF WorkerBoot, WorkerGoto, TypeOK, WorkerStage
<1>2. TypeOK'
  BY <1>1, <1>a, <1>w DEF TypeOK, WorkerBoot, bootSeen
<1>3. PoolInv'
  BY <1>1, <1>a DEF PoolInv, PoolUp
<1>4. WorkerInv'
  <2>1. /\ (PoolUp' <=> PoolUp) /\ Published' = Published /\ Stopped' = Stopped
        /\ UNCHANGED <<workerCount, job, generation, exec>>
    BY <1>1, <1>a DEF PoolUp, Published, Stopped
  <2>2. WorkerOK(w)'
    BY <2>1, <1>1, <1>b, <1>w, PhaseNames DEF WorkerOK
  <2> QED BY <2>1, <2>2, <1>1, <1>w, OthersKeep
<1>5. CountInv'
  <2>1. /\ \A v \in Worker : Quiet(v)' <=> Quiet(v)
        /\ \A v \in Worker : wpc'[v] \in Rest <=> wpc[v] \in Rest
        /\ \A v \in Worker : wpc'[v] \in {"exitWake", "finished"} <=> wpc[v] \in {"exitWake", "finished"}
    BY <1>a, <1>b, <1>w DEF Quiet, Rest
  <2> QED BY <2>1, <1>1, <1>a DEF CountInv, Published
<1>6. JobInv'
  BY <1>1, <1>a DEF JobInv, Published
<1>7. GroupInv'
  BY <1>1, <1>a DEF GroupInv
<1>8. ExecInv'
  BY <1>1, <1>a DEF ExecInv
<1> QED BY <1>1, <1>2, <1>3, <1>4, <1>5, <1>6, <1>7, <1>8

\* A worker notices only a generation that was moved for it.
LEMMA WorkerNoticeSafe ==
  ASSUME IndInv, NEW w \in Worker, WorkerNotice(w)
  PROVE  IndInv'
<1> USE DEF IndInv
<1>1. /\ holder' = holder /\ phase' = phase /\ GateInv' /\ pc' = pc
  BY NobodyMoves DEF WorkerNotice
<1>a. UNCHANGED <<jobVars, outside, generation, local>>
  BY DEF WorkerNotice
<1>b. /\ PoolUp /\ ~(w >= workerCount) /\ ~Quiet(w) /\ ~Quiet(w)'
      /\ wpc[w] \in Rest /\ wpc'[w] = "dispatch" /\ seen'[w] = generation[w]
      /\ \/ phase \in PersistentStage /\ w \in Published /\ Helping(w)
         \/ phase \in Stopping /\ w \in Stopped
  BY WorkerCase DEF WorkerNotice, WorkerGoto, TypeOK, Starting, Leaving, Quiet, Rest
<1>c. Leaving(w)' /\ (Helping(w) => Helping(w)')
  BY <1>1, <1>a, <1>b DEF Helping, Leaving, taskIndex, Rest, WorkerNotice
<1>w. /\ wpc' \in [Worker -> WorkerStage] /\ wpc'[w] = "dispatch"
      /\ \A v \in Worker \ {w} : wpc'[v] = wpc[v] /\ seen'[v] = seen[v] /\ local'[v] = local[v]
  BY DEF WorkerNotice, WorkerGoto, TypeOK, WorkerStage
<1>2. TypeOK'
  BY <1>1, <1>a, <1>w DEF TypeOK, WorkerNotice
<1>3. PoolInv'
  BY <1>1, <1>a DEF PoolInv, PoolUp
<1>4. WorkerInv'
  <2>1. /\ (PoolUp' <=> PoolUp) /\ Published' = Published /\ Stopped' = Stopped
        /\ UNCHANGED <<workerCount, job, generation, exec>>
    BY <1>1, <1>a DEF PoolUp, Published, Stopped
  <2>2. WorkerOK(w)'
    BY <2>1, <1>1, <1>b, <1>c, <1>w, PhaseNames DEF WorkerOK
  <2> QED BY <2>1, <2>2, <1>1, <1>w, OthersKeep
<1>5. CountInv'
  <2>1. /\ phase \notin Awaiting /\ \A v \in Worker : Quiet(v)' <=> Quiet(v)
        /\ \A v \in Worker : wpc'[v] \in {"exitWake", "finished"} <=> wpc[v] \in {"exitWake", "finished"}
    BY <1>a, <1>b, <1>w, PhaseNames DEF Quiet, Rest
  <2> QED BY <2>1, <1>1, <1>a DEF CountInv, Published
<1>6. JobInv'
  BY <1>1, <1>a DEF JobInv, Published
<1>7. GroupInv'
  BY <1>1, <1>a DEF GroupInv
<1>8. ExecInv'
  BY <1>1, <1>a DEF ExecInv
<1> QED BY <1>1, <1>2, <1>3, <1>4, <1>5, <1>6, <1>7, <1>8

\* Parking is idle.
LEMMA WorkerParkSafe ==
  ASSUME IndInv, NEW w \in Worker, WorkerPark(w)
  PROVE  IndInv'
<1> USE DEF IndInv
<1>1. /\ holder' = holder /\ phase' = phase /\ GateInv' /\ pc' = pc
  BY NobodyMoves DEF WorkerPark
<1>a. UNCHANGED <<jobVars, outside, generation, seen, local>>
  BY DEF WorkerPark
<1>b. wpc[w] = "spin" /\ wpc'[w] = "park"
  BY DEF WorkerPark, WorkerGoto, TypeOK
<1>w. /\ wpc' \in [Worker -> WorkerStage] /\ wpc'[w] = "park"
      /\ \A v \in Worker \ {w} : wpc'[v] = wpc[v] /\ seen'[v] = seen[v] /\ local'[v] = local[v]
  BY DEF WorkerPark, WorkerGoto, TypeOK, WorkerStage
<1>2. TypeOK'
  BY <1>1, <1>a, <1>w DEF TypeOK, WorkerPark, WorkerStage
<1>3. PoolInv'
  BY <1>1, <1>a DEF PoolInv, PoolUp
<1>4. WorkerInv'
  <2>0. WorkerOK(w) BY DEF WorkerInv
  <2>1. WorkerOK(w)'
    <3>1. /\ Quiet(w) => Quiet(w)'
          /\ Starting(w) => Starting(w)'
          /\ Leaving(w) => Leaving(w)'
      BY <1>a, <1>b DEF Quiet, Starting, Leaving, Rest
    <3>2. Helping(w) => Helping(w)'
      BY <1>1, <1>a, <1>b DEF Helping, Rest, taskIndex
    <3>3. (PoolUp' <=> PoolUp) /\ Published' = Published /\ Stopped' = Stopped
      BY <1>1, <1>a DEF PoolUp, Published, Stopped
    <3>4. workerCount' = workerCount /\ wpc[w] # "none" /\ phase' = phase BY <1>1, <1>a, <1>b
    <3> QED BY <2>0, <3>1, <3>2, <3>3, <3>4 DEF WorkerOK
  <2>2. /\ (PoolUp' <=> PoolUp) /\ Published' = Published /\ Stopped' = Stopped
        /\ UNCHANGED <<workerCount, job, generation, exec>>
    BY <1>1, <1>a DEF PoolUp, Published, Stopped
  <2> QED BY <2>1, <2>2, <1>1, <1>w, OthersKeep
<1>5. CountInv'
  <2>1. /\ \A v \in Worker : Quiet(v)' <=> Quiet(v)
        /\ \A v \in Worker : wpc'[v] \in Rest <=> wpc[v] \in Rest
        /\ \A v \in Worker : wpc'[v] \in {"exitWake", "finished"} <=> wpc[v] \in {"exitWake", "finished"}
    BY <1>a, <1>b, <1>w DEF Quiet, Rest
  <2> QED BY <2>1, <1>1, <1>a DEF CountInv, Published
<1>6. JobInv'
  BY <1>1, <1>a DEF JobInv, Published
<1>7. GroupInv'
  BY <1>1, <1>a DEF GroupInv
<1>8. ExecInv'
  BY <1>1, <1>a DEF ExecInv
<1> QED BY <1>1, <1>2, <1>3, <1>4, <1>5, <1>6, <1>7, <1>8

\* Going to sleep is idle.
LEMMA WorkerSleepSafe ==
  ASSUME IndInv, NEW w \in Worker, WorkerSleep(w)
  PROVE  IndInv'
<1> USE DEF IndInv
<1>1. /\ holder' = holder /\ phase' = phase /\ GateInv' /\ pc' = pc
  BY NobodyMoves DEF WorkerSleep
<1>a. UNCHANGED <<jobVars, outside, generation, waiting, seen, local>>
  BY DEF WorkerSleep
<1>b. wpc[w] = "park" /\ wpc'[w] = "asleep"
  BY DEF WorkerSleep, WorkerGoto, TypeOK
<1>w. /\ wpc' \in [Worker -> WorkerStage] /\ wpc'[w] = "asleep"
      /\ \A v \in Worker \ {w} : wpc'[v] = wpc[v] /\ seen'[v] = seen[v] /\ local'[v] = local[v]
  BY DEF WorkerSleep, WorkerGoto, TypeOK, WorkerStage
<1>2. TypeOK'
  BY <1>1, <1>a, <1>w DEF TypeOK, WorkerSleep, WorkerStage
<1>3. PoolInv'
  BY <1>1, <1>a DEF PoolInv, PoolUp
<1>4. WorkerInv'
  <2>0. WorkerOK(w) BY DEF WorkerInv
  <2>1. WorkerOK(w)'
    <3>1. /\ Quiet(w) => Quiet(w)'
          /\ Starting(w) => Starting(w)'
          /\ Leaving(w) => Leaving(w)'
      BY <1>a, <1>b DEF Quiet, Starting, Leaving, Rest
    <3>2. Helping(w) => Helping(w)'
      BY <1>1, <1>a, <1>b DEF Helping, Rest, taskIndex
    <3>3. (PoolUp' <=> PoolUp) /\ Published' = Published /\ Stopped' = Stopped
      BY <1>1, <1>a DEF PoolUp, Published, Stopped
    <3>4. workerCount' = workerCount /\ wpc[w] # "none" /\ phase' = phase BY <1>1, <1>a, <1>b
    <3> QED BY <2>0, <3>1, <3>2, <3>3, <3>4 DEF WorkerOK
  <2>2. /\ (PoolUp' <=> PoolUp) /\ Published' = Published /\ Stopped' = Stopped
        /\ UNCHANGED <<workerCount, job, generation, exec>>
    BY <1>1, <1>a DEF PoolUp, Published, Stopped
  <2> QED BY <2>1, <2>2, <1>1, <1>w, OthersKeep
<1>5. CountInv'
  <2>1. /\ \A v \in Worker : Quiet(v)' <=> Quiet(v)
        /\ \A v \in Worker : wpc'[v] \in Rest <=> wpc[v] \in Rest
        /\ \A v \in Worker : wpc'[v] \in {"exitWake", "finished"} <=> wpc[v] \in {"exitWake", "finished"}
    BY <1>a, <1>b, <1>w DEF Quiet, Rest
  <2> QED BY <2>1, <1>1, <1>a DEF CountInv, Published
<1>6. JobInv'
  BY <1>1, <1>a DEF JobInv, Published
<1>7. GroupInv'
  BY <1>1, <1>a DEF GroupInv
<1>8. ExecInv'
  BY <1>1, <1>a DEF ExecInv
<1> QED BY <1>1, <1>2, <1>3, <1>4, <1>5, <1>6, <1>7, <1>8

\* A futex wait that returns for no reason is idle.
LEMMA WorkerSpuriousWakeSafe ==
  ASSUME IndInv, NEW w \in Worker, WorkerSpuriousWake(w)
  PROVE  IndInv'
<1> USE DEF IndInv
<1>1. /\ holder' = holder /\ phase' = phase /\ GateInv' /\ pc' = pc
  BY NobodyMoves DEF WorkerSpuriousWake
<1>a. UNCHANGED <<jobVars, outside, generation, waiting, seen, local>>
  BY DEF WorkerSpuriousWake
<1>b. wpc[w] = "asleep" /\ wpc'[w] = "park"
  BY DEF WorkerSpuriousWake, WorkerGoto, TypeOK
<1>w. /\ wpc' \in [Worker -> WorkerStage] /\ wpc'[w] = "park"
      /\ \A v \in Worker \ {w} : wpc'[v] = wpc[v] /\ seen'[v] = seen[v] /\ local'[v] = local[v]
  BY DEF WorkerSpuriousWake, WorkerGoto, TypeOK, WorkerStage
<1>2. TypeOK'
  BY <1>1, <1>a, <1>w DEF TypeOK, WorkerSpuriousWake, WorkerStage
<1>3. PoolInv'
  BY <1>1, <1>a DEF PoolInv, PoolUp
<1>4. WorkerInv'
  <2>0. WorkerOK(w) BY DEF WorkerInv
  <2>1. WorkerOK(w)'
    <3>1. /\ Quiet(w) => Quiet(w)'
          /\ Starting(w) => Starting(w)'
          /\ Leaving(w) => Leaving(w)'
      BY <1>a, <1>b DEF Quiet, Starting, Leaving, Rest
    <3>2. Helping(w) => Helping(w)'
      BY <1>1, <1>a, <1>b DEF Helping, Rest, taskIndex
    <3>3. (PoolUp' <=> PoolUp) /\ Published' = Published /\ Stopped' = Stopped
      BY <1>1, <1>a DEF PoolUp, Published, Stopped
    <3>4. workerCount' = workerCount /\ wpc[w] # "none" /\ phase' = phase BY <1>1, <1>a, <1>b
    <3> QED BY <2>0, <3>1, <3>2, <3>3, <3>4 DEF WorkerOK
  <2>2. /\ (PoolUp' <=> PoolUp) /\ Published' = Published /\ Stopped' = Stopped
        /\ UNCHANGED <<workerCount, job, generation, exec>>
    BY <1>1, <1>a DEF PoolUp, Published, Stopped
  <2> QED BY <2>1, <2>2, <1>1, <1>w, OthersKeep
<1>5. CountInv'
  <2>1. /\ \A v \in Worker : Quiet(v)' <=> Quiet(v)
        /\ \A v \in Worker : wpc'[v] \in Rest <=> wpc[v] \in Rest
        /\ \A v \in Worker : wpc'[v] \in {"exitWake", "finished"} <=> wpc[v] \in {"exitWake", "finished"}
    BY <1>a, <1>b, <1>w DEF Quiet, Rest
  <2> QED BY <2>1, <1>1, <1>a DEF CountInv, Published
<1>6. JobInv'
  BY <1>1, <1>a DEF JobInv, Published
<1>7. GroupInv'
  BY <1>1, <1>a DEF GroupInv
<1>8. ExecInv'
  BY <1>1, <1>a DEF ExecInv
<1> QED BY <1>1, <1>2, <1>3, <1>4, <1>5, <1>6, <1>7, <1>8

\* The count of ready workers is right, and the last one wakes the creator.
LEMMA WorkerAnnounceSafe ==
  ASSUME IndInv, NEW w \in Worker, WorkerAnnounce(w)
  PROVE  IndInv'
<1> USE DEF IndInv
<1>1. /\ phase' = IF phase = "readySleep" THEN "awaitReady" ELSE phase
      /\ phase # "free" => holder \in Callers /\ holder' = holder
      /\ GateInv' /\ pc' \in [Callers -> Stages]
      /\ \A d \in Callers : pc'[d] = IF pc[d] = "readySleep" THEN "awaitReady" ELSE pc[d]
  <2>1. "readySleep" \in HoldStage /\ "awaitReady" \in HoldStage BY DEF HoldStage, StartStage
  <2> QED BY <2>1, HolderWakes DEF WorkerAnnounce
<1>a. UNCHANGED <<gateVars, ioVars, jobVars, callVars, poolState, workerCount, exitedCount, shutdownRequested,
      generation, waiting, seen, local>>
  BY DEF WorkerAnnounce
<1>b. /\ wpc[w] = "announce" /\ wpc'[w] = "spin" /\ readyCount' = readyCount + 1
      /\ phase \in Awaiting /\ phase' \in Awaiting /\ Starting(w) /\ PoolUp /\ ~(w >= workerCount)
  BY <1>1, WorkerCase DEF WorkerAnnounce, WorkerGoto, TypeOK, Starting, Helping, Leaving, Quiet, Rest,
     Awaiting
<1>w. /\ wpc' \in [Worker -> WorkerStage] /\ wpc'[w] = "spin"
      /\ \A v \in Worker \ {w} : wpc'[v] = wpc[v] /\ seen'[v] = seen[v] /\ local'[v] = local[v]
  BY DEF WorkerAnnounce, WorkerGoto, TypeOK, WorkerStage
<1>c. /\ Cardinality({v \in Worker : wpc'[v] \in Rest}) = readyCount + 1
      /\ readyCount \in 0 .. MaxTasks - 2
  <2> DEFINE R == {v \in Worker : wpc[v] \in Rest}
  <2>1. {v \in Worker : wpc'[v] \in Rest} = R \cup {w} /\ w \notin R
    BY <1>b, <1>w DEF Rest
  <2>2. R \in SUBSET Worker /\ readyCount = Cardinality(R)
    BY <1>b DEF CountInv
  <2> HIDE DEF R
  <2> QED BY <2>1, <2>2, OneMore
<1>2. TypeOK'
  <2>1. readyCount' \in 0 .. MaxTasks - 1 BY <1>b, <1>c
  <2> QED BY <1>1, <1>a, <1>w, <2>1 DEF TypeOK, Stages
<1>3. PoolInv'
  BY <1>1, <1>a, <1>b DEF PoolInv, PoolUp, Awaiting, PersistentStage, Stopping
<1>4. WorkerInv'
  <2>1. /\ (PoolUp' <=> PoolUp) /\ Published' = Published /\ Stopped' = Stopped
        /\ UNCHANGED <<workerCount, job, generation, exec>>
    BY <1>1, <1>a, <1>b DEF PoolUp, Published, Stopped, Awaiting
  <2>2. Starting(w)' BY <1>a, <1>b DEF Starting, Rest
  <2>3. WorkerOK(w)' BY <2>1, <2>2, <1>b DEF WorkerOK
  <2> QED BY <2>1, <2>3, <1>b, <1>w, PhaseNames, OthersKeep
<1>5. CountInv'
  BY <1>b, <1>c, PhaseNames DEF CountInv
<1>6. JobInv'
  BY <1>b, PhaseNames DEF JobInv
<1>7. GroupInv'
  BY <1>1, <1>a, <1>b, PhaseNames DEF GroupInv
<1>8. ExecInv'
  <2>1. size'[holder'] >= 2 BY <1>1, <1>a, <1>b, PhaseNames DEF ExecInv
  <2> QED BY <2>1, <1>1, <1>a, <1>b DEF ExecInv, HoldStage, FreeStage, PersistentStage, GroupStage, StartStage, IoStage, StopStage
<1> QED BY <1>1, <1>2, <1>3, <1>4, <1>5, <1>6, <1>7, <1>8

\* A worker leaves only when shutdown told it to.
LEMMA WorkerStopSafe ==
  ASSUME IndInv, NEW w \in Worker, WorkerStop(w)
  PROVE  IndInv'
<1> USE DEF IndInv
<1>1. /\ holder' = holder /\ phase' = phase /\ GateInv' /\ pc' = pc
  BY NobodyMoves DEF WorkerStop
<1>a. UNCHANGED <<jobVars, outside, generation, waiting, seen, local>>
  BY DEF WorkerStop
<1>b. /\ wpc[w] = "dispatch" /\ wpc'[w] = "exit" /\ PoolUp /\ ~(w >= workerCount)
      /\ phase \in Stopping /\ w \in Stopped /\ Leaving(w)' /\ ~Quiet(w) /\ ~Quiet(w)'
  BY WorkerCase, PhaseNames DEF WorkerStop, WorkerGoto, TypeOK, PoolInv, Starting, Leaving, Quiet, Rest
<1>w. /\ wpc' \in [Worker -> WorkerStage] /\ wpc'[w] = "exit"
      /\ \A v \in Worker \ {w} : wpc'[v] = wpc[v] /\ seen'[v] = seen[v] /\ local'[v] = local[v]
  BY DEF WorkerStop, WorkerGoto, TypeOK, WorkerStage
<1>2. TypeOK'
  BY <1>1, <1>a, <1>w DEF TypeOK, WorkerStop, WorkerStage
<1>3. PoolInv'
  BY <1>1, <1>a DEF PoolInv, PoolUp
<1>4. WorkerInv'
  <2>1. /\ (PoolUp' <=> PoolUp) /\ Published' = Published /\ Stopped' = Stopped
        /\ UNCHANGED <<workerCount, job, generation, exec>>
    BY <1>1, <1>a DEF PoolUp, Published, Stopped
  <2>2. WorkerOK(w)'
    BY <2>1, <1>1, <1>b, <1>w, PhaseNames DEF WorkerOK
  <2> QED BY <2>1, <2>2, <1>1, <1>w, OthersKeep
<1>5. CountInv'
  <2>1. {v \in Worker : wpc'[v] \in {"exitWake", "finished"}}
          = {v \in Worker : wpc[v] \in {"exitWake", "finished"}}
    BY <1>b, <1>w
  <2> QED BY <2>1, <1>1, <1>a, <1>b, PhaseNames DEF CountInv
<1>6. JobInv'
  BY <1>1, <1>a DEF JobInv, Published
<1>7. GroupInv'
  BY <1>1, <1>a DEF GroupInv
<1>8. ExecInv'
  BY <1>1, <1>a DEF ExecInv
<1> QED BY <1>1, <1>2, <1>3, <1>4, <1>5, <1>6, <1>7, <1>8

\* A worker that dispatches was addressed, and takes its own index.
LEMMA WorkerDispatchSafe ==
  ASSUME IndInv, NEW w \in Worker, WorkerDispatch(w)
  PROVE  IndInv'
<1> USE DEF IndInv
<1>1. /\ holder' = holder /\ phase' = phase /\ GateInv' /\ pc' = pc
  BY NobodyMoves DEF WorkerDispatch
<1>a. UNCHANGED <<jobVars, outside, generation, waiting, seen>>
  BY DEF WorkerDispatch
<1>b. /\ wpc[w] = "dispatch" /\ PoolUp /\ ~(w >= workerCount) /\ phase \in PersistentStage
      /\ w \in Published /\ Helping(w)
  BY WorkerCase, PhaseNames DEF WorkerDispatch, WorkerGoto, PoolInv, Starting, Leaving, Quiet, Rest
<1>c. /\ holder \in Callers /\ w \in activeHelpers /\ taskIndex(w) < job.count
      /\ taskIndex(w) \in 0 .. MaxTasks - 1 /\ job.owner = holder
  <2>1. holder \in Callers BY <1>b, HolderExists, PhaseNames
  <2>2. /\ job.active \in 1 .. MaxTasks - 1 /\ job.first \in Nat /\ job.owner = holder
        /\ (phase = "publish" => k \in 0 .. job.active - 1)
        /\ taskIndex(w) \in Region \ {0} /\ taskIndex(w) < job.count
    BY <1>b, <2>1, JobFacts
  <2>3. w \in job.first .. job.first + job.active - 1
    BY <1>b, <2>2 DEF Published, Worker
  <2> QED BY <2>1, <2>2, <2>3 DEF activeHelpers, taskIndex, Worker
<1>d. /\ wpc'[w] = "task"
      /\ local' = [local EXCEPT ![w] = [owner |-> holder, index |-> taskIndex(w), target |-> job.active]]
  BY <1>c DEF WorkerDispatch, WorkerGoto, TypeOK
<1>e. local'[w] = [owner |-> holder, index |-> taskIndex(w), target |-> job.active]
      /\ local' \in [Worker -> LocalData]
  BY <1>c, <1>d DEF TypeOK, LocalData, Payload
<1>f. Helping(w)' /\ ~Quiet(w) /\ ~Quiet(w)'
  BY <1>1, <1>a, <1>b, <1>d, <1>e DEF Helping, Quiet, Rest, taskIndex
<1>w. /\ wpc' \in [Worker -> WorkerStage] /\ wpc'[w] = "task"
      /\ \A v \in Worker \ {w} : wpc'[v] = wpc[v] /\ seen'[v] = seen[v] /\ local'[v] = local[v]
  BY <1>d DEF WorkerDispatch, WorkerGoto, TypeOK, WorkerStage
<1>2. TypeOK'
  BY <1>1, <1>a, <1>e, <1>w DEF TypeOK
<1>3. PoolInv'
  BY <1>1, <1>a DEF PoolInv, PoolUp
<1>4. WorkerInv'
  <2>1. /\ (PoolUp' <=> PoolUp) /\ Published' = Published /\ Stopped' = Stopped
        /\ UNCHANGED <<workerCount, job, generation, exec>>
    BY <1>1, <1>a DEF PoolUp, Published, Stopped
  <2>2. WorkerOK(w)'
    BY <2>1, <1>1, <1>b, <1>f, PhaseNames DEF WorkerOK
  <2> QED BY <2>1, <2>2, <1>1, <1>w, OthersKeep
<1>5. CountInv'
  <2>1. \A v \in Worker : Quiet(v)' <=> Quiet(v)
    BY <1>a, <1>f, <1>w DEF Quiet
  <2> QED BY <2>1, <1>1, <1>a, <1>b, PhaseNames DEF CountInv, Published
<1>6. JobInv'
  BY <1>1, <1>a DEF JobInv, Published
<1>7. GroupInv'
  BY <1>1, <1>a DEF GroupInv
<1>8. ExecInv'
  BY <1>1, <1>a DEF ExecInv
<1> QED BY <1>1, <1>2, <1>3, <1>4, <1>5, <1>6, <1>7, <1>8

\* Each helper runs its own task, and runs it once.
LEMMA WorkerTaskSafe ==
  ASSUME IndInv, NEW w \in Worker, WorkerTask(w)
  PROVE  IndInv'
<1> USE DEF IndInv
<1>1. /\ holder' = holder /\ phase' = phase /\ GateInv' /\ pc' = pc
  BY NobodyMoves DEF WorkerTask
<1>a. UNCHANGED <<gateVars, lifeVars, ioVars, jobVars, generation, waiting, seen, local, pc, size, k>>
  BY DEF WorkerTask
<1>b. /\ wpc[w] = "task" /\ wpc'[w] = "ack" /\ PoolUp /\ ~(w >= workerCount)
      /\ phase \in PersistentStage /\ w \in Published /\ Helping(w)
  BY WorkerCase DEF WorkerTask, WorkerGoto, TypeOK, Starting, Leaving, Quiet, Rest
<1>c. /\ holder \in Callers /\ taskIndex(w) \in Region \ {0} /\ job.first \in Int
      /\ exec[holder][taskIndex(w)] = 0
      /\ exec' = [exec EXCEPT ![holder][taskIndex(w)] = @ + 1]
  <2>1. holder \in Callers BY <1>b, HolderExists, PhaseNames
  <2>2. taskIndex(w) \in Region \ {0} /\ job.first \in Nat BY <1>b, <2>1, JobFacts
  <2>3. exec[holder][taskIndex(w)] \in 0 .. 1 BY <2>1, <2>2 DEF TypeOK
  <2>4. /\ local[w] = [owner |-> holder, index |-> taskIndex(w), target |-> job.active]
        /\ exec[holder][taskIndex(w)] # 1
    BY <1>b DEF Helping
  <2> QED BY <2>1, <2>2, <2>3, <2>4 DEF WorkerTask
<1>d. /\ exec' \in [Callers -> [Region -> 0 .. 1]] /\ exec'[holder][taskIndex(w)] = 1
      /\ \A j \in Region \ {taskIndex(w)} : exec'[holder][j] = exec[holder][j]
      /\ \A d \in Callers \ {holder} : exec'[d] = exec[d]
  <2>1. TypeOK OBVIOUS
  <2>2. /\ taskIndex(w) \in Region /\ holder \in Callers /\ exec[holder][taskIndex(w)] = 0
        /\ exec' = [exec EXCEPT ![holder][taskIndex(w)] = @ + 1]
    BY <1>c
  <2> HIDE DEF IndInv
  <2> QED BY <2>1, <2>2, RunsOnce
<1>e. Helping(w)' /\ ~Quiet(w) /\ ~Quiet(w)'
  BY <1>1, <1>a, <1>b, <1>d DEF Helping, Quiet, Rest, taskIndex
<1>w. /\ wpc' \in [Worker -> WorkerStage] /\ wpc'[w] = "ack"
      /\ \A v \in Worker \ {w} : wpc'[v] = wpc[v] /\ seen'[v] = seen[v] /\ local'[v] = local[v]
  BY DEF WorkerTask, WorkerGoto, TypeOK, WorkerStage
<1>2. TypeOK'
  BY <1>1, <1>a, <1>d, <1>w DEF TypeOK
<1>3. PoolInv'
  BY <1>1, <1>a DEF PoolInv, PoolUp
<1>4. WorkerInv'
  <2>1. /\ (PoolUp' <=> PoolUp) /\ Published' = Published /\ Stopped' = Stopped
        /\ UNCHANGED <<workerCount, job, generation>>
    BY <1>1, <1>a DEF PoolUp, Published, Stopped
  <2>2. WorkerOK(w)'
    BY <2>1, <1>1, <1>b, <1>e, PhaseNames DEF WorkerOK
  <2>3. ASSUME NEW v \in Worker \ {w}, phase \in PersistentStage, v \in Published
        PROVE  exec'[holder][taskIndex(v)] = exec[holder][taskIndex(v)]
    <3>1. taskIndex(v) \in Region BY <2>3, <1>c, JobFacts
    <3>2. taskIndex(v) # taskIndex(w) BY <2>3, <1>c DEF taskIndex, Worker
    <3> QED BY <3>1, <3>2, <1>d
  <2> QED BY <2>1, <2>2, <2>3, <1>1, <1>w, OthersKeep
<1>5. CountInv'
  <2>1. \A v \in Worker : Quiet(v)' <=> Quiet(v)
    BY <1>a, <1>e, <1>w DEF Quiet
  <2> QED BY <2>1, <1>1, <1>a, <1>b, PhaseNames DEF CountInv, Published
<1>6. JobInv'
  <2>1. ASSUME NEW i \in Region, i - 1 + job.first \notin Published \/ i = 0
        PROVE  exec'[holder][i] = exec[holder][i]
    <3>1. taskIndex(w) - 1 + job.first = w BY <1>c DEF taskIndex, Worker
    <3>2. i # taskIndex(w) BY <2>1, <3>1, <1>b, <1>c
    <3> QED BY <3>2, <1>d
  <2>2. Published' = Published BY <1>1, <1>a DEF Published
  <2> QED BY <2>1, <2>2, <1>1, <1>a, <1>b DEF JobInv
<1>7. GroupInv'
  BY <1>1, <1>a, <1>b, PhaseNames DEF GroupInv
<1>8. ExecInv'
  <2>1. pc[holder] = phase BY <1>b, HolderExists, PhaseNames
  <2>2. pc[holder] \notin {"true", "accepted", "settled"} BY <2>1, <1>b DEF PersistentStage
  <2> QED BY <2>1, <2>2, <1>1, <1>a, <1>b, <1>d DEF ExecInv
<1> QED BY <1>1, <1>2, <1>3, <1>4, <1>5, <1>6, <1>7, <1>8

\* Each acknowledgement is counted once; only then is the helper quiet.
LEMMA WorkerAckSafe ==
  ASSUME IndInv, NEW w \in Worker, WorkerAck(w)
  PROVE  IndInv'
<1> USE DEF IndInv

<1>a. UNCHANGED <<outside, generation, waiting, seen, job>>
  BY DEF WorkerAck
<1>b. /\ wpc[w] = "ack" /\ wpc'[w] = "spin" /\ PoolUp /\ ~(w >= workerCount)
      /\ phase \in PersistentStage /\ w \in Published /\ Helping(w)
      /\ local' = [local EXCEPT ![w] = NoLocal] /\ doneCount' = doneCount + 1
  BY WorkerCase DEF WorkerAck, WorkerGoto, TypeOK, Starting, Leaving, Quiet, Rest
<1>c. /\ holder \in Callers /\ phase # "free" /\ job.active \in 1 .. MaxTasks - 1
      /\ local[w].target = job.active
  <2>1. holder \in Callers /\ phase # "free" BY <1>b, HolderExists, PhaseNames
  <2> QED BY <1>b, <2>1, JobFacts DEF Helping
<1>1. /\ phase' \in PersistentStage /\ holder' = holder
      /\ (phase' = "publish" <=> phase = "publish") /\ (phase' \in {"publish", "self"} <=> phase \in {"publish", "self"})
      /\ GateInv' /\ pc' \in [Callers -> Stages]
      /\ \A d \in Callers : pc'[d] = pc[d] \/ (pc[d] = "doneSleep" /\ pc'[d] = "awaitWoken")
  <2>1. CASE doneCount + 1 >= local[w].target
    <3>1. "doneSleep" \in HoldStage /\ "awaitWoken" \in HoldStage
      BY DEF HoldStage, PersistentStage
    <3>2. WakeCaller("doneSleep", "awaitWoken") /\ busy' = busy BY <2>1 DEF WorkerAck
    <3>3. /\ phase' = IF phase = "doneSleep" THEN "awaitWoken" ELSE phase
          /\ phase # "free" => holder \in Callers /\ holder' = holder
          /\ GateInv' /\ pc' \in [Callers -> Stages]
          /\ \A d \in Callers : pc'[d] = IF pc[d] = "doneSleep" THEN "awaitWoken" ELSE pc[d]
      BY <3>1, <3>2, HolderWakes
    <3> QED BY <3>3, <1>b, <1>c DEF PersistentStage
  <2>2. CASE ~(doneCount + 1 >= local[w].target)
    <3>1. pc' = pc /\ busy' = busy BY <2>2 DEF WorkerAck
    <3> QED BY <3>1, <1>b, NobodyMoves DEF TypeOK, Stages
  <2> QED BY <2>1, <2>2
<1>w. /\ wpc' \in [Worker -> WorkerStage] /\ wpc'[w] = "spin"
      /\ \A v \in Worker \ {w} : wpc'[v] = wpc[v] /\ seen'[v] = seen[v] /\ local'[v] = local[v]
  BY DEF WorkerAck, WorkerGoto, TypeOK, WorkerStage
<1>d. Quiet(w)' /\ ~Quiet(w) /\ Helping(w)'
  BY <1>1, <1>a, <1>b DEF Helping, Quiet, Rest, taskIndex
<1>e. Published' = Published BY <1>1, <1>a DEF Published
<1>f. /\ Cardinality({v \in Worker : v \in Published' /\ Quiet(v)'}) = doneCount + 1
      /\ doneCount \in 0 .. MaxTasks - 2
  <2> DEFINE R == {v \in Worker : v \in Published /\ Quiet(v)}
  <2>1. \A v \in Worker \ {w} : Quiet(v)' <=> Quiet(v) BY <1>a, <1>w DEF Quiet
  <2>2. {v \in Worker : v \in Published' /\ Quiet(v)'} = R \cup {w} /\ w \notin R
    BY <1>b, <1>d, <1>e, <2>1
  <2>3. R \in SUBSET Worker /\ doneCount = Cardinality(R)
    BY <1>b DEF CountInv
  <2> HIDE DEF R
  <2> QED BY <2>2, <2>3, OneMore
<1>2. TypeOK'
  <2>1. local' \in [Worker -> LocalData] /\ doneCount' \in 0 .. MaxTasks - 1
    BY <1>b, <1>f DEF TypeOK, LocalData, NoLocal
  <2> QED BY <1>1, <1>a, <1>w, <2>1 DEF TypeOK, Stages
<1>3. PoolInv'
  BY <1>1, <1>a, <1>b, PhaseNames DEF PoolInv, PoolUp, Awaiting, Stopping, PersistentStage
<1>4. WorkerInv'
  <2>1. /\ (PoolUp' <=> PoolUp) /\ Stopped' = Stopped
        /\ UNCHANGED <<workerCount, job, generation, exec>>
    BY <1>1, <1>a, <1>b, PhaseNames DEF PoolUp, Stopped, PersistentStage
  <2>2. WorkerOK(w)'
    BY <2>1, <1>1, <1>b, <1>d, <1>e, PhaseNames DEF WorkerOK
  <2> QED BY <2>1, <2>2, <1>1, <1>b, <1>e, <1>w, PhaseNames, OthersKeep
<1>5. CountInv'
  BY <1>b, <1>f, <1>1, PhaseNames DEF CountInv
<1>6. JobInv'
  <2>1. /\ UNCHANGED <<size, exec, k, workerCount, job>> BY <1>a
  <2> QED BY <2>1, <1>1, <1>b, <1>e DEF JobInv
<1>7. GroupInv'
  BY <1>1, <1>a, <1>b, PhaseNames DEF GroupInv
<1>8. ExecInv'
  <2>1. size'[holder'] >= 2 BY <1>1, <1>a, <1>b, PhaseNames DEF ExecInv
  <2> QED BY <2>1, <1>1, <1>a, <1>b DEF ExecInv, PersistentStage
<1> QED BY <1>1, <1>2, <1>3, <1>4, <1>5, <1>6, <1>7, <1>8

\* Each exit is counted once.
LEMMA WorkerExitSafe ==
  ASSUME IndInv, NEW w \in Worker, WorkerExit(w)
  PROVE  IndInv'
<1> USE DEF IndInv
<1>1. /\ holder' = holder /\ phase' = phase /\ GateInv' /\ pc' = pc
  BY NobodyMoves DEF WorkerExit
<1>a. UNCHANGED <<gateVars, ioVars, jobVars, callVars, poolState, workerCount, readyCount, shutdownRequested,
      generation, waiting, seen, local, pc>>
  BY DEF WorkerExit
<1>b. /\ wpc[w] = "exit" /\ wpc'[w] \in {"exitWake", "finished"} /\ exitedCount' = exitedCount + 1
      /\ PoolUp /\ ~(w >= workerCount) /\ phase \in Stopping /\ w \in Stopped
  BY WorkerCase DEF WorkerExit, WorkerGoto, TypeOK, Starting, Helping, Leaving, Quiet, Rest
<1>w. /\ wpc' \in [Worker -> WorkerStage] /\ wpc'[w] \in {"exitWake", "finished"}
      /\ \A v \in Worker \ {w} : wpc'[v] = wpc[v] /\ seen'[v] = seen[v] /\ local'[v] = local[v]
  BY DEF WorkerExit, WorkerGoto, TypeOK, WorkerStage
<1>c. /\ Cardinality({v \in Worker : wpc'[v] \in {"exitWake", "finished"}}) = exitedCount + 1
      /\ exitedCount \in 0 .. MaxTasks - 2
  <2> DEFINE R == {v \in Worker : wpc[v] \in {"exitWake", "finished"}}
  <2>1. {v \in Worker : wpc'[v] \in {"exitWake", "finished"}} = R \cup {w} /\ w \notin R
    BY <1>b, <1>w
  <2>2. R \in SUBSET Worker /\ exitedCount = Cardinality(R)
    BY <1>b DEF CountInv
  <2> HIDE DEF R
  <2> QED BY <2>1, <2>2, OneMore
<1>2. TypeOK'
  <2>1. exitedCount' \in 0 .. MaxTasks - 1 BY <1>b, <1>c
  <2> QED BY <1>1, <1>a, <1>w, <2>1 DEF TypeOK
<1>3. PoolInv'
  BY <1>1, <1>a DEF PoolInv, PoolUp
<1>4. WorkerInv'
  <2>1. /\ (PoolUp' <=> PoolUp) /\ Published' = Published /\ Stopped' = Stopped
        /\ UNCHANGED <<workerCount, job, generation, exec>>
    BY <1>1, <1>a DEF PoolUp, Published, Stopped
  <2>2. Leaving(w)' BY <1>b DEF Leaving
  <2>3. WorkerOK(w)'
    BY <2>1, <2>2, <1>1, <1>b, PhaseNames DEF WorkerOK
  <2> QED BY <2>1, <2>3, <1>1, <1>w, OthersKeep
<1>5. CountInv'
  BY <1>1, <1>b, <1>c, PhaseNames DEF CountInv
<1>6. JobInv'
  BY <1>1, <1>a DEF JobInv, Published
<1>7. GroupInv'
  BY <1>1, <1>a DEF GroupInv
<1>8. ExecInv'
  BY <1>1, <1>a DEF ExecInv
<1> QED BY <1>1, <1>2, <1>3, <1>4, <1>5, <1>6, <1>7, <1>8

\* The last worker wakes shutdown and is gone.
LEMMA WorkerExitWakeSafe ==
  ASSUME IndInv, NEW w \in Worker, WorkerExitWake(w)
  PROVE  IndInv'
<1> USE DEF IndInv

<1>a. UNCHANGED <<jobVars, outside, generation, waiting, seen, local>>
  BY DEF WorkerExitWake
<1>1. /\ phase' = IF phase = "exitSleep" THEN "awaitExit" ELSE phase
      /\ phase # "free" => holder \in Callers /\ holder' = holder
      /\ GateInv' /\ pc' \in [Callers -> Stages]
      /\ \A d \in Callers : pc'[d] = IF pc[d] = "exitSleep" THEN "awaitExit" ELSE pc[d]
  <2>1. "exitSleep" \in HoldStage /\ "awaitExit" \in HoldStage
    BY DEF HoldStage, PersistentStage, StopStage
  <2> QED BY <2>1, HolderWakes DEF WorkerExitWake
<1>b. /\ wpc[w] = "exitWake" /\ wpc'[w] = "finished" /\ PoolUp /\ ~(w >= workerCount)
      /\ phase \in Stopping /\ phase' \in Stopping /\ w \in Stopped
      /\ (phase' = "bump" <=> phase = "bump")
  BY <1>1, WorkerCase DEF WorkerExitWake, WorkerGoto, TypeOK, Starting, Helping, Leaving, Quiet, Rest,
     Stopping
<1>w. /\ wpc' \in [Worker -> WorkerStage] /\ wpc'[w] = "finished"
      /\ \A v \in Worker \ {w} : wpc'[v] = wpc[v] /\ seen'[v] = seen[v] /\ local'[v] = local[v]
  BY DEF WorkerExitWake, WorkerGoto, TypeOK, WorkerStage
<1>2. TypeOK'
  BY <1>1, <1>a, <1>w DEF TypeOK, Stages
<1>3. PoolInv'
  BY <1>1, <1>a, <1>b, PhaseNames DEF PoolInv, PoolUp, Awaiting, Stopping, PersistentStage
<1>4. WorkerInv'
  <2>1. /\ (PoolUp' <=> PoolUp) /\ Stopped' = Stopped /\ Published' = Published
        /\ UNCHANGED <<workerCount, job, generation, exec>>
    BY <1>1, <1>a, <1>b, PhaseNames DEF PoolUp, Stopped, Published, Stopping
  <2>2. Leaving(w)' BY <1>b DEF Leaving
  <2>3. WorkerOK(w)'
    BY <2>1, <2>2, <1>b, PhaseNames DEF WorkerOK
  <2> QED BY <2>1, <2>3, <1>b, <1>w, PhaseNames, OthersKeep
<1>5. CountInv'
  <2>1. {v \in Worker : wpc'[v] \in {"exitWake", "finished"}}
          = {v \in Worker : wpc[v] \in {"exitWake", "finished"}}
    BY <1>b, <1>w
  <2> QED BY <2>1, <1>a, <1>b, PhaseNames DEF CountInv
<1>6. JobInv'
  BY <1>b, PhaseNames DEF JobInv
<1>7. GroupInv'
  BY <1>1, <1>a, <1>b, PhaseNames DEF GroupInv
<1>8. ExecInv'
  BY <1>1, <1>a, <1>b, PhaseNames DEF ExecInv, HoldStage, FreeStage, PersistentStage, GroupStage, StartStage, IoStage, StopStage, Stopping
<1> QED BY <1>1, <1>2, <1>3, <1>4, <1>5, <1>6, <1>7, <1>8

\* Init: nothing has been set up and nobody is inside.
LEMMA InitSafe == Init => IndInv
<1> SUFFICES ASSUME Init PROVE IndInv OBVIOUS
<1>1. /\ \A c \in Callers : pc[c] = "idle" /\ exec[c] = NoWrites
      /\ \A w \in Worker : wpc[w] = "none"
      /\ \A i \in Region : group[i] = None
  BY DEF Init
<1>2. phase = "free"
  BY <1>1, Disjoint, NoHolder DEF phase, FreeStage
<1>3. TypeOK
  <2>1. NoWrites \in [Region -> 0 .. 1] BY DEF NoWrites
  <2>2. NoJob \in Payload /\ NoLocal \in LocalData BY DEF NoJob, Payload, NoLocal, LocalData
  <2>3. 0 \in 0 .. MaxTasks - 1 /\ 0 \in 0 .. MaxTasks /\ 0 \in 0 .. GenMod - 1 OBVIOUS
  <2>4. /\ generation \in [Worker -> 0 .. GenMod - 1] /\ seen \in [Worker -> 0 .. GenMod - 1]
        /\ waiting \in [Worker -> BOOLEAN] /\ wpc \in [Worker -> WorkerStage]
        /\ local \in [Worker -> LocalData]
    BY <2>2, <2>3 DEF Init, WorkerStage
  <2>5. /\ pc \in [Callers -> HoldStage \cup FreeStage] /\ size \in [Callers -> 0 .. MaxCount]
        /\ exec \in [Callers -> [Region -> 0 .. 1]] /\ group \in [Region -> Callers \cup {None}]
    BY <2>1 DEF Init, FreeStage
  <2>6. /\ override \in Nat /\ busy \in {0, 1} /\ poolState \in 0 .. 3 /\ ioState \in 0 .. 3
        /\ workerCount \in 0 .. MaxTasks - 1 /\ readyCount \in 0 .. MaxTasks - 1
        /\ exitedCount \in 0 .. MaxTasks - 1 /\ doneCount \in 0 .. MaxTasks - 1 /\ k \in 0 .. MaxTasks
    BY <2>3 DEF Init
  <2>7. shutdownRequested \in BOOLEAN /\ job \in Payload BY <2>2 DEF Init
  <2> QED BY <2>4, <2>5, <2>6, <2>7 DEF TypeOK
<1>4. GateInv BY <1>1, Disjoint DEF GateInv, FreeStage
<1>5. PoolInv /\ WorkerInv
  BY <1>1, <1>2, PhaseNames DEF Init, PoolInv, PoolUp, WorkerInv, WorkerOK, Awaiting, Stopping,
     PersistentStage
<1>6. CountInv /\ JobInv /\ GroupInv
  BY <1>1, <1>2, PhaseNames DEF CountInv, JobInv, GroupInv
<1>7. ExecInv
  BY <1>1, <1>2 DEF ExecInv
<1> QED BY <1>3, <1>4, <1>5, <1>6, <1>7 DEF IndInv

\* Stuttering changes nothing.
LEMMA StutterSafe == ASSUME IndInv, UNCHANGED vars PROVE IndInv'
<1>1. holder' = holder /\ phase' = phase
  BY DEF vars, holder, phase, HolderOf, PhaseOf
<1>2. TypeOK' /\ GateInv' /\ ExecInv'
  BY <1>1 DEF vars, IndInv, TypeOK, GateInv, ExecInv
<1>3. (PoolUp' <=> PoolUp) /\ Published' = Published /\ Stopped' = Stopped
  BY <1>1 DEF vars, PoolUp, Published, Stopped
<1>4. ASSUME NEW w \in Worker PROVE WorkerOK(w)'
  <2>1. WorkerOK(w) BY DEF IndInv, WorkerInv
  <2> QED
    BY <1>1, <1>3, <2>1 DEF vars, WorkerOK, Quiet, Leaving, Helping, Starting, taskIndex
<1>5. PoolInv' BY <1>1, <1>3 DEF vars, IndInv, PoolInv
<1>6. CountInv' BY <1>1, <1>3 DEF vars, IndInv, CountInv, Quiet
<1>7. JobInv' /\ GroupInv' BY <1>1, <1>3 DEF vars, IndInv, JobInv, GroupInv
<1> QED BY <1>2, <1>4, <1>5, <1>6, <1>7 DEF IndInv, WorkerInv

\* Every step of the program preserves the invariant.
LEMMA StepSafe == IndInv /\ [Next]_vars => IndInv'
<1> SUFFICES ASSUME IndInv, [Next]_vars PROVE IndInv' OBVIOUS
<1>1. CASE UNCHANGED vars BY <1>1, StutterSafe
<1>2. CASE \E v \in Overrides : setMaxThreads(v) BY <1>2, setMaxThreadsSafe
<1>3. ASSUME NEW c \in Callers, \E entry \in Entries, m \in Counts : Call(c, entry, m)
      PROVE  IndInv'
  BY <1>3, CallSafe
<1>4. ASSUME NEW c \in Callers, ShutdownLock(c) PROVE IndInv' BY <1>4, ShutdownLockSafe
<1>5. ASSUME NEW c \in Callers, CallerSpuriousWake(c) PROVE IndInv' BY <1>5, CallerSpuriousWakeSafe
<1>6. ASSUME NEW c \in Callers, CallerStep(c) PROVE IndInv'
  BY <1>6, RefuseSafe, AdmitSafe, ReleaseSafe, FallbackSafe, LeaveSafe,
     ensurePersistentWorkersSafe, StartNoWorkersSafe, StartWorkersSafe, AwaitReadySafe,
     PlanRefuseSafe, PlanSafe, PublishSafe, RunTaskZeroSafe, AllDoneSafe, LateWakeSafe,
     SleepUntilDoneSafe, ensureIoThreadedSafe, InitIoSafe, CheckIoSafe, SubmitTaskSafe,
     GroupTaskZeroSafe, AwaitGroupSafe, shutdownPersistentLockedSafe, ShutdownBumpSafe,
     AwaitExitSafe, JoinSafe, shutdownIoThreadedLockedSafe, ShutdownUnlockSafe
     DEF CallerStep
<1>7. ASSUME NEW w \in Worker, WorkerStep(w) \/ WorkerSpuriousWake(w) PROVE IndInv'
  BY <1>7, WorkerBootSafe, WorkerAnnounceSafe, WorkerNoticeSafe, WorkerParkSafe, WorkerSleepSafe,
     WorkerStopSafe, WorkerDispatchSafe, WorkerTaskSafe, WorkerAckSafe, WorkerExitSafe,
     WorkerExitWakeSafe, WorkerSpuriousWakeSafe
     DEF WorkerStep
<1>8. ASSUME NEW i \in Region, runIoTask(i) PROVE IndInv' BY <1>8, runIoTaskSafe
<1> QED BY <1>1, <1>2, <1>3, <1>4, <1>5, <1>6, <1>7, <1>8 DEF Next

\* The inductive invariant holds in every reachable state of thread_pool.zig's
\* protocol.
THEOREM Invariance == Spec => []IndInv
<1> QED BY InitSafe, StepSafe, PTL DEF Spec

\* Every variable stays in its range; in particular each worker index used by
\* publication, dispatch and shutdown stays inside the max_tasks-sized arrays.
THEOREM TypeCorrect == Spec => []TypeOK
<1>1. IndInv => TypeOK BY DEF IndInv
<1> QED BY <1>1, Invariance, PTL

\* run and runLowLatency answer true with every task run exactly once, and
\* false with none run, so that the caller's fallback is right.
THEOREM TasksOnce == Spec => []ExactlyOnce
<1>1. IndInv => ExactlyOnce
  BY DEF IndInv, ExecInv, ExactlyOnce, PersistentStage, GroupStage
<1> QED BY <1>1, Invariance, PTL

\* Whoever is about to read a task array through a queued pointer finds the
\* caller that owns it still inside the run.
THEOREM ArraysOutliveTasks == Spec => []NoUseAfterReturn
<1>1. ASSUME IndInv, NEW w \in Worker, wpc[w] = "task"
      PROVE  \E c \in Callers : c = local[w].owner /\ pc[c] \in PersistentStage
  <2>1. phase \in PersistentStage /\ Helping(w)
    BY <1>1, WorkerCase DEF Starting, Leaving, Quiet, Rest
  <2>2. local[w].owner = holder BY <1>1, <2>1 DEF Helping
  <2>3. holder \in Callers /\ pc[holder] = phase BY <2>1, HolderExists, PhaseNames
  <2> QED BY <2>1, <2>2, <2>3
<1>2. ASSUME IndInv, NEW i \in Region, group[i] # None
      PROVE  \E c \in Callers : c = group[i] /\ pc[c] \in GroupStage
  <2>1. phase \in GroupStage /\ group[i] = holder BY <1>2 DEF IndInv, GroupInv
  <2>2. holder \in Callers /\ pc[holder] = phase BY <2>1, HolderExists, PhaseNames
  <2> QED BY <2>1, <2>2
<1>3. IndInv => NoUseAfterReturn BY <1>1, <1>2 DEF NoUseAfterReturn
<1> QED BY <1>3, Invariance, PTL

\* The plain payload variables are written only while no helper reads them.
THEOREM PayloadNeverRaces == Spec => []PayloadQuiescent
<1>1. ASSUME IndInv, NEW c \in Callers, pc[c] = "plan", NEW w \in Worker
      PROVE  /\ wpc[w] \notin {"dispatch", "task", "ack"}
             /\ wpc[w] \in {"spin", "park", "asleep"} => generation[w] = seen[w]
  <2>1. \A d \in Callers : pc[d] \in HoldStage => d = c
    BY <1>1 DEF IndInv, GateInv, HoldStage, StartStage
  <2>2. phase = "plan"
    BY <1>1, <2>1, HolderIs DEF phase, HoldStage, StartStage
  <2>3. CASE wpc[w] # "none"
    <3>1. Quiet(w)
      BY <1>1, <2>2, <2>3, WorkerCase DEF Awaiting, PersistentStage, Stopping
    <3> QED BY <3>1 DEF Quiet, Rest
  <2> QED BY <2>3
<1>2. IndInv => PayloadQuiescent BY <1>1 DEF PayloadQuiescent
<1> QED BY <1>2, Invariance, PTL

\* After shutdown, and while the pool is off, there is no worker thread.
THEOREM ShutdownLeavesNoWorker == Spec => []NoWorkerLeft
<1>1. ASSUME IndInv, poolState \in {0, 3}, NEW w \in Worker PROVE wpc[w] = "none"
  BY <1>1, WorkerCase DEF IndInv, PoolInv, PoolUp
<1>2. IndInv => NoWorkerLeft BY <1>1 DEF NoWorkerLeft
<1> QED BY <1>2, Invariance, PTL

-----------------------------------------------------------------------------
(* ThreadPool implements TaskRuntime: under the inductive invariant every step of           *)
(* thread_pool.zig is one step of the promised runtime, as the calling routine sees it, or   *)
(* changes nothing the routine can see.                                                      *)

stageOf(p) ==
  CASE p \in StopStage \cup {"idle"} -> "idle"
    [] p \in {"accepted", "refused", "settled"} -> p
    [] OTHER -> "open"

callers == [c \in Callers |-> stage(c)]

\* A caller's stage depends on its own position only.
LEMMA StageIs ==
  /\ \A c \in Callers : stage(c) = stageOf(pc[c])
  /\ callers = [c \in Callers |-> stageOf(pc[c])]
  /\ callers' = [c \in Callers |-> stageOf(pc'[c])]
BY DEF stage, stageOf, callers

\* The stages of a run under way are seen as "open", those of shutdown as "idle".
LEMMA StageNames ==
  /\ stageOf("idle") = "idle" /\ stageOf("accepted") = "accepted"
  /\ stageOf("refused") = "refused" /\ stageOf("settled") = "settled"
  /\ \A p \in StopStage : stageOf(p) = "idle"
  /\ \A p \in PersistentStage \cup GroupStage \cup StartStage \cup IoStage
              \cup {"run", "runLowLatency", "true", "false"} : stageOf(p) = "open"
BY DEF stageOf, StopStage, PersistentStage, GroupStage, StartStage, IoStage

\* A step that moves no stage and writes nothing is a stutter of TaskRuntime.
LEMMA SameStages ==
  ASSUME callers' = callers, UNCHANGED <<size, exec>>
  PROVE  UNCHANGED TR!tvars
BY DEF TR!tvars, callers

\* One caller moves: its stage changes, the stages of the others do not.
LEMMA OneMoves ==
  ASSUME TypeOK, NEW c \in Callers, NEW from, NEW to, Goto(c, from, to)
  PROVE  /\ callers' = [callers EXCEPT ![c] = stageOf(to)]
         /\ callers[c] = stageOf(from) /\ pc[c] = from
BY StageIs DEF Goto, TypeOK

\* A move between positions of the same stage cannot be seen.
LEMMA HiddenMove ==
  ASSUME TypeOK, NEW c \in Callers, NEW from, NEW to, Goto(c, from, to),
         stageOf(from) = stageOf(to), UNCHANGED <<size, exec>>
  PROVE  UNCHANGED TR!tvars
<1>1. \A d \in Callers : stageOf(pc'[d]) = stageOf(pc[d]) BY DEF Goto, TypeOK
<1>2. callers' = callers BY <1>1, StageIs
<1> QED BY <1>2, SameStages

\* Nor can waking a caller, which stays in the stage it sleeps in.
LEMMA HiddenWake ==
  ASSUME TypeOK, NEW asleep, NEW awake, WakeCaller(asleep, awake),
         stageOf(asleep) = stageOf(awake), UNCHANGED <<size, exec>>
  PROVE  UNCHANGED TR!tvars
<1>1. \A c \in Callers : stageOf(pc'[c]) = stageOf(pc[c]) BY DEF WakeCaller
<1>2. callers' = callers BY <1>1, StageIs
<1> QED BY <1>2, SameStages

\* Nor a step of which callers have no part.
LEMMA HiddenStep ==
  ASSUME UNCHANGED <<pc, size, exec>>
  PROVE  UNCHANGED TR!tvars
<1>1. callers' = callers BY StageIs
<1> QED BY <1>1, SameStages

-----------------------------------------------------------------------------
\* Only the holder of io_busy has run some of its tasks and not all.
LEMMA OthersNotPartial ==
  ASSUME IndInv, NEW c \in Callers, pc[c] \in HoldStage
  PROVE  \A d \in Callers \ {c} : ~TR!Partial(d)
<1> SUFFICES ASSUME NEW d \in Callers \ {c}, callers[d] = "open", exec[d] # TR!NoWrites PROVE FALSE
  BY DEF TR!Partial, callers
<1>1. pc[d] \notin HoldStage BY DEF IndInv, GateInv
<1>2. exec[d] # NoWrites BY DEF TR!NoWrites, TR!Region, NoWrites, Region
<1>3. pc[d] \in {"accepted", "settled"}
  BY <1>1, <1>2 DEF IndInv, ExecInv, HoldStage
<1> QED BY <1>3, StageIs, StageNames

\* Wherever a task runs, it is the task's first run and nobody else's call is
\* partly done.
LEMMA ExecutesOnce ==
  ASSUME IndInv, NEW c \in Callers, pc[c] \in PersistentStage \cup GroupStage,
         NEW i \in Region, i < size[c], exec[c][i] = 0,
         exec' = [exec EXCEPT ![c][i] = @ + 1], UNCHANGED size, callers' = callers
  PROVE  TR!Next
<1>1. callers[c] = "open" BY StageIs, StageNames
<1>2. \A d \in Callers \ {c} : ~TR!Partial(d) BY OthersNotPartial DEF HoldStage
<1>3. exec' = [exec EXCEPT ![c][i] = 1] BY DEF IndInv, TypeOK
<1>4. TR!Execute(c, i) BY <1>1, <1>2, <1>3 DEF TR!Execute, callers
<1> QED BY <1>4 DEF TR!Next, TR!Region, Region

-----------------------------------------------------------------------------
(* What the calling routine sees.                                          *)

\* Entering run or runLowLatency begins an operation.
LEMMA CallVisible ==
  ASSUME IndInv, NEW c \in Callers, NEW entry \in Entries, NEW m \in Counts, Call(c, entry, m)
  PROVE  TR!Next
<1>1. callers[c] = "idle" /\ callers' = [callers EXCEPT ![c] = "open"]
  <2>1. Goto(c, "idle", entry) /\ TypeOK BY DEF Call, IndInv
  <2>2. stageOf(entry) = "open" BY StageNames
  <2> QED BY <2>1, <2>2, OneMoves, StageNames
<1>2. m \in 0 .. MaxCount OBVIOUS
<1>3. TR!Begin(c, m) BY <1>1 DEF TR!Begin, Call, callers
<1> QED BY <1>2, <1>3 DEF TR!Next

\* A single task, or io_busy taken: refused with nothing done.
LEMMA RefuseVisible ==
  ASSUME IndInv, NEW c \in Callers, Refuse(c)
  PROVE  TR!Next
<1>1. PICK from \in {"run", "runLowLatency"} : Goto(c, from, "refused") BY DEF Refuse
<1>2. callers[c] = "open" /\ callers' = [callers EXCEPT ![c] = "refused"] /\ pc[c] = from
  BY <1>1, OneMoves, StageNames DEF IndInv
<1>3. exec[c] = TR!NoWrites
  BY <1>2 DEF IndInv, ExecInv, PersistentStage, GroupStage, TR!NoWrites, TR!Region, NoWrites, Region
<1>4. TR!Refuse(c) BY <1>2, <1>3 DEF TR!Refuse, Refuse, callers
<1> QED BY <1>4 DEF TR!Next

\* The answer of an admitted run: true after every task, false after none.
LEMMA ReleaseVisible ==
  ASSUME IndInv, NEW c \in Callers, Release(c)
  PROVE  TR!Next
<1>1. CASE Goto(c, "true", "accepted")
  <2>1. callers[c] = "open" /\ callers' = [callers EXCEPT ![c] = "accepted"] /\ pc[c] = "true"
    BY <1>1, OneMoves, StageNames DEF IndInv
  <2>2. exec[c] = TR!WrittenOnce(size[c])
    BY <2>1 DEF IndInv, ExecInv, TR!WrittenOnce, TR!Region, WrittenOnce, Region
  <2>3. TR!Accept(c) BY <2>1, <2>2 DEF TR!Accept, Release, callers
  <2> QED BY <2>3 DEF TR!Next
<1>2. CASE Goto(c, "false", "refused")
  <2>1. callers[c] = "open" /\ callers' = [callers EXCEPT ![c] = "refused"] /\ pc[c] = "false"
    BY <1>2, OneMoves, StageNames DEF IndInv
  <2>2. exec[c] = TR!NoWrites
    BY <2>1 DEF IndInv, ExecInv, PersistentStage, GroupStage, TR!NoWrites, TR!Region, NoWrites, Region
  <2>3. TR!Refuse(c) BY <2>1, <2>2 DEF TR!Refuse, Release, callers
  <2> QED BY <2>3 DEF TR!Next
<1> QED BY <1>1, <1>2 DEF Release

\* `if (!run(...))` and the whole operation in the caller.
LEMMA FallbackVisible ==
  ASSUME IndInv, NEW c \in Callers, Fallback(c)
  PROVE  TR!Next
<1>1. callers[c] = "refused" /\ callers' = [callers EXCEPT ![c] = "settled"]
  BY OneMoves, StageNames DEF Fallback, IndInv
<1>2. TR!Fallback(c)
  BY <1>1 DEF TR!Fallback, Fallback, callers, TR!WrittenOnce, TR!Region, WrittenOnce, Region
<1> QED BY <1>2 DEF TR!Next

\* The routine returns.
LEMMA LeaveVisible ==
  ASSUME IndInv, NEW c \in Callers, Leave(c)
  PROVE  TR!Next
<1>1. /\ callers[c] \in {"accepted", "settled"}
      /\ callers' = [callers EXCEPT ![c] = "idle"]
  BY OneMoves, StageNames DEF Leave, IndInv
<1>2. TR!Finish(c)
  BY <1>1 DEF TR!Finish, Leave, callers, TR!NoWrites, TR!Region, NoWrites, Region
<1> QED BY <1>2 DEF TR!Next

-----------------------------------------------------------------------------
(* The places that run a task.                                             *)

\* The caller's own task 0, with helpers or with a group.
LEMMA TaskZeroVisible ==
  ASSUME IndInv, NEW c \in Callers, RunTaskZero(c) \/ GroupTaskZero(c)
  PROVE  TR!Next
<1>1. PICK from, to :
         /\ Goto(c, from, to)
         /\ \/ from = "self" /\ to = "awaitDone"
            \/ from = "groupSelf" /\ to = "awaitGroup"
  BY DEF RunTaskZero, GroupTaskZero
<1>2. pc[c] = from /\ from \in PersistentStage \cup GroupStage /\ from \in HoldStage
  BY <1>1 DEF Goto, PersistentStage, GroupStage, HoldStage
<1>3. callers' = callers
  <2>1. \A d \in Callers : stageOf(pc'[d]) = stageOf(pc[d])
    BY <1>1, StageNames DEF Goto, IndInv, TypeOK, PersistentStage, GroupStage
  <2> QED BY <2>1, StageIs
<1>4. holder = c /\ phase = from
  BY <1>2, HolderIs DEF IndInv, GateInv, holder, phase
<1>5. 0 \in Region /\ 0 < size[c]
  BY <1>4, <1>2 DEF IndInv, ExecInv, TypeOK, Region, PersistentStage, GroupStage, StopStage
<1>6. exec[c][0] = 0
  BY <1>1, <1>4, <1>5 DEF IndInv, JobInv, GroupInv, PersistentStage, GroupStage
<1> QED BY <1>2, <1>3, <1>5, <1>6, ExecutesOnce DEF RunTaskZero, GroupTaskZero

\* A task goes to the group unseen; one the group does not take is run at once.
LEMMA SubmitVisible ==
  ASSUME IndInv, NEW c \in Callers, SubmitTask(c)
  PROVE  TR!Next \/ UNCHANGED TR!tvars
<1>1. PICK to \in {"submit", "groupSelf"} : Goto(c, "submit", to) BY DEF SubmitTask
<1>2. pc[c] = "submit" /\ "submit" \in GroupStage /\ "submit" \in HoldStage
  BY <1>1 DEF Goto, GroupStage, HoldStage
<1>3. stageOf(to) = stageOf("submit") BY StageNames DEF GroupStage
<1>4. CASE UNCHANGED exec
  BY <1>1, <1>3, <1>4, HiddenMove DEF IndInv, SubmitTask
<1>5. CASE exec' = [exec EXCEPT ![c][k] = @ + 1]
  <2>1. callers' = callers
    <3>1. \A d \in Callers : stageOf(pc'[d]) = stageOf(pc[d])
      BY <1>1, <1>3 DEF Goto, IndInv, TypeOK
    <3> QED BY <3>1, StageIs
  <2>2. holder = c /\ phase = "submit"
    BY <1>2, HolderIs DEF IndInv, GateInv, holder, phase
  <2>3. k \in Region /\ k < size[c] /\ exec[c][k] = 0
    BY <1>2, <2>2 DEF IndInv, GroupInv, TypeOK, Region
  <2> QED BY <1>2, <1>5, <2>1, <2>3, ExecutesOnce DEF SubmitTask
<1> QED BY <1>4, <1>5 DEF SubmitTask

\* A thread of io_threaded runs a queued task.
LEMMA runIoTaskVisible ==
  ASSUME IndInv, NEW i \in Region, runIoTask(i)
  PROVE  TR!Next
<1>1. /\ phase \in GroupStage /\ group[i] = holder /\ exec[holder][i] = 0 /\ i >= 1
      /\ i < (IF phase = "submit" THEN k ELSE size[holder])
      /\ holder \in Callers /\ pc[holder] = phase
  BY HolderExists, PhaseNames DEF runIoTask, IndInv, GroupInv, TypeOK
<1>2. i < size[holder]
  BY <1>1 DEF IndInv, GroupInv, TypeOK, Region
<1>3. callers' = callers BY StageIs DEF runIoTask
<1> QED BY <1>1, <1>2, <1>3, ExecutesOnce DEF runIoTask

\* A persistent worker runs the task its index names.
LEMMA WorkerTaskVisible ==
  ASSUME IndInv, NEW w \in Worker, WorkerTask(w)
  PROVE  TR!Next
<1>1. phase \in PersistentStage /\ w \in Published /\ Helping(w) /\ wpc[w] = "task"
  BY WorkerCase DEF WorkerTask, WorkerGoto, Starting, Leaving, Quiet, Rest
<1>2. holder \in Callers /\ pc[holder] = phase BY <1>1, HolderExists, PhaseNames
<1>3. taskIndex(w) \in Region /\ taskIndex(w) < size[holder]
  BY <1>1, <1>2, JobFacts DEF IndInv
<1>4. /\ local[w] = [owner |-> holder, index |-> taskIndex(w), target |-> job.active]
      /\ exec[holder][taskIndex(w)] = 0
  BY <1>1, <1>2, <1>3 DEF Helping, IndInv, TypeOK
<1>5. exec' = [exec EXCEPT ![holder][taskIndex(w)] = @ + 1]
  <2>1. local[w].owner = holder /\ local[w].index = taskIndex(w) BY <1>4
  <2>2. exec' = [exec EXCEPT ![local[w].owner][local[w].index] = @ + 1] BY DEF WorkerTask
  <2> QED BY <2>1, <2>2
<1>6. callers' = callers /\ UNCHANGED size BY StageIs DEF WorkerTask
<1> QED BY <1>1, <1>2, <1>3, <1>4, <1>5, <1>6, ExecutesOnce

-----------------------------------------------------------------------------
(* What it does not see.                                                   *)

\* Admission and the steps of a run that run no task stay inside the call.
LEMMA RunHidden ==
  ASSUME IndInv, NEW c \in Callers,
         \/ Admit(c) \/ ensurePersistentWorkers(c) \/ StartNoWorkers(c)
         \/ \E m \in 0 .. configuredHelperCount : StartWorkers(c, m)
         \/ AwaitReady(c) \/ PlanRefuse(c) \/ Plan(c) \/ Publish(c)
         \/ AllDone(c) \/ LateWake(c) \/ SleepUntilDone(c)
         \/ ensureIoThreaded(c) \/ InitIo(c) \/ CheckIo(c) \/ AwaitGroup(c)
  PROVE  UNCHANGED TR!tvars
<1> DEFINE Inside == PersistentStage \cup GroupStage \cup StartStage \cup IoStage
                     \cup {"run", "runLowLatency", "true", "false"}
<1>1. PICK from \in Inside, to \in Inside : Goto(c, from, to)
  <2>1. CASE Admit(c) BY <2>1 DEF Admit, IoStage, StartStage
  <2>2. CASE ensurePersistentWorkers(c)
    BY <2>2 DEF ensurePersistentWorkers, IoStage, StartStage
  <2>3. CASE StartNoWorkers(c) BY <2>3 DEF StartNoWorkers, IoStage, StartStage
  <2>4. CASE \E m \in 0 .. configuredHelperCount : StartWorkers(c, m)
    BY <2>4 DEF StartWorkers, IoStage, StartStage
  <2>5. CASE AwaitReady(c) BY <2>5 DEF AwaitReady, StartStage
  <2>6. CASE PlanRefuse(c) BY <2>6 DEF PlanRefuse, IoStage, StartStage
  <2>7. CASE Plan(c) BY <2>7 DEF Plan, StartStage, PersistentStage
  <2>8. CASE Publish(c) BY <2>8 DEF Publish, PersistentStage
  <2>9. CASE AllDone(c) BY <2>9 DEF AllDone, PersistentStage
  <2>10. CASE LateWake(c) BY <2>10 DEF LateWake, PersistentStage
  <2>11. CASE SleepUntilDone(c) BY <2>11 DEF SleepUntilDone, PersistentStage
  <2>12. CASE ensureIoThreaded(c) BY <2>12 DEF ensureIoThreaded, IoStage
  <2>13. CASE InitIo(c) BY <2>13 DEF InitIo, IoStage
  <2>14. CASE CheckIo(c) BY <2>14 DEF CheckIo, IoStage, GroupStage
  <2>15. CASE AwaitGroup(c) BY <2>15 DEF AwaitGroup, GroupStage
  <2> QED BY <2>1, <2>2, <2>3, <2>4, <2>5, <2>6, <2>7, <2>8, <2>9, <2>10, <2>11, <2>12, <2>13,
             <2>14, <2>15
<1>2. stageOf(from) = stageOf(to) BY StageNames
<1>3. UNCHANGED <<size, exec>>
  BY DEF Admit, ensurePersistentWorkers, StartNoWorkers, StartWorkers, AwaitReady, PlanRefuse, Plan,
         Publish, AllDone, LateWake, SleepUntilDone, ensureIoThreaded, InitIo, CheckIo, AwaitGroup
<1> QED BY <1>1, <1>2, <1>3, HiddenMove DEF IndInv

\* Shutdown is no operation on tasks: its caller is seen as idle throughout.
LEMMA StopHidden ==
  ASSUME IndInv, NEW c \in Callers,
         \/ ShutdownLock(c) \/ shutdownPersistentLocked(c) \/ ShutdownBump(c) \/ AwaitExit(c)
         \/ Join(c) \/ shutdownIoThreadedLocked(c) \/ ShutdownUnlock(c)
  PROVE  UNCHANGED TR!tvars
<1>1. PICK from \in StopStage \cup {"idle"}, to \in StopStage \cup {"idle"} : Goto(c, from, to)
  BY DEF ShutdownLock, shutdownPersistentLocked, ShutdownBump, AwaitExit, Join,
         shutdownIoThreadedLocked, ShutdownUnlock, StopStage
<1>2. stageOf(from) = stageOf(to) BY StageNames
<1>3. UNCHANGED <<size, exec>>
  BY DEF ShutdownLock, shutdownPersistentLocked, ShutdownBump, AwaitExit, Join,
         shutdownIoThreadedLocked, ShutdownUnlock
<1> QED BY <1>1, <1>2, <1>3, HiddenMove DEF IndInv

\* A caller that wakes for no reason.
LEMMA SpuriousHidden ==
  ASSUME IndInv, NEW c \in Callers, CallerSpuriousWake(c)
  PROVE  UNCHANGED TR!tvars
<1>1. PICK from, to :
         /\ Goto(c, from, to)
         /\ \/ from = "doneSleep" /\ to = "awaitWoken"
            \/ from = "readySleep" /\ to = "awaitReady"
            \/ from = "exitSleep" /\ to = "awaitExit"
  BY DEF CallerSpuriousWake
<1>2. stageOf(from) = stageOf(to)
  BY <1>1, StageNames DEF PersistentStage, StartStage, StopStage
<1>3. UNCHANGED <<size, exec>> BY DEF CallerSpuriousWake
<1> QED BY <1>1, <1>2, <1>3, HiddenMove DEF IndInv

\* A worker's steps, other than its task, at most wake a caller.
LEMMA WorkerHidden ==
  ASSUME IndInv, NEW w \in Worker, WorkerStep(w) \/ WorkerSpuriousWake(w), ~WorkerTask(w)
  PROVE  UNCHANGED TR!tvars
<1>1. CASE WorkerAnnounce(w)
  <2>1. stageOf("readySleep") = stageOf("awaitReady") BY StageNames DEF StartStage
  <2> QED BY <1>1, <2>1, HiddenWake DEF WorkerAnnounce, IndInv
<1>2. CASE WorkerAck(w)
  <2>1. stageOf("doneSleep") = stageOf("awaitWoken") BY StageNames DEF PersistentStage
  <2>2. UNCHANGED <<size, exec>> BY <1>2 DEF WorkerAck
  <2>3. CASE WakeCaller("doneSleep", "awaitWoken") BY <2>1, <2>2, <2>3, HiddenWake DEF IndInv
  <2>4. CASE UNCHANGED pc BY <2>2, <2>4, HiddenStep
  <2> QED BY <1>2, <2>3, <2>4 DEF WorkerAck
<1>3. CASE WorkerExitWake(w)
  <2>1. stageOf("exitSleep") = stageOf("awaitExit") BY StageNames DEF StopStage
  <2> QED BY <1>3, <2>1, HiddenWake DEF WorkerExitWake, IndInv
<1>4. CASE \/ WorkerBoot(w) \/ WorkerNotice(w) \/ WorkerPark(w) \/ WorkerSleep(w)
           \/ WorkerStop(w) \/ WorkerDispatch(w) \/ WorkerExit(w) \/ WorkerSpuriousWake(w)
  BY <1>4, HiddenStep DEF WorkerBoot, WorkerNotice, WorkerPark, WorkerSleep, WorkerStop,
     WorkerDispatch, WorkerExit, WorkerSpuriousWake
<1> QED BY <1>1, <1>2, <1>3, <1>4 DEF WorkerStep

-----------------------------------------------------------------------------
\* No call is under way when the library is loaded.
LEMMA InitVisible == Init => TR!Init
<1> SUFFICES ASSUME Init PROVE TR!Init OBVIOUS
<1>1. callers = [c \in Callers |-> "idle"] BY StageIs, StageNames DEF Init
<1> QED BY <1>1 DEF TR!Init, Init, callers, TR!NoWrites, TR!Region, NoWrites, Region

\* Every step of the program is a step of the promise, or invisible.
LEMMA StepVisible == IndInv /\ [Next]_vars => [TR!Next]_(TR!tvars)
<1> SUFFICES ASSUME IndInv, [Next]_vars PROVE TR!Next \/ UNCHANGED TR!tvars OBVIOUS
<1>1. CASE UNCHANGED vars BY <1>1, HiddenStep DEF vars
<1>2. CASE \E v \in Overrides : setMaxThreads(v) BY <1>2, HiddenStep DEF setMaxThreads
<1>3. ASSUME NEW c \in Callers, \E entry \in Entries, m \in Counts : Call(c, entry, m)
      PROVE  TR!Next
  BY <1>3, CallVisible
<1>4. ASSUME NEW c \in Callers, ShutdownLock(c) PROVE UNCHANGED TR!tvars
  BY <1>4, StopHidden
<1>5. ASSUME NEW c \in Callers, CallerSpuriousWake(c) PROVE UNCHANGED TR!tvars
  BY <1>5, SpuriousHidden
<1>6. ASSUME NEW c \in Callers, CallerStep(c) PROVE TR!Next \/ UNCHANGED TR!tvars
  BY <1>6, RefuseVisible, ReleaseVisible, FallbackVisible, LeaveVisible, TaskZeroVisible,
     SubmitVisible, RunHidden, StopHidden DEF CallerStep
<1>7. ASSUME NEW w \in Worker, WorkerStep(w) \/ WorkerSpuriousWake(w)
      PROVE  TR!Next \/ UNCHANGED TR!tvars
  BY <1>7, WorkerTaskVisible, WorkerHidden
<1>8. ASSUME NEW i \in Region, runIoTask(i) PROVE TR!Next BY <1>8, runIoTaskVisible
<1> QED BY <1>1, <1>2, <1>3, <1>4, <1>5, <1>6, <1>7, <1>8 DEF Next

\* run and runLowLatency keep the promise of TaskRuntime: each task of a call
\* once and true, or none and false, one call at a time.
THEOREM Implements == Spec => Refines
<1> QED BY InitVisible, StepVisible, Invariance, PTL DEF Spec, Refines, TR!Spec
=============================================================================
