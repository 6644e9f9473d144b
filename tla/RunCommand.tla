----------------------------- MODULE RunCommand -----------------------------
(***************************************************************************)
(* run_command of tools/observe_abi_baseline.py: a tool runs with bounded  *)
(* time and output, and its session (POSIX) or its job (Windows) is killed *)
(* before the result is read.  On Windows the leader is a supervisor that  *)
(* starts the tool only when it is told that it belongs to the job.        *)
(***************************************************************************)
EXTENDS ProcessTree

CONSTANT MaxOutput      \* max_output, in chunks

CommandAssumption == {MaxOutput, MaxWrites, MaxHelpers} \subseteq Nat

VARIABLES
    nt,                 \* os.name == "nt"
    bound, gate,        \* the supervisor is in the job; it was told to go on
    pc,
    timedOut, clean,    \* timed_out, cleanup_ok
    known,              \* code is not None
    reader, buffer,     \* stream -> "idle", "reading", "ended", "broken"; chunks kept
    truncated,          \* stream -> truncated
    joined,
    status              \* CommandResult.status

vars == <<tree, nt, bound, gate, pc, timedOut, clean, known, reader, buffer, truncated, joined,
          status>>

job     == <<nt, bound, gate>>
readers == <<reader, buffer, truncated>>
caller  == <<pc, timedOut, clean, known, joined, status>>

\* "raised": there is no CommandResult, an exception went through run_command.
Statuses == {"none", "tool_missing", "launch_error", "cleanup_error", "timeout", "exited",
             "signaled", "raised"}

TypeOK == /\ TreeOK
          /\ {nt, bound, gate, timedOut, clean, known} \subseteq BOOLEAN
          /\ pc \in {"popen", "bind", "release", "abandon", "wait", "kill", "poll",
                     "force", "last", "join", "result", "done"}
          /\ reader \in [Streams -> {"idle", "reading", "ended", "broken"}]
          /\ buffer \in [Streams -> 0 .. MaxOutput]
          /\ truncated \in [Streams -> BOOLEAN]
          /\ joined \subseteq Streams
          /\ status \in Statuses

Init == /\ TreeInit
        /\ nt \in BOOLEAN /\ bound = FALSE /\ gate = FALSE
        /\ pc = "popen" /\ timedOut = FALSE /\ clean = TRUE /\ known = FALSE
        /\ reader = [s \in Streams |-> "idle"] /\ buffer = [s \in Streams |-> 0]
        /\ truncated = [s \in Streams |-> FALSE]
        /\ joined = {} /\ status = "none"

Ended(said) == pc' = "done" /\ status' = said

-----------------------------------------------------------------------------
Begun(streams) == reader' = [s \in Streams |-> IF s \in streams THEN "reading" ELSE "idle"]

\* The tool goes on, and two threads read its pipes.  A thread that cannot be started
\* raises out of run_command: nobody kills the session, and the reader of stdout may
\* already be at work.
StartReaders ==
    /\ gate' = TRUE
    /\ \/ pc' = "wait" /\ Begun(Streams) /\ UNCHANGED status
       \/ (Begun({}) \/ Begun({"stdout"})) /\ Ended("raised")

Popen ==
    /\ pc = "popen"
    /\ \/ Start /\ nt /\ pc' = "bind" /\ UNCHANGED <<gate, reader, status>>
       \/ Start /\ ~nt /\ StartReaders
       \/ /\ \E said \in {"tool_missing", "launch_error"} : Ended(said)
          /\ UNCHANGED <<tree, gate, reader>>
    /\ UNCHANGED <<nt, bound, timedOut, clean, known, buffer, truncated, joined>>

\* _WindowsJob: the job is made, kills on close, and the supervisor is assigned to it.
BindSupervisor ==
    /\ pc = "bind"
    /\ \/ bound' = TRUE /\ pc' = "release"
       \/ bound' = FALSE /\ pc' = "abandon"
    /\ UNCHANGED <<tree, nt, gate, timedOut, clean, known, readers, joined, status>>

\* One byte on standard input opens the gate; if it cannot be written, the job is
\* terminated and closed.
ReleaseSupervisor ==
    /\ pc = "release"
    /\ \/ StartReaders /\ UNCHANGED doomed
       \/ doomed' = TRUE /\ pc' = "abandon" /\ UNCHANGED <<gate, reader, status>>
    /\ UNCHANGED <<leader, code, helpers, strays, quiet, wrote, pipe, nt, bound, timedOut, clean,
                   known, buffer, truncated, joined>>

Abandon ==
    /\ pc = "abandon"
    /\ \/ ~doomed /\ doomed' = TRUE /\ UNCHANGED <<leader, pc, status>>
       \/ Reap /\ Ended("launch_error") /\ UNCHANGED doomed
       \/ Ended("cleanup_error") /\ UNCHANGED <<leader, doomed>>
    /\ UNCHANGED <<code, helpers, strays, quiet, wrote, pipe, job, timedOut, clean, known,
                   readers, joined>>

\* Up to the bound is kept; the rest is read and dropped, so that the tool goes on.
Captured(s, n) ==
    /\ buffer' = [buffer EXCEPT ![s] = IF @ + n > MaxOutput THEN MaxOutput ELSE @ + n]
    /\ truncated' = [truncated EXCEPT ![s] = @ \/ buffer[s] + n > MaxOutput]

Read(s) ==
    /\ reader[s] = "reading"
    /\ \/ \E n \in 1 .. pipe[s] :
            /\ pipe' = [pipe EXCEPT ![s] = @ - n] /\ Captured(s, n) /\ UNCHANGED reader
       \/ /\ AtEnd(s) /\ reader' = [reader EXCEPT ![s] = "ended"]
          /\ UNCHANGED <<pipe, buffer, truncated>>
       \/ /\ reader' = [reader EXCEPT ![s] = "broken"]
          /\ UNCHANGED <<pipe, buffer, truncated>>
    /\ UNCHANGED <<leader, code, helpers, strays, doomed, quiet, wrote, job, caller>>

Wait ==
    /\ pc = "wait" /\ pc' = "kill"
    /\ \/ Reap /\ known' = TRUE /\ UNCHANGED timedOut
       \/ timedOut' = TRUE /\ UNCHANGED <<leader, known>>
    /\ UNCHANGED <<code, helpers, strays, doomed, quiet, wrote, pipe, job, clean, readers,
                   joined, status>>

\* The whole session, or the whole job, is killed after every command; closing the job
\* kills too.
KillTree ==
    /\ pc = "kill" /\ pc' = "poll"
    /\ IF nt THEN doomed' = TRUE /\ clean' \in BOOLEAN
       ELSE \E said \in Signalled :
              /\ doomed' = (said = "sent")
              /\ clean' = (said # "refused")
    /\ UNCHANGED <<leader, code, helpers, strays, quiet, wrote, pipe, job, timedOut, known,
                   readers, joined, status>>

Poll ==
    /\ pc = "poll"
    /\ \/ leader = "reaped" /\ known' = TRUE /\ pc' = "join" /\ UNCHANGED leader
       \/ Reap /\ known' = TRUE /\ pc' = "join"
       \/ leader # "reaped" /\ pc' = "force" /\ UNCHANGED <<leader, known>>
    /\ UNCHANGED <<code, helpers, strays, doomed, quiet, wrote, pipe, job, timedOut, clean,
                   readers, joined, status>>

\* The leader did not end within the grace period: it alone is killed (that its end may
\* be noticed late is LastWait's), and the cleanup counts as failed.  Where the system
\* refuses, process.kill raises out of run_command.
Force ==
    /\ pc = "force"
    /\ \/ /\ leader = "running" /\ leader' = "zombie" /\ code' = "signal"
          /\ pc' = "last" /\ clean' = FALSE /\ UNCHANGED status
       \/ leader = "zombie" /\ pc' = "last" /\ clean' = FALSE /\ UNCHANGED <<leader, code, status>>
       \/ leader = "running" /\ Ended("raised") /\ UNCHANGED <<leader, code, clean>>
    /\ UNCHANGED <<helpers, strays, doomed, quiet, wrote, pipe, job, timedOut, known,
                   readers, joined>>

LastWait ==
    /\ pc = "last" /\ pc' = "join"
    /\ \/ Reap /\ known' = TRUE
       \/ UNCHANGED <<leader, known>>
    /\ UNCHANGED <<code, helpers, strays, doomed, quiet, wrote, pipe, job, timedOut, clean,
                   readers, joined, status>>

\* The readers that ended within the one grace period they share.
InTime == { s \in Streams : reader[s] # "reading" }

Join ==
    /\ pc = "join"
    /\ \E waited \in BOOLEAN :
         \/ /\ ~waited /\ joined' = InTime
            /\ clean' = (clean /\ joined' = Streams)
            /\ pc' = "result"
         \/ /\ waited /\ InTime = Streams /\ joined' = Streams
            /\ pc' = "result" /\ UNCHANGED clean
    /\ UNCHANGED <<tree, job, timedOut, known, readers, status>>

Status ==
    IF ~clean \/ (\E s \in Streams : reader[s] = "broken") \/ ~known THEN "cleanup_error"
    ELSE IF timedOut THEN "timeout"
    ELSE IF code = "signal" THEN "signaled" ELSE "exited"

Result == /\ pc = "result" /\ Ended(Status)
          /\ UNCHANGED <<tree, job, timedOut, clean, known, readers, joined>>

Caller == \/ Popen \/ BindSupervisor \/ ReleaseSupervisor \/ Abandon \/ Wait \/ KillTree \/ Poll
          \/ Force \/ LastWait \/ Join \/ Result

\* On Windows nothing leaves the job, and behind a closed gate the supervisor only exits.
Outside == /\ pc # "done"
           /\ \/ LeaderExits
              \/ gate /\ (HelperStarts \/ Output)
              \/ HelperExits
              \/ ~nt /\ HelperLeaves
           /\ UNCHANGED <<job, caller, readers>>

Stop == pc = "done" /\ UNCHANGED vars

Next == Caller \/ (\E s \in Streams : pc # "done" /\ Read(s)) \/ Outside \/ Stop

Spec == Init /\ [][Next]_vars
FairSpec == Spec /\ WF_vars(Caller)

-----------------------------------------------------------------------------
(* Properties. *)

\* command_observed.
Observed == status = "exited" /\ code = "zero" /\ \A s \in Streams : ~truncated[s]

\* What an observation is built from is everything the tool wrote.
ObservedIsWhole == Observed => buffer = wrote

\* A result that does not report a failed cleanup left nothing of the session or job
\* that was not told to end by SIGKILL; the leader itself is gone.
NothingRunsOn ==
    status \in {"timeout", "exited", "signaled"} =>
      /\ leader = "reaped"
      /\ helpers > 0 => doomed
      /\ \A s \in Streams : reader[s] # "reading"

\* On Windows the tool never runs outside the job that will kill it.
GateHolds == nt /\ (gate \/ helpers > 0) => bound

\* How far the caller has come when its routine returns.
Done == pc = "done"
=============================================================================
