----------------------------- MODULE RunBounded -----------------------------
(***************************************************************************)
(* run_bounded and require_command of tools/verify_abi_artifact_parity.py: *)
(* a command runs in its own session, two threads drain its pipes up to a  *)
(* bound, the caller waits with a timeout, then makes sure that the        *)
(* process group is gone, and judges the result.  Every wait may time out  *)
(* and every probe may be late.                                            *)
(***************************************************************************)
EXTENDS ProcessTree

CONSTANTS MaxOutput,    \* max_output, in chunks
          MaxProbes     \* probes of the group within one grace period

BoundedAssumption == {MaxOutput, MaxProbes, MaxWrites, MaxHelpers} \subseteq Nat

VARIABLES
    pc, probes,         \* the caller
    drain, buffer,      \* stream -> "idle", "reading", "ended", "broken"; chunks kept
    joined,             \* the drains joined so far
    truncated, timedOut, failure,   \* of the CommandResult
    answer              \* what require_command says

vars == <<tree, pc, probes, drain, buffer, joined, truncated, timedOut, failure, answer>>

caller == <<pc, probes, joined, timedOut, failure, answer>>
drains == <<drain, buffer, truncated>>

NoFailure == "none"
Failures  == {"signal", "probe", "survived", "child", "drain"}
Answers   == {"none", "ok", "command_launch_failed", "process_cleanup_failed",
              "command_timed_out", "command_output_truncated", "command_failed", "raised"}

\* There is no CommandResult: nothing was started, or an exception went through.
NoResult == answer \in {"command_launch_failed", "raised"}

TypeOK == /\ TreeOK
          /\ pc \in {"spawn", "wait", "term", "termprobe", "kill", "killprobe", "reap",
                     "join", "judge", "done"}
          /\ probes \in 0 .. MaxProbes
          /\ drain \in [Streams -> {"idle", "reading", "ended", "broken"}]
          /\ buffer \in [Streams -> 0 .. MaxOutput + 1]
          /\ joined \subseteq Streams
          /\ {truncated, timedOut} \subseteq BOOLEAN
          /\ failure \in Failures \cup {NoFailure}
          /\ answer \in Answers

Init == /\ TreeInit
        /\ pc = "spawn" /\ probes = 0
        /\ drain = [s \in Streams |-> "idle"] /\ buffer = [s \in Streams |-> 0]
        /\ joined = {} /\ truncated = FALSE /\ timedOut = FALSE
        /\ failure = NoFailure /\ answer = "none"

-----------------------------------------------------------------------------
Begun(streams) == drain' = [s \in Streams |-> IF s \in streams THEN "reading" ELSE "idle"]

\* A thread that cannot be started raises out of run_bounded, past every cleanup: the
\* command runs on, and the drain of stdout may already be at work.
Spawn ==
    /\ pc = "spawn"
    /\ \/ Start /\ pc' = "wait" /\ Begun(Streams) /\ UNCHANGED answer
       \/ /\ Start /\ pc' = "done" /\ answer' = "raised"
          /\ Begun({}) \/ Begun({"stdout"})
       \/ pc' = "done" /\ answer' = "command_launch_failed" /\ UNCHANGED <<tree, drain>>
    /\ UNCHANGED <<probes, buffer, joined, truncated, timedOut, failure>>

bugStopsAtTheBound(s, n) ==
    /\ buffer' = [buffer EXCEPT ![s] = IF @ + n > MaxOutput THEN MaxOutput ELSE @ + n]
    /\ truncated' = truncated
\* One chunk more than the bound is kept, so that the overrun is seen.
Keep(s, n) ==
    /\ buffer' = [buffer EXCEPT ![s] = IF @ + n > MaxOutput + 1 THEN MaxOutput + 1 ELSE @ + n]
    /\ truncated' = (truncated \/ buffer[s] + n > MaxOutput)

\* A drain reads what is there; SIGTERM on overrun changes nothing by itself.  A read
\* that raises ends the thread, and nobody looks at why.
Drain(s) ==
    /\ drain[s] = "reading"
    /\ \/ \E n \in 1 .. pipe[s] :
            /\ pipe' = [pipe EXCEPT ![s] = @ - n] /\ Keep(s, n)
            /\ UNCHANGED drain
       \/ /\ AtEnd(s)
          /\ drain' = [drain EXCEPT ![s] = "ended"] /\ UNCHANGED <<pipe, buffer, truncated>>
       \/ /\ drain' = [drain EXCEPT ![s] = "broken"] /\ UNCHANGED <<pipe, buffer, truncated>>
    /\ UNCHANGED <<leader, code, helpers, strays, doomed, quiet, wrote, caller>>

Still == UNCHANGED drains

\* process.wait(timeout): the leader is reaped, or the time is over.
Wait ==
    /\ pc = "wait"
    /\ \/ Reap /\ UNCHANGED timedOut
       \/ timedOut' = TRUE /\ UNCHANGED leader
    /\ pc' = "term"
    /\ UNCHANGED <<code, helpers, strays, doomed, quiet, wrote, pipe, drains, probes, joined, failure,
                   answer>>

Gone(next) == pc' = next /\ probes' = 0 /\ UNCHANGED failure

Cleanup(said) == pc' = "reap" /\ failure' = said /\ UNCHANGED probes

bugNoSigterm ==
    /\ pc = "term"
    /\ pc' = "reap"
    /\ UNCHANGED <<tree, drains, joined, timedOut, answer, probes, failure>>
SendTerm ==
    /\ pc = "term"
    /\ \E said \in Signalled :
         \/ said = "gone" /\ Gone("reap")
         \/ said = "refused" /\ Cleanup("signal")
         \/ said = "sent" /\ Gone("termprobe")
    /\ UNCHANGED <<tree, drains, joined, timedOut, answer>>

\* killpg(pgid, 0) every ten milliseconds until the grace period is over.
ProbeTerm ==
    /\ pc = "termprobe"
    /\ \/ \E said \in Signalled :
            \/ said = "gone" /\ Gone("reap")
            \/ said = "refused" /\ Cleanup("probe")
            \/ /\ said = "sent" /\ probes < MaxProbes
               /\ probes' = probes + 1 /\ UNCHANGED <<pc, failure>>
       \/ Gone("kill")
    /\ UNCHANGED <<tree, drains, joined, timedOut, answer>>

SendKill ==
    /\ pc = "kill"
    /\ \E said \in Signalled :
         \/ said = "gone" /\ Gone("reap") /\ UNCHANGED doomed
         \/ said = "refused" /\ Cleanup("signal") /\ UNCHANGED doomed
         \/ said = "sent" /\ doomed' = TRUE /\ Gone("killprobe")
    /\ UNCHANGED <<leader, code, helpers, strays, quiet, wrote, pipe, drains, joined, timedOut, answer>>

ProbeKill ==
    /\ pc = "killprobe"
    /\ \/ \E said \in Signalled :
            \/ said = "gone" /\ Gone("reap")
            \/ said = "refused" /\ Cleanup("probe")
            \/ /\ said = "sent" /\ probes < MaxProbes
               /\ probes' = probes + 1 /\ UNCHANGED <<pc, failure>>
       \/ Cleanup("survived")
    /\ UNCHANGED <<tree, drains, joined, timedOut, answer>>

\* The leader is waited for once more; an earlier failure is not replaced.
Also(said) == failure' = IF failure = NoFailure THEN said ELSE failure

ReapLeader ==
    /\ pc = "reap" /\ pc' = "join"
    /\ \/ leader = "reaped" /\ UNCHANGED <<leader, failure>>
       \/ Reap /\ UNCHANGED failure
       \/ leader # "reaped" /\ Also("child") /\ UNCHANGED leader
    /\ UNCHANGED <<code, helpers, strays, doomed, quiet, wrote, pipe, drains, probes, joined, timedOut,
                   answer>>

\* A thread that is still reading after the grace period is a failure of the cleanup.
JoinOne(s) == IF drain[s] = "reading" THEN Also("drain") ELSE UNCHANGED failure

Join ==
    /\ pc = "join"
    /\ \E s \in Streams \ joined :
         /\ JoinOne(s)
         /\ joined' = joined \cup {s}
    /\ pc' = IF joined' = Streams THEN "judge" ELSE "join"
    /\ UNCHANGED <<tree, drains, probes, timedOut, answer>>

Verdict ==
    IF failure # NoFailure THEN "process_cleanup_failed"
    ELSE IF timedOut THEN "command_timed_out"
    ELSE IF truncated THEN "command_output_truncated"
    ELSE IF code = "zero" /\ leader = "reaped" THEN "ok" ELSE "command_failed"

RequireCommand ==
    /\ pc = "judge" /\ pc' = "done"
    /\ answer' = Verdict
    /\ UNCHANGED <<tree, drains, probes, joined, timedOut, failure>>

Caller == \/ Spawn \/ Wait \/ SendTerm \/ ProbeTerm \/ SendKill \/ ProbeKill
          \/ ReapLeader \/ Join \/ RequireCommand

Outside == pc # "done" /\ TreeStep /\ UNCHANGED <<caller, drains>>

Stop == pc = "done" /\ UNCHANGED vars

Next == Caller \/ (\E s \in Streams : pc # "done" /\ Drain(s)) \/ Outside \/ Stop

Spec == Init /\ [][Next]_vars

\* The caller's timeouts elapse whatever the command does.
FairSpec == Spec /\ WF_vars(Caller)

-----------------------------------------------------------------------------
(* Properties. *)

\* An accepted command left nobody behind in its group, and all it wrote is in the
\* result: neither a descendant that outlived it nor a late chunk is missed.  (A read
\* that raises loses output unnoticed.)
AcceptedIsWhole ==
    answer = "ok" =>
      /\ ~GroupExists
      /\ \A s \in Streams : drain[s] # "broken" => buffer[s] = wrote[s]

\* A cleanup without complaint means that the group is gone and no drain is left over;
\* this is the docstring of _terminate_group.  (Where a drain cannot be started the
\* cleanup is never reached, and nothing is said of it.)
QuietMeansGone ==
    pc \in {"judge", "done"} /\ failure = NoFailure /\ ~NoResult =>
      /\ ~GroupExists
      /\ \A s \in Streams : drain[s] # "reading"

\* How far the caller has come when its routine returns.
Done == pc = "done"
=============================================================================
