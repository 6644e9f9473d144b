---------------------------- MODULE ProcessTree ----------------------------
(***************************************************************************)
(* What a command started in a session of its own may do, as the tools     *)
(* that run one see it: the leader, descendants in its process group,      *)
(* descendants that left the group, and two output pipes.  All of it is    *)
(* outside the repository.  A zombie leader still belongs to its group;    *)
(* SIGTERM may be ignored; SIGKILL ends user code at once, the process a   *)
(* little later.                                                           *)
(***************************************************************************)
EXTENDS Naturals

CONSTANTS Streams,      \* stdout and stderr
          MaxWrites,    \* bound on the chunks written to each
          MaxHelpers    \* bound on descendants alive at once

VARIABLES leader,       \* "none", "running", "zombie" or "reaped"
          code,         \* exit status: "none", "zero", "nonzero" or "signal"
          helpers,      \* live descendants in the group
          strays,       \* live descendants in sessions of their own
          doomed,       \* the group was sent SIGKILL
          quiet,        \* descendants have closed the pipes they inherited
          wrote, pipe   \* stream -> chunks written, chunks not yet read

tree == <<leader, code, helpers, strays, doomed, quiet, wrote, pipe>>

TreeOK == /\ leader \in {"none", "running", "zombie", "reaped"}
          /\ code \in {"none", "zero", "nonzero", "signal"}
          /\ helpers \in 0 .. MaxHelpers /\ strays \in 0 .. MaxHelpers
          /\ doomed \in BOOLEAN /\ quiet \in BOOLEAN
          /\ wrote \in [Streams -> 0 .. MaxWrites]
          /\ pipe \in [Streams -> 0 .. MaxWrites]

TreeInit == /\ leader = "none" /\ code = "none" /\ helpers = 0 /\ strays = 0 /\ doomed = FALSE
            /\ quiet \in BOOLEAN
            /\ wrote = [s \in Streams |-> 0] /\ pipe = [s \in Streams |-> 0]

GroupRuns   == leader = "running" \/ helpers > 0
GroupExists == leader \in {"running", "zombie"} \/ helpers > 0
Writes      == \/ leader = "running" /\ ~doomed
               \/ ~quiet /\ ((helpers > 0 /\ ~doomed) \/ strays > 0)
AtEnd(s)    == pipe[s] = 0 /\ leader # "running" /\ (quiet \/ helpers + strays = 0)

\* killpg: the group is gone, the signal is sent, or the system refuses.
Signalled == IF GroupExists THEN {"sent", "refused"} ELSE {"gone"}

Start == leader' = "running" /\ UNCHANGED <<code, helpers, strays, doomed, quiet, wrote, pipe>>

Reap == leader = "zombie" /\ leader' = "reaped"

LeaderExits == /\ leader = "running" /\ leader' = "zombie"
               /\ code' \in IF doomed THEN {"signal"} ELSE {"zero", "nonzero", "signal"}
               /\ UNCHANGED <<helpers, strays, doomed, quiet, wrote, pipe>>

HelperStarts == /\ GroupRuns /\ ~doomed /\ helpers + strays < MaxHelpers
                /\ helpers' = helpers + 1
                /\ UNCHANGED <<leader, code, strays, doomed, quiet, wrote, pipe>>

HelperLeaves == /\ helpers > 0 /\ ~doomed
                /\ helpers' = helpers - 1 /\ strays' = strays + 1
                /\ UNCHANGED <<leader, code, doomed, quiet, wrote, pipe>>

HelperExits == /\ \/ helpers > 0 /\ helpers' = helpers - 1 /\ UNCHANGED strays
                  \/ strays > 0 /\ strays' = strays - 1 /\ UNCHANGED helpers
               /\ UNCHANGED <<leader, code, doomed, quiet, wrote, pipe>>

Output == /\ Writes
          /\ \E s \in Streams : /\ wrote[s] < MaxWrites
                                /\ wrote' = [wrote EXCEPT ![s] = @ + 1]
                                /\ pipe' = [pipe EXCEPT ![s] = @ + 1]
          /\ UNCHANGED <<leader, code, helpers, strays, doomed, quiet>>

TreeStep == \/ LeaderExits \/ HelperStarts \/ HelperLeaves \/ HelperExits \/ Output
=============================================================================
