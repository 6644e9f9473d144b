----------------------------- MODULE MCCommands ------------------------------
(***************************************************************************)
(* The three ways the tools run another program: git, with a limit of      *)
(* bytes that are accepted on each stream; and a command in a session of   *)
(* its own, with a buffer of chunks for each stream, once for the parity   *)
(* check and once for the observation of a baseline.  The configuration    *)
(* has limits of one, programs that write up to two, and one descendant.   *)
(***************************************************************************)
EXTENDS Integers, FiniteSets

CONSTANTS Components,                \* the components to look at
          StdoutLimit, StderrLimit,  \* bytes of git that are accepted,
          Capacity,                  \* bytes that a pipe holds, and
          MaxWritten, MaxLeft,       \* bytes that git, and what it leaves behind, want to
                                     \* write into one stream
          MaxOutput,                 \* max_output of the other two, in chunks
          MaxWrites,                 \* chunks a command writes into one stream
          MaxHelpers,                \* descendants it has at once
          MaxProbes                  \* probes of its group within one grace period

VARIABLES part,  \* the component this behaviour is about, and the variables of each:
          phase, raised, writeEnds, readEnd, thread, captured, git, helper, wants,
          written, result,
          pipe, code,
          leader, helpers, strays, doomed, quiet, wrote, pc, buffer, joined,
          truncated, timedOut,
          probes, drain, failure, answer,
          nt, bound, gate, clean, known, reader, status

vars == <<part, phase, raised, writeEnds, readEnd, thread, captured, git, helper,
          wants, written, result, pipe, code, leader, helpers, strays, doomed,
          quiet, wrote, pc, buffer, joined, truncated, timedOut, probes, drain,
          failure, answer, nt, bound, gate, clean, known, reader, status>>

GitLimit == [stdout |-> StdoutLimit, stderr |-> StderrLimit]

-----------------------------------------------------------------------------
G == INSTANCE GitCommand WITH Limit <- GitLimit
B == INSTANCE RunBounded WITH Streams <- {"stdout", "stderr"}
O == INSTANCE RunCommand WITH Streams <- {"stdout", "stderr"}

ASSUME SizesAssumption == G!CommandAssumption /\ B!BoundedAssumption /\ O!CommandAssumption

\* A component is chosen at the start and goes on alone; the variables it does not have
\* keep one value.
Unused == "unused"

Init ==
    /\ part \in Components
    /\ \/ part = "git" /\ G!Init
       \/ part = "bounded" /\ B!Init
       \/ part = "observed" /\ O!Init
    /\ part # "git" =>
         /\ phase = Unused /\ raised = Unused /\ writeEnds = Unused
         /\ readEnd = Unused /\ thread = Unused /\ captured = Unused
         /\ git = Unused /\ helper = Unused /\ wants = Unused /\ written = Unused
         /\ result = Unused
    /\ part \notin {"bounded", "observed"} =>
         /\ leader = Unused /\ helpers = Unused /\ strays = Unused
         /\ doomed = Unused /\ quiet = Unused /\ wrote = Unused /\ pc = Unused
         /\ buffer = Unused /\ joined = Unused /\ truncated = Unused
         /\ timedOut = Unused
    /\ part # "bounded" =>
         /\ probes = Unused /\ drain = Unused /\ failure = Unused
         /\ answer = Unused
    /\ part # "observed" =>
         /\ nt = Unused /\ bound = Unused /\ gate = Unused /\ clean = Unused
         /\ known = Unused /\ reader = Unused /\ status = Unused

TheRestStays ==
    /\ part # "git" =>
         UNCHANGED <<phase, raised, writeEnds, readEnd, thread, captured, git,
                    helper, wants, written, result>>
    /\ part \notin {"bounded", "observed"} =>
         UNCHANGED <<leader, helpers, strays, doomed, quiet, wrote, pc, buffer,
                    joined, truncated, timedOut>>
    /\ part # "bounded" =>
         UNCHANGED <<probes, drain, failure, answer>>
    /\ part # "observed" =>
         UNCHANGED <<nt, bound, gate, clean, known, reader, status>>
    /\ UNCHANGED part

GitStep == part = "git" /\ G!Next /\ TheRestStays
BoundedStep == part = "bounded" /\ B!Next /\ TheRestStays
ObservedStep == part = "observed" /\ O!Next /\ TheRestStays

Next ==
    \/ GitStep
    \/ BoundedStep
    \/ ObservedStep

Of(component, action) == part = component /\ action /\ TheRestStays

\* Git's run has no timeout: it relies on its threads and on every program that has the
\* pipes going on.  In the other two the caller's timeouts elapse whatever the command
\* and the threads do.
Spec ==
    /\ Init /\ [][Next]_vars
    /\ WF_vars(Of("git", G!Caller))
    /\ \A s \in G!Streams : WF_vars(Of("git", G!Read(s)))
    /\ \A q \in G!Programs : WF_vars(Of("git", G!Program(q)))
    /\ WF_vars(Of("bounded", B!Caller))
    /\ WF_vars(Of("observed", O!Caller))

-----------------------------------------------------------------------------
\* Every component keeps to its own types; git's capture never exceeds a limit by more
\* than one byte, whatever is written.
TypeOK ==
    CASE part = "git"      -> G!TypeOK
      [] part = "bounded"  -> B!TypeOK
      [] part = "observed" -> O!TypeOK

\* What is accepted is everything the command and its descendants ever wrote, within the
\* limits, and nobody is left who could still write (RepositoryGit.run, require_command,
\* command_observed).
AcceptedIsWhole ==
    /\ part = "git"      => G!AnswerIsWhole
    /\ part = "bounded"  => B!AcceptedIsWhole
    /\ part = "observed" => O!ObservedIsWhole

\* A run that reports no failed cleanup leaves nothing behind: no descriptor of git's pipes,
\* no process of the group and no drain (_terminate_group), nothing of the session or job
\* that was not told to end by SIGKILL (run_command); and on Windows the tool never runs
\* outside the job that will kill it (WINDOWS_SUPERVISOR_SOURCE, WindowsJob).
NothingLeftBehind ==
    /\ part = "git"      => G!NoDescriptorLeft
    /\ part = "bounded"  => B!QuietMeansGone
    /\ part = "observed" => O!NothingRunsOn /\ O!GateHolds

\* The caller always returns, with a result or an exception: from git whatever it writes
\* where and whichever call fails, from the other two whatever the command, its descendants
\* and the drains do.
CallerReturns ==
    /\ <>(part = "git" => G!Done)
    /\ <>(part = "bounded" => B!Done)
    /\ <>(part = "observed" => O!Done)
=============================================================================
