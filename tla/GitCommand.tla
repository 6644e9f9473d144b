----------------------------- MODULE GitCommand -----------------------------
(***************************************************************************)
(* RepositoryGit.run of tools/repository_git.py: git writes into two pipes *)
(* that two threads drain, each up to a limit and one byte more; a thread  *)
(* that stops reading closes its end.  Bytes are only counted.             *)
(***************************************************************************)
EXTENDS Integers, FiniteSets

CONSTANTS Limit,        \* stream -> most bytes that are accepted
          Capacity,     \* of a pipe
          MaxWritten,   \* bytes git writes into one stream, and
          MaxLeft       \* what it leaves behind

Streams == {"stdout", "stderr"}
CommandAssumption ==
    Limit \in [Streams -> Nat] /\ Capacity \in Nat \ {0} /\ {MaxWritten, MaxLeft} \subseteq Nat

VARIABLES
    phase,          \* of run
    raised,         \* an exception is on its way through the finally clause
    pipe,           \* stream -> bytes in it
    writeEnds,      \* stream -> who holds its write end
    readEnd,        \* stream -> who holds its read end: nobody, the caller, its thread
    thread,         \* stream -> state of its reader
    captured,       \* stream -> bytes read
    git, helper,    \* the git process and one it leaves behind
    code,           \* git's exit status, -1 until then
    wants,          \* program -> stream -> bytes it has to write before it exits
    written,        \* history: program -> stream -> bytes
    result

vars == <<phase, raised, pipe, writeEnds, readEnd, thread, captured, git, helper, code,
          wants, written, result>>
world == <<git, helper, code, wants, written>>

Programs == {"git", "helper"}
Both(x) == [s \in Streams |-> x]
Total(s) == written["git"][s] + written["helper"][s]

Init ==
    /\ phase = "pipes" /\ raised = FALSE
    /\ pipe = Both(0) /\ writeEnds = Both({}) /\ readEnd = Both("nobody")
    /\ thread = Both("none") /\ captured = Both(0)
    /\ git = "none" /\ helper = "none" /\ code = -1
    /\ written = [p \in Programs |-> Both(0)] /\ wants = [p \in Programs |-> Both(0)]
    /\ result = "none"

-----------------------------------------------------------------------------
\* The caller.
Raise == raised' = TRUE /\ phase' = "close"

OpenPipes ==
    /\ phase = "pipes"
    /\ \/ /\ writeEnds' = Both({"caller"}) /\ readEnd' = Both("caller")
          /\ phase' = "threads" /\ UNCHANGED raised
       \/ \E opened \in {{}, {"stdout"}} :      \* OSError
            /\ writeEnds' = [s \in Streams |-> IF s \in opened THEN {"caller"} ELSE {}]
            /\ readEnd' = [s \in Streams |-> IF s \in opened THEN "caller" ELSE "nobody"]
            /\ Raise
    /\ UNCHANGED <<pipe, thread, captured, world, result>>

\* Both threads exist before either is started; the caller gives its read ends up when both
\* have started.
StartThreads ==
    /\ phase = "threads"
    /\ \E started \in {{}, {"stdout"}, Streams} :
         /\ thread' = [s \in Streams |-> IF s \in started THEN "reading" ELSE "unstarted"]
         /\ readEnd' = [s \in Streams |-> IF s \in started THEN "thread" ELSE "caller"]
         /\ IF started = Streams THEN phase' = "spawn" /\ UNCHANGED raised ELSE Raise
    /\ UNCHANGED <<pipe, writeEnds, captured, world, result>>

Spawn ==
    /\ phase = "spawn"
    /\ \/ /\ git' = "running" /\ phase' = "wait" /\ UNCHANGED raised
          /\ writeEnds' = [s \in Streams |-> writeEnds[s] \cup {"git"}]
          /\ \E bytes \in [Streams -> 0 .. MaxWritten] : wants' = [wants EXCEPT !["git"] = bytes]
       \/ Raise /\ UNCHANGED <<git, writeEnds, wants>>    \* OSError
    /\ UNCHANGED <<pipe, readEnd, thread, captured, helper, code, written, result>>

Wait ==
    /\ phase = "wait" /\ git = "ended" /\ phase' = "close"
    /\ UNCHANGED <<raised, pipe, writeEnds, readEnd, thread, captured, world, result>>

bugWriteEndsStayOpen ==
    /\ phase = "close" /\ phase' = "join"
    /\ UNCHANGED <<raised, pipe, writeEnds, readEnd, thread, captured, world, result>>
CloseWriteEnds ==
    /\ phase = "close" /\ phase' = "join"
    /\ writeEnds' = [s \in Streams |-> writeEnds[s] \ {"caller"}]
    /\ UNCHANGED <<raised, pipe, readEnd, thread, captured, world, result>>

\* Joining a thread that was never started raises, and leaves the clause at once.
Join ==
    /\ phase = "join"
    /\ \A s \in Streams : thread[s] # "reading"
    /\ IF \E s \in Streams : thread[s] = "unstarted"
       THEN phase' = "done" /\ result' = "error" /\ UNCHANGED readEnd
       ELSE /\ readEnd' = [s \in Streams |-> IF readEnd[s] = "caller" THEN "nobody" ELSE readEnd[s]]
            /\ phase' = "judge" /\ UNCHANGED result
    /\ UNCHANGED <<raised, pipe, writeEnds, thread, captured, world>>

\* What run returns when check is set: no error of a reader, nothing past a limit, nothing
\* on stderr and exit status 0.
Judge ==
    /\ phase = "judge" /\ phase' = "done"
    /\ result' = IF raised \/ \E s \in Streams : thread[s] \in {"error", "overflow"}
                 THEN "error"
                 ELSE IF captured["stderr"] > 0 \/ code # 0 THEN "error" ELSE "ok"
    /\ UNCHANGED <<raised, pipe, writeEnds, readEnd, thread, captured, world>>

-----------------------------------------------------------------------------
\* A reader thread.
\* How much of what is there it reads at once.
bugReadsWhateverIsThere(s) == pipe[s]
Chunk(s) == IF pipe[s] < Limit[s] + 1 - captured[s] THEN pipe[s] ELSE Limit[s] + 1 - captured[s]

Leave(s, why) == thread' = [thread EXCEPT ![s] = why] /\ readEnd' = [readEnd EXCEPT ![s] = "nobody"]

Read(s) ==
    /\ thread[s] = "reading"
    /\ \/ /\ pipe[s] > 0
          /\ pipe' = [pipe EXCEPT ![s] = @ - Chunk(s)]
          /\ captured' = [captured EXCEPT ![s] = @ + Chunk(s)]
          /\ IF captured'[s] > Limit[s] THEN Leave(s, "overflow") ELSE UNCHANGED <<thread, readEnd>>
       \/ /\ pipe[s] = 0 /\ writeEnds[s] = {}
          /\ Leave(s, "ended") /\ UNCHANGED <<pipe, captured>>
    /\ UNCHANGED <<phase, raised, writeEnds, world, result>>

ReadFails(s) ==
    /\ thread[s] = "reading" /\ Leave(s, "error")
    /\ UNCHANGED <<phase, raised, pipe, writeEnds, captured, world, result>>

-----------------------------------------------------------------------------
\* Programs: git, and what it may leave behind with the same pipes.
Running(p) == (p = "git" /\ git = "running") \/ (p = "helper" /\ helper = "running")
Ends(p, status) ==
    /\ writeEnds' = [s \in Streams |-> writeEnds[s] \ {p}]
    /\ IF p = "git" THEN git' = "ended" /\ code' = status /\ UNCHANGED helper
       ELSE helper' = "ended" /\ UNCHANGED <<git, code>>
    /\ UNCHANGED <<phase, raised, pipe, readEnd, thread, captured, wants, written, result>>

\* A full pipe blocks; a pipe nobody reads kills.
Write(p, s) ==
    /\ Running(p) /\ readEnd[s] # "nobody" /\ pipe[s] < Capacity /\ written[p][s] < wants[p][s]
    /\ pipe' = [pipe EXCEPT ![s] = @ + 1]
    /\ written' = [written EXCEPT ![p][s] = @ + 1]
    /\ UNCHANGED <<phase, raised, writeEnds, readEnd, thread, captured, git, helper, code, wants, result>>

BrokenPipe(p, s) == Running(p) /\ readEnd[s] = "nobody" /\ Ends(p, 141)
Exit(p) == \E status \in {0, 1} : Running(p) /\ written[p] = wants[p] /\ Ends(p, status)
Killed(p) == Running(p) /\ Ends(p, 137)

Fork ==
    /\ git = "running" /\ helper = "none" /\ helper' = "running"
    /\ writeEnds' = [s \in Streams |-> writeEnds[s] \cup {"helper"}]
    /\ \E bytes \in [Streams -> 0 .. MaxLeft] : wants' = [wants EXCEPT !["helper"] = bytes]
    /\ UNCHANGED <<phase, raised, pipe, readEnd, thread, captured, git, code, written, result>>

Ended == phase = "done" /\ UNCHANGED vars

Caller  == OpenPipes \/ StartThreads \/ Spawn \/ Wait \/ CloseWriteEnds \/ Join \/ Judge
Program(p) == (\E s \in Streams : Write(p, s) \/ BrokenPipe(p, s)) \/ Exit(p)
Next ==
    \/ Caller \/ Fork \/ Ended
    \/ \E s \in Streams : Read(s) \/ ReadFails(s)
    \/ \E p \in Programs : Program(p) \/ Killed(p)

\* run has no timeout: it relies on every program that has the pipes going on.
Spec == /\ Init /\ [][Next]_vars
        /\ WF_vars(Caller)
        /\ \A s \in Streams : WF_vars(Read(s))
        /\ \A p \in Programs : WF_vars(Program(p))

-----------------------------------------------------------------------------
\* However much is written, no more than a limit and one byte is kept.
TypeOK ==
    /\ phase \in {"pipes", "threads", "spawn", "wait", "close", "join", "judge", "done"}
    /\ \A s \in Streams : /\ pipe[s] \in 0 .. Capacity
                          /\ captured[s] \in 0 .. Limit[s] + 1
                          /\ readEnd[s] \in {"nobody", "caller", "thread"}
    /\ result \in {"none", "ok", "error"}

\* An answer that is accepted is everything git and its helpers ever wrote, within the
\* limits, with nothing on stderr; nothing that could still write is left.
\* (RepositoryGit.run, _BoundedPipeCapture.)
AnswerIsWhole ==
    result = "ok" =>
        /\ captured["stdout"] = Total("stdout") /\ captured["stdout"] <= Limit["stdout"]
        /\ Total("stderr") = 0 /\ code = 0
        /\ helper # "running"

\* When run is left every descriptor it opened is closed, unless a thread could not be
\* started.  (The finally clause.)
NoDescriptorLeft ==
    (phase = "done" /\ \A s \in Streams : thread[s] # "unstarted") =>
        \A s \in Streams : readEnd[s] = "nobody" /\ "caller" \notin writeEnds[s]

\* How far the caller has come when its routine returns.
Done == phase = "done"
=============================================================================
