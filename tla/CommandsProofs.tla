--------------------------- MODULE CommandsProofs ---------------------------
(***************************************************************************)
(* What the three ways to run a command promise, for every size of the     *)
(* pipes, buffers and limits and every number of writes and descendants:   *)
(* each component has an inductive invariant of its own, and they hold     *)
(* together because a behaviour is about one component from the start.     *)
(***************************************************************************)
EXTENDS MCCommands, TLAPS

Streams == {"stdout", "stderr"}

-----------------------------------------------------------------------------
(* git. *)

GitNames ==
    /\ phase \in {"pipes", "threads", "spawn", "wait", "close", "join", "judge", "done"}
    /\ result \in {"none", "ok", "error"}
    /\ git \in {"none", "running", "ended"} /\ helper \in {"none", "running", "ended"}
    /\ thread \in [Streams -> {"none", "unstarted", "reading", "ended", "overflow", "error"}]
    /\ readEnd \in [Streams -> {"nobody", "caller", "thread"}]
    /\ writeEnds \in [Streams -> SUBSET {"caller", "git", "helper"}]

GitCounts ==
    /\ pipe \in [Streams -> 0 .. Capacity]
    /\ captured \in [Streams -> Nat]
    /\ written \in [{"git", "helper"} -> [Streams -> Nat]]

\* What a program wrote is in the pipe or was read, and a reader stops right after its limit.
GitConserved ==
    \A s \in Streams :
        /\ captured[s] + pipe[s] = written["git"][s] + written["helper"][s]
        /\ captured[s] <= GitLimit[s] + 1
        /\ thread[s] # "overflow" => captured[s] <= GitLimit[s]

\* Who can write holds the write ends, and a reader has ended only when nobody does.
GitEnds ==
    \A s \in Streams :
        /\ git = "running" => "git" \in writeEnds[s]
        /\ helper = "running" => "helper" \in writeEnds[s]
        /\ phase \in {"threads", "spawn", "wait"} => "caller" \in writeEnds[s]
        /\ phase \in {"join", "judge", "done"} => "caller" \notin writeEnds[s]
        /\ thread[s] = "ended" => pipe[s] = 0 /\ writeEnds[s] = {}
        /\ readEnd[s] = "thread" => thread[s] = "reading"

GitPhases ==
    /\ (~raised /\ phase \notin {"pipes", "threads"}) =>
          \A s \in Streams : thread[s] \notin {"none", "unstarted"}
    /\ phase \in {"pipes", "threads"} => \A s \in Streams : thread[s] = "none"
    /\ phase \in {"pipes", "threads", "spawn"} => git = "none" /\ helper = "none"
    /\ (phase = "judge" \/ (phase = "done" /\ \A s \in Streams : thread[s] # "unstarted")) =>
          \A s \in Streams : thread[s] # "reading" /\ readEnd[s] # "caller"
    /\ result = "ok" =>
          /\ phase = "done" /\ code = 0 /\ captured["stderr"] = 0
          /\ \A s \in Streams : thread[s] = "ended"

GitInv == GitNames /\ GitCounts /\ GitConserved /\ GitEnds /\ GitPhases

-----------------------------------------------------------------------------
(* What a command in a session of its own may have done. *)

TreeTypes ==
    /\ leader \in {"none", "running", "zombie", "reaped"}
    /\ code \in {"none", "zero", "nonzero", "signal"}
    /\ helpers \in Nat /\ strays \in Nat /\ helpers + strays <= MaxHelpers
    /\ doomed \in BOOLEAN /\ quiet \in BOOLEAN
    /\ wrote \in [Streams -> 0 .. MaxWrites] /\ pipe \in [Streams -> Nat]
    /\ \A s \in Streams : pipe[s] <= wrote[s]

-----------------------------------------------------------------------------
(* The parity check. *)

BoundedNames ==
    /\ pc \in {"spawn", "wait", "term", "termprobe", "kill", "killprobe", "reap", "join", "judge",
               "done"}
    /\ probes \in 0 .. MaxProbes
    /\ drain \in [Streams -> {"idle", "reading", "ended", "broken"}]
    /\ buffer \in [Streams -> 0 .. MaxOutput + 1]
    /\ joined \subseteq Streams
    /\ truncated \in BOOLEAN /\ timedOut \in BOOLEAN
    /\ failure \in {"none", "signal", "probe", "survived", "child", "drain"}
    /\ answer \in {"none", "ok", "command_launch_failed", "process_cleanup_failed",
                   "command_timed_out", "command_output_truncated", "command_failed", "raised"}

\* As long as nothing was cut off, every chunk is in a pipe or in the buffer; a drain that
\* has ended has seen the end of its pipe.
BoundedOutput ==
    \A s \in Streams :
        /\ ~truncated => buffer[s] <= MaxOutput /\ buffer[s] + pipe[s] = wrote[s]
        /\ drain[s] = "ended" => B!AtEnd(s)

BoundedPhases ==
    /\ pc = "spawn" => /\ leader = "none" /\ joined = {} /\ answer = "none"
                       /\ \A s \in Streams : drain[s] = "idle"
    /\ answer # "none" => pc = "done"
    /\ (pc # "spawn" /\ ~B!NoResult) =>
          leader # "none" /\ \A s \in Streams : drain[s] # "idle"
    /\ (pc \in {"reap", "join", "judge", "done"} /\ failure = "none"
            /\ ~B!NoResult) => ~B!GroupExists
    /\ (failure = "none" => \A s \in joined : drain[s] # "reading")
    /\ (pc \in {"judge", "done"} /\ ~B!NoResult) => joined = Streams
    /\ answer = "ok" => failure = "none" /\ ~truncated

BoundedInv == TreeTypes /\ BoundedNames /\ BoundedOutput /\ BoundedPhases

-----------------------------------------------------------------------------
(* The observation. *)

ObservedNames ==
    /\ nt \in BOOLEAN /\ bound \in BOOLEAN /\ gate \in BOOLEAN
    /\ timedOut \in BOOLEAN /\ clean \in BOOLEAN /\ known \in BOOLEAN
    /\ pc \in {"popen", "bind", "release", "abandon", "wait", "kill", "poll", "force", "last",
               "join", "result", "done"}
    /\ reader \in [Streams -> {"idle", "reading", "ended", "broken"}]
    /\ buffer \in [Streams -> 0 .. MaxOutput]
    /\ truncated \in [Streams -> BOOLEAN]
    /\ joined \subseteq Streams
    /\ status \in {"none", "tool_missing", "launch_error", "cleanup_error", "timeout", "exited",
                   "signaled", "raised"}

ObservedOutput ==
    \A s \in Streams :
        /\ ~truncated[s] => buffer[s] + pipe[s] = wrote[s]
        /\ reader[s] = "ended" => O!AtEnd(s)

\* Nothing but the supervisor runs before the gate is open, and the gate opens in the job.
ObservedGate ==
    /\ helpers > 0 => gate
    /\ pc \in {"popen", "bind"} => ~gate
    /\ pc \in {"bind", "release"} => nt
    /\ pc = "release" => bound
    /\ (nt /\ gate) => bound

ObservedPhases ==
    /\ pc = "popen" => leader = "none" /\ ~known
    /\ pc \in {"popen", "bind", "release"} => \A s \in Streams : reader[s] = "idle"
    /\ pc \in {"wait", "kill", "poll", "force", "last", "join", "result"} =>
          \A s \in Streams : reader[s] # "idle"
    /\ known => leader = "reaped"
    /\ (pc \in {"poll", "force", "last", "join", "result"} /\ clean) => doomed \/ ~O!GroupExists
    /\ (pc = "result" /\ clean) => \A s \in Streams : reader[s] # "reading"
    /\ status # "none" => pc = "done"
    /\ status \in {"timeout", "exited", "signaled"} =>
          /\ known /\ clean
          /\ helpers > 0 => doomed
          /\ \A s \in Streams : reader[s] = "ended"

ObservedInv == TreeTypes /\ ObservedNames /\ ObservedOutput /\ ObservedGate /\ ObservedPhases

-----------------------------------------------------------------------------
Inv == /\ part \in {"git", "bounded", "observed"}
       /\ part = "git" => GitInv
       /\ part = "bounded" => BoundedInv
       /\ part = "observed" => ObservedInv
-----------------------------------------------------------------------------
LEMMA Sizes == /\ \A s \in Streams : GitLimit[s] \in Nat
               /\ Capacity \in Nat /\ MaxWritten \in Nat /\ MaxLeft \in Nat
               /\ MaxOutput \in Nat /\ MaxWrites \in Nat /\ MaxHelpers \in Nat /\ MaxProbes \in Nat
BY SizesAssumption DEF G!CommandAssumption, B!BoundedAssumption, O!CommandAssumption, G!Streams, Streams

LEMMA GitInitial == G!Init => GitInv
<1> SUFFICES ASSUME G!Init PROVE GitInv
  OBVIOUS
<1>1. GitNames
  BY DEF G!Init, GitNames, G!Both, G!Streams, Streams
<1>2. GitCounts /\ GitConserved
  BY Sizes DEF G!Init, GitCounts, GitConserved, G!Both, G!Streams, G!Programs, Streams
<1>3. GitEnds /\ GitPhases
  BY DEF G!Init, GitEnds, GitPhases, G!Both, G!Streams, Streams
<1> QED
  BY <1>1, <1>2, <1>3 DEF GitInv

LEMMA GitOpenPipes == ASSUME GitInv, G!OpenPipes PROVE GitInv'
<1> USE Sizes DEF GitInv, G!OpenPipes, G!world, G!Raise, G!Both, G!Streams, Streams
<1>1. GitNames'
  BY DEF GitNames
<1>2. GitCounts'
  BY DEF GitNames, GitCounts, GitConserved
<1>3. GitConserved'
  BY DEF GitNames, GitCounts, GitConserved
<1>4. /\ \A s \in Streams : thread'[s] = "none" /\ readEnd'[s] # "thread"
      /\ phase' \in {"threads", "close"}
      /\ phase' = "threads" => \A s \in Streams : writeEnds'[s] = {"caller"}
  BY DEF GitNames, GitPhases
<1>5. GitEnds'
  <2>1. git # "running" /\ helper # "running"
    BY DEF GitNames, GitEnds, GitPhases
  <2> QED
    BY <1>4, <2>1 DEF GitEnds
<1>6. GitPhases'
  BY <1>4 DEF GitPhases
<1> QED
  BY <1>1, <1>2, <1>3, <1>5, <1>6

LEMMA GitStartThreads == ASSUME GitInv, G!StartThreads PROVE GitInv'
<1> USE Sizes DEF GitInv, G!StartThreads, G!world, G!vars, G!Raise, G!Both, G!Programs, G!Streams, Streams
<1>1. GitNames'
  BY DEF GitNames
<1>2. GitCounts'
  BY DEF GitNames, GitCounts, GitConserved
<1>3. GitConserved'
  BY DEF GitNames, GitCounts, GitConserved, GitPhases
<1>4. GitEnds'
  BY DEF GitNames, GitCounts, GitConserved, GitEnds, GitPhases
<1>5. GitPhases'
  BY DEF GitNames, GitCounts, GitConserved, GitEnds, GitPhases
<1> QED
  BY <1>1, <1>2, <1>3, <1>4, <1>5

LEMMA GitSpawn == ASSUME GitInv, G!Spawn PROVE GitInv'
<1> USE Sizes DEF GitInv, G!Spawn, G!world, G!vars, G!Raise, G!Both, G!Programs, G!Streams, Streams
<1>1. GitNames'
  BY DEF GitNames
<1>2. GitCounts'
  BY DEF GitNames, GitCounts, GitConserved
<1>3. GitConserved'
  BY DEF GitNames, GitCounts, GitConserved
<1>4. GitEnds'
  BY DEF GitNames, GitCounts, GitConserved, GitEnds, GitPhases
<1>5. GitPhases'
  BY DEF GitNames, GitCounts, GitConserved, GitEnds, GitPhases
<1> QED
  BY <1>1, <1>2, <1>3, <1>4, <1>5

LEMMA GitWait == ASSUME GitInv, G!Wait PROVE GitInv'
<1> USE Sizes DEF GitInv, G!Wait, G!world, G!vars, G!Raise, G!Both, G!Programs, G!Streams, Streams
<1>1. GitNames'
  BY DEF GitNames
<1>2. GitCounts'
  BY DEF GitNames, GitCounts, GitConserved
<1>3. GitConserved'
  BY DEF GitNames, GitCounts, GitConserved
<1>4. GitEnds'
  BY DEF GitNames, GitCounts, GitConserved, GitEnds, GitPhases
<1>5. GitPhases'
  BY DEF GitNames, GitCounts, GitConserved, GitEnds, GitPhases
<1> QED
  BY <1>1, <1>2, <1>3, <1>4, <1>5

LEMMA GitCloseWriteEnds == ASSUME GitInv, G!CloseWriteEnds PROVE GitInv'
<1> USE Sizes DEF GitInv, G!CloseWriteEnds, G!world, G!vars, G!Raise, G!Both, G!Programs, G!Streams, Streams
<1>1. GitNames'
  BY DEF GitNames
<1>2. GitCounts'
  BY DEF GitNames, GitCounts, GitConserved
<1>3. GitConserved'
  BY DEF GitNames, GitCounts, GitConserved
<1>4. GitEnds'
  BY DEF GitNames, GitCounts, GitConserved, GitEnds, GitPhases
<1>5. GitPhases'
  BY DEF GitNames, GitCounts, GitConserved, GitEnds, GitPhases
<1> QED
  BY <1>1, <1>2, <1>3, <1>4, <1>5

LEMMA GitJoin == ASSUME GitInv, G!Join PROVE GitInv'
<1> USE Sizes DEF GitInv, G!Join, G!world, G!vars, G!Raise, G!Both, G!Programs, G!Streams, Streams
<1>1. GitNames'
  BY DEF GitNames
<1>2. GitCounts'
  BY DEF GitNames, GitCounts, GitConserved
<1>3. GitConserved'
  BY DEF GitNames, GitCounts, GitConserved
<1>4. GitEnds'
  BY DEF GitNames, GitCounts, GitConserved, GitEnds, GitPhases
<1>5. GitPhases'
  BY DEF GitNames, GitCounts, GitConserved, GitEnds, GitPhases
<1> QED
  BY <1>1, <1>2, <1>3, <1>4, <1>5

LEMMA GitJudge == ASSUME GitInv, G!Judge PROVE GitInv'
<1> USE Sizes DEF GitInv, G!Judge, G!world, G!vars, G!Raise, G!Both, G!Programs, G!Streams, Streams
<1>1. GitNames'
  BY DEF GitNames
<1>2. GitCounts'
  BY DEF GitNames, GitCounts, GitConserved
<1>3. GitConserved'
  BY DEF GitNames, GitCounts, GitConserved
<1>4. GitEnds'
  BY DEF GitNames, GitCounts, GitConserved, GitEnds, GitPhases
<1>5. GitPhases'
  BY DEF GitNames, GitCounts, GitConserved, GitEnds, GitPhases
<1> QED
  BY <1>1, <1>2, <1>3, <1>4, <1>5

LEMMA GitFork == ASSUME GitInv, G!Fork PROVE GitInv'
<1> USE Sizes DEF GitInv, G!Fork, G!world, G!vars, G!Raise, G!Both, G!Programs, G!Streams, Streams
<1>1. GitNames'
  BY DEF GitNames
<1>2. GitCounts'
  BY DEF GitNames, GitCounts, GitConserved
<1>3. GitConserved'
  BY DEF GitNames, GitCounts, GitConserved
<1>4. GitEnds'
  BY DEF GitNames, GitCounts, GitConserved, GitEnds, GitPhases
<1>5. GitPhases'
  BY DEF GitNames, GitCounts, GitConserved, GitEnds, GitPhases
<1> QED
  BY <1>1, <1>2, <1>3, <1>4, <1>5

LEMMA GitRead == ASSUME GitInv, NEW s \in Streams, G!Read(s) PROVE GitInv'
<1> USE Sizes DEF GitInv, G!Read, G!Leave, G!Chunk, G!world, G!vars, G!Raise, G!Both, G!Programs, G!Streams, Streams
<1>1. GitNames'
  BY DEF GitNames
<1>2. GitCounts'
  BY DEF GitNames, GitCounts, GitConserved
<1>3. GitConserved'
  BY DEF GitNames, GitCounts, GitConserved
<1>4. GitEnds'
  BY DEF GitNames, GitCounts, GitConserved, GitEnds, GitPhases
<1>5. GitPhases'
  BY DEF GitNames, GitCounts, GitConserved, GitEnds, GitPhases
<1> QED
  BY <1>1, <1>2, <1>3, <1>4, <1>5

LEMMA GitReadFails == ASSUME GitInv, NEW s \in Streams, G!ReadFails(s) PROVE GitInv'
<1> USE Sizes DEF GitInv, G!ReadFails, G!Leave, G!world, G!vars, G!Raise, G!Both, G!Programs, G!Streams, Streams
<1>1. GitNames'
  BY DEF GitNames
<1>2. GitCounts'
  BY DEF GitNames, GitCounts, GitConserved
<1>3. GitConserved'
  BY DEF GitNames, GitCounts, GitConserved
<1>4. GitEnds'
  BY DEF GitNames, GitCounts, GitConserved, GitEnds, GitPhases
<1>5. GitPhases'
  BY DEF GitNames, GitCounts, GitConserved, GitEnds, GitPhases
<1> QED
  BY <1>1, <1>2, <1>3, <1>4, <1>5

LEMMA GitWrite == ASSUME GitInv, NEW p \in G!Programs, NEW s \in Streams, G!Write(p, s) PROVE GitInv'
<1> USE Sizes DEF GitInv, G!Write, G!Running, G!world, G!vars, G!Raise, G!Both, G!Programs, G!Streams, Streams
<1>1. GitNames'
  BY DEF GitNames
<1>2. GitCounts'
  BY DEF GitNames, GitCounts, GitConserved
<1>3. GitConserved'
  BY DEF GitNames, GitCounts, GitConserved
<1>4. GitEnds'
  BY DEF GitNames, GitCounts, GitConserved, GitEnds, GitPhases
<1>5. GitPhases'
  BY DEF GitNames, GitCounts, GitConserved, GitEnds, GitPhases
<1> QED
  BY <1>1, <1>2, <1>3, <1>4, <1>5

LEMMA GitEndsProgram == ASSUME GitInv, NEW p \in G!Programs, NEW said \in {0, 1, 137, 141}, G!Running(p), G!Ends(p, said) PROVE GitInv'
<1> USE Sizes DEF GitInv, G!Ends, G!Running, G!world, G!vars, G!Raise, G!Both, G!Programs, G!Streams, Streams
<1>1. GitNames'
  BY DEF GitNames
<1>2. GitCounts'
  BY DEF GitNames, GitCounts, GitConserved
<1>3. GitConserved'
  BY DEF GitNames, GitCounts, GitConserved
<1>4. GitEnds'
  BY DEF GitNames, GitCounts, GitConserved, GitEnds, GitPhases
<1>5. GitPhases'
  BY DEF GitNames, GitCounts, GitConserved, GitEnds, GitPhases
<1> QED
  BY <1>1, <1>2, <1>3, <1>4, <1>5

LEMMA GitStops == ASSUME GitInv, UNCHANGED G!vars PROVE GitInv'
<1> USE Sizes DEF GitInv, G!vars, G!world, G!vars, G!Raise, G!Both, G!Programs, G!Streams, Streams
<1>1. GitNames'
  BY DEF GitNames
<1>2. GitCounts'
  BY DEF GitNames, GitCounts, GitConserved
<1>3. GitConserved'
  BY DEF GitNames, GitCounts, GitConserved
<1>4. GitEnds'
  BY DEF GitNames, GitCounts, GitConserved, GitEnds, GitPhases
<1>5. GitPhases'
  BY DEF GitNames, GitCounts, GitConserved, GitEnds, GitPhases
<1> QED
  BY <1>1, <1>2, <1>3, <1>4, <1>5

LEMMA GitNext == ASSUME GitInv, G!Next PROVE GitInv'
<1>1. CASE G!Caller
  BY <1>1, GitOpenPipes, GitStartThreads, GitSpawn, GitWait, GitCloseWriteEnds, GitJoin, GitJudge
     DEF G!Caller
<1>2. CASE G!Fork
  BY <1>2, GitFork
<1>3. CASE G!Ended
  BY <1>3, GitStops DEF G!Ended
<1>4. CASE \E s \in G!Streams : G!Read(s) \/ G!ReadFails(s)
  BY <1>4, GitRead, GitReadFails DEF G!Streams, Streams
<1>5. CASE \E p \in G!Programs : G!Program(p) \/ G!Killed(p)
  BY <1>5, GitWrite, GitEndsProgram
     DEF G!Program, G!BrokenPipe, G!Exit, G!Killed, G!Streams, Streams
<1> QED
  BY <1>1, <1>2, <1>3, <1>4, <1>5 DEF G!Next

\* What the invariant says of git's component.
LEMMA GitKeepsItsPromises == ASSUME GitInv PROVE G!TypeOK /\ G!AnswerIsWhole /\ G!NoDescriptorLeft
<1>1. G!TypeOK
  BY Sizes DEF GitInv, GitNames, GitCounts, GitConserved, G!TypeOK, G!Streams, Streams
<1>2. G!AnswerIsWhole
  <2> SUFFICES ASSUME result = "ok"
               PROVE  /\ captured["stdout"] = G!Total("stdout")
                      /\ captured["stdout"] <= GitLimit["stdout"]
                      /\ G!Total("stderr") = 0 /\ code = 0 /\ helper # "running"
    BY DEF G!AnswerIsWhole
  <2>1. \A s \in Streams : pipe[s] = 0 /\ writeEnds[s] = {} /\ thread[s] = "ended"
    BY DEF GitInv, GitPhases, GitEnds
  <2>2. \A s \in Streams : captured[s] = G!Total(s) /\ captured[s] <= GitLimit[s]
    BY <2>1 DEF GitInv, GitCounts, GitConserved, G!Total, Streams
  <2> QED
    BY <2>1, <2>2 DEF GitInv, GitPhases, GitEnds, Streams
<1>3. G!NoDescriptorLeft
  BY DEF GitInv, GitNames, GitEnds, GitPhases, G!NoDescriptorLeft, G!Streams, Streams
<1> QED
  BY <1>1, <1>2, <1>3

-----------------------------------------------------------------------------
LEMMA BoundedInitial == B!Init => BoundedInv
<1> SUFFICES ASSUME B!Init PROVE BoundedInv
  OBVIOUS
<1> USE Sizes DEF B!Init, B!TreeInit, B!NoFailure, Streams
<1>1. {doomed, quiet, truncated, timedOut} \subseteq BOOLEAN
  BY Zenon
<1>2. TreeTypes
  BY <1>1 DEF TreeTypes
<1>3. BoundedNames
  BY <1>1 DEF BoundedNames
<1>4. BoundedOutput /\ BoundedPhases
  BY DEF BoundedOutput, BoundedPhases
<1> QED
  BY <1>2, <1>3, <1>4 DEF BoundedInv

LEMMA BoundedSpawn == ASSUME BoundedInv, B!Spawn PROVE BoundedInv'
<1> USE Sizes DEF BoundedInv, B!NoResult, B!Spawn, B!Begun, B!Start, B!Signalled, B!GroupExists, B!AtEnd, B!NoFailure,
       B!tree, B!caller, B!drains, Streams
<1>1. TreeTypes'
  BY DEF TreeTypes, BoundedNames, BoundedOutput, BoundedPhases
<1>2. BoundedNames'
  BY DEF TreeTypes, BoundedNames, BoundedOutput, BoundedPhases
<1>3. BoundedOutput'
  BY DEF TreeTypes, BoundedNames, BoundedOutput, BoundedPhases
<1>4. BoundedPhases'
  BY DEF TreeTypes, BoundedNames, BoundedOutput, BoundedPhases
<1> QED
  BY <1>1, <1>2, <1>3, <1>4

LEMMA BoundedWait == ASSUME BoundedInv, B!Wait PROVE BoundedInv'
<1> USE Sizes DEF BoundedInv, B!NoResult, B!Wait, B!Reap, B!Signalled, B!GroupExists, B!AtEnd, B!NoFailure,
       B!tree, B!caller, B!drains, Streams
<1>1. TreeTypes'
  BY DEF TreeTypes, BoundedNames, BoundedOutput, BoundedPhases
<1>2. BoundedNames'
  BY DEF TreeTypes, BoundedNames, BoundedOutput, BoundedPhases
<1>3. BoundedOutput'
  BY DEF TreeTypes, BoundedNames, BoundedOutput, BoundedPhases
<1>4. BoundedPhases'
  BY DEF TreeTypes, BoundedNames, BoundedOutput, BoundedPhases
<1> QED
  BY <1>1, <1>2, <1>3, <1>4

LEMMA BoundedSendTerm == ASSUME BoundedInv, B!SendTerm PROVE BoundedInv'
<1> USE Sizes DEF BoundedInv, B!NoResult, B!SendTerm, B!Gone, B!Cleanup, B!Signalled, B!GroupExists, B!AtEnd, B!NoFailure,
       B!tree, B!caller, B!drains, Streams
<1>1. TreeTypes'
  BY DEF TreeTypes, BoundedNames, BoundedOutput, BoundedPhases
<1>2. BoundedNames'
  BY DEF TreeTypes, BoundedNames, BoundedOutput, BoundedPhases
<1>3. BoundedOutput'
  BY DEF TreeTypes, BoundedNames, BoundedOutput, BoundedPhases
<1>4. BoundedPhases'
  BY DEF TreeTypes, BoundedNames, BoundedOutput, BoundedPhases
<1> QED
  BY <1>1, <1>2, <1>3, <1>4

LEMMA BoundedProbeTerm == ASSUME BoundedInv, B!ProbeTerm PROVE BoundedInv'
<1> USE Sizes DEF BoundedInv, B!NoResult, B!ProbeTerm, B!Gone, B!Cleanup, B!Signalled, B!GroupExists, B!AtEnd, B!NoFailure,
       B!tree, B!caller, B!drains, Streams
<1>1. TreeTypes'
  BY DEF TreeTypes, BoundedNames, BoundedOutput, BoundedPhases
<1>2. BoundedNames'
  BY DEF TreeTypes, BoundedNames, BoundedOutput, BoundedPhases
<1>3. BoundedOutput'
  BY DEF TreeTypes, BoundedNames, BoundedOutput, BoundedPhases
<1>4. BoundedPhases'
  BY DEF TreeTypes, BoundedNames, BoundedOutput, BoundedPhases
<1> QED
  BY <1>1, <1>2, <1>3, <1>4

LEMMA BoundedSendKill == ASSUME BoundedInv, B!SendKill PROVE BoundedInv'
<1> USE Sizes DEF BoundedInv, B!NoResult, B!SendKill, B!Gone, B!Cleanup, B!Signalled, B!GroupExists, B!AtEnd, B!NoFailure,
       B!tree, B!caller, B!drains, Streams
<1>1. TreeTypes'
  BY DEF TreeTypes, BoundedNames, BoundedOutput, BoundedPhases
<1>2. BoundedNames'
  BY DEF TreeTypes, BoundedNames, BoundedOutput, BoundedPhases
<1>3. BoundedOutput'
  BY DEF TreeTypes, BoundedNames, BoundedOutput, BoundedPhases
<1>4. BoundedPhases'
  BY DEF TreeTypes, BoundedNames, BoundedOutput, BoundedPhases
<1> QED
  BY <1>1, <1>2, <1>3, <1>4

LEMMA BoundedProbeKill == ASSUME BoundedInv, B!ProbeKill PROVE BoundedInv'
<1> USE Sizes DEF BoundedInv, B!NoResult, B!ProbeKill, B!Gone, B!Cleanup, B!Signalled, B!GroupExists, B!AtEnd, B!NoFailure,
       B!tree, B!caller, B!drains, Streams
<1>1. TreeTypes'
  BY DEF TreeTypes, BoundedNames, BoundedOutput, BoundedPhases
<1>2. BoundedNames'
  BY DEF TreeTypes, BoundedNames, BoundedOutput, BoundedPhases
<1>3. BoundedOutput'
  BY DEF TreeTypes, BoundedNames, BoundedOutput, BoundedPhases
<1>4. BoundedPhases'
  BY DEF TreeTypes, BoundedNames, BoundedOutput, BoundedPhases
<1> QED
  BY <1>1, <1>2, <1>3, <1>4

LEMMA BoundedReapLeader == ASSUME BoundedInv, B!ReapLeader PROVE BoundedInv'
<1> USE Sizes DEF BoundedInv, B!NoResult, B!ReapLeader, B!Reap, B!Also, B!Signalled, B!GroupExists, B!AtEnd, B!NoFailure,
       B!tree, B!caller, B!drains, Streams
<1>1. TreeTypes'
  BY DEF TreeTypes, BoundedNames, BoundedOutput, BoundedPhases
<1>2. BoundedNames'
  BY DEF TreeTypes, BoundedNames, BoundedOutput, BoundedPhases
<1>3. BoundedOutput'
  BY DEF TreeTypes, BoundedNames, BoundedOutput, BoundedPhases
<1>4. BoundedPhases'
  BY DEF TreeTypes, BoundedNames, BoundedOutput, BoundedPhases
<1> QED
  BY <1>1, <1>2, <1>3, <1>4

LEMMA BoundedJoin == ASSUME BoundedInv, B!Join PROVE BoundedInv'
<1> USE Sizes DEF BoundedInv, B!NoResult, B!Join, B!JoinOne, B!Also, B!Signalled, B!GroupExists, B!AtEnd, B!NoFailure,
       B!tree, B!caller, B!drains, Streams
<1>1. TreeTypes'
  BY DEF TreeTypes, BoundedNames, BoundedOutput, BoundedPhases
<1>2. BoundedNames'
  BY DEF TreeTypes, BoundedNames, BoundedOutput, BoundedPhases
<1>3. BoundedOutput'
  BY DEF TreeTypes, BoundedNames, BoundedOutput, BoundedPhases
<1>4. BoundedPhases'
  BY DEF TreeTypes, BoundedNames, BoundedOutput, BoundedPhases
<1> QED
  BY <1>1, <1>2, <1>3, <1>4

LEMMA BoundedRequireCommand == ASSUME BoundedInv, B!RequireCommand PROVE BoundedInv'
<1> USE Sizes DEF BoundedInv, B!NoResult, B!RequireCommand, B!Verdict, B!Signalled, B!GroupExists, B!AtEnd, B!NoFailure,
       B!tree, B!caller, B!drains, Streams
<1>1. TreeTypes'
  BY DEF TreeTypes, BoundedNames, BoundedOutput, BoundedPhases
<1>2. BoundedNames'
  BY DEF TreeTypes, BoundedNames, BoundedOutput, BoundedPhases
<1>3. BoundedOutput'
  BY DEF TreeTypes, BoundedNames, BoundedOutput, BoundedPhases
<1>4. BoundedPhases'
  BY DEF TreeTypes, BoundedNames, BoundedOutput, BoundedPhases
<1> QED
  BY <1>1, <1>2, <1>3, <1>4

LEMMA BoundedDrain == ASSUME BoundedInv, NEW s \in Streams, pc # "done", B!Drain(s) PROVE BoundedInv'
<1> USE Sizes DEF BoundedInv, B!NoResult, B!Drain, B!GroupExists, B!AtEnd, B!caller, Streams
<1>1. CASE /\ \E n \in 1 .. pipe[s] : pipe' = [pipe EXCEPT ![s] = @ - n] /\ B!Keep(s, n)
           /\ UNCHANGED drain
  <2>1. PICK n \in 1 .. pipe[s] : pipe' = [pipe EXCEPT ![s] = @ - n] /\ B!Keep(s, n)
    BY <1>1
  <2>2. n \in Nat /\ 1 <= n /\ n <= pipe[s] /\ pipe'[s] = pipe[s] - n
    BY <2>1 DEF TreeTypes
  <2>3. TreeTypes'
    BY <1>1, <2>1, <2>2 DEF TreeTypes
  <2>4. BoundedNames'
    BY <1>1, <2>1, <2>2 DEF BoundedNames, B!Keep
  <2>5. BoundedOutput'
    <3>1. ASSUME ~truncated' PROVE buffer'[s] <= MaxOutput /\ buffer'[s] + pipe'[s] = wrote[s]
      <4>0. ~truncated /\ ~(buffer[s] + n > MaxOutput)
        BY <2>1, <3>1, Zenon DEF B!Keep
      <4>1. ~truncated /\ buffer[s] + n <= MaxOutput
        BY <2>2, <4>0 DEF BoundedNames
      <4>2. buffer'[s] = buffer[s] + n
        BY <2>1, <2>2, <4>1 DEF B!Keep, BoundedNames
      <4> QED
        BY <2>2, <4>1, <4>2 DEF TreeTypes, BoundedNames, BoundedOutput
    <3>2. \A t \in Streams \ {s} : buffer'[t] = buffer[t] /\ pipe'[t] = pipe[t]
      BY <2>1 DEF TreeTypes, BoundedNames, B!Keep
    <3>3. drain[s] # "ended" /\ (truncated => truncated')
      BY <2>1 DEF B!Keep
    <3> QED
      BY <1>1, <3>1, <3>2, <3>3 DEF BoundedOutput
  <2>6. BoundedPhases'
    BY <1>1, <2>1 DEF BoundedPhases, B!Keep
  <2> QED
    BY <2>3, <2>4, <2>5, <2>6
<1>2. CASE /\ B!AtEnd(s)
           /\ drain' = [drain EXCEPT ![s] = "ended"] /\ UNCHANGED <<pipe, buffer, truncated>>
  BY <1>2 DEF TreeTypes, BoundedNames, BoundedOutput, BoundedPhases
<1>3. CASE drain' = [drain EXCEPT ![s] = "broken"] /\ UNCHANGED <<pipe, buffer, truncated>>
  BY <1>3 DEF TreeTypes, BoundedNames, BoundedOutput, BoundedPhases
<1> QED
  BY <1>1, <1>2, <1>3

LEMMA BoundedLeaderExits ==
    ASSUME BoundedInv, pc # "done", B!LeaderExits, UNCHANGED <<B!caller, B!drains>> PROVE BoundedInv'
<1> USE Sizes DEF BoundedInv, B!NoResult, B!LeaderExits, B!GroupRuns, B!GroupExists, B!Writes, B!AtEnd, B!caller, B!drains,
       Streams
<1>1. TreeTypes'
  BY DEF TreeTypes, BoundedNames, BoundedOutput, BoundedPhases
<1>2. BoundedNames'
  BY DEF TreeTypes, BoundedNames, BoundedOutput, BoundedPhases
<1>3. BoundedOutput'
  BY DEF TreeTypes, BoundedNames, BoundedOutput, BoundedPhases
<1>4. BoundedPhases'
  BY DEF TreeTypes, BoundedNames, BoundedOutput, BoundedPhases
<1> QED
  BY <1>1, <1>2, <1>3, <1>4

LEMMA BoundedHelperStarts ==
    ASSUME BoundedInv, pc # "done", B!HelperStarts, UNCHANGED <<B!caller, B!drains>> PROVE BoundedInv'
<1> USE Sizes DEF BoundedInv, B!NoResult, B!HelperStarts, B!GroupRuns, B!GroupExists, B!Writes, B!AtEnd, B!caller, B!drains,
       Streams
<1>1. TreeTypes'
  BY DEF TreeTypes, BoundedNames, BoundedOutput, BoundedPhases
<1>2. BoundedNames'
  BY DEF TreeTypes, BoundedNames, BoundedOutput, BoundedPhases
<1>3. BoundedOutput'
  BY DEF TreeTypes, BoundedNames, BoundedOutput, BoundedPhases
<1>4. BoundedPhases'
  BY DEF TreeTypes, BoundedNames, BoundedOutput, BoundedPhases
<1> QED
  BY <1>1, <1>2, <1>3, <1>4

LEMMA BoundedHelperLeaves ==
    ASSUME BoundedInv, pc # "done", B!HelperLeaves, UNCHANGED <<B!caller, B!drains>> PROVE BoundedInv'
<1> USE Sizes DEF BoundedInv, B!NoResult, B!HelperLeaves, B!GroupRuns, B!GroupExists, B!Writes, B!AtEnd, B!caller, B!drains,
       Streams
<1>1. TreeTypes'
  BY DEF TreeTypes, BoundedNames, BoundedOutput, BoundedPhases
<1>2. BoundedNames'
  BY DEF TreeTypes, BoundedNames, BoundedOutput, BoundedPhases
<1>3. BoundedOutput'
  BY DEF TreeTypes, BoundedNames, BoundedOutput, BoundedPhases
<1>4. BoundedPhases'
  BY DEF TreeTypes, BoundedNames, BoundedOutput, BoundedPhases
<1> QED
  BY <1>1, <1>2, <1>3, <1>4

LEMMA BoundedHelperExits ==
    ASSUME BoundedInv, pc # "done", B!HelperExits, UNCHANGED <<B!caller, B!drains>> PROVE BoundedInv'
<1> USE Sizes DEF BoundedInv, B!NoResult, B!HelperExits, B!GroupRuns, B!GroupExists, B!Writes, B!AtEnd, B!caller, B!drains,
       Streams
<1>1. TreeTypes'
  BY DEF TreeTypes, BoundedNames, BoundedOutput, BoundedPhases
<1>2. BoundedNames'
  BY DEF TreeTypes, BoundedNames, BoundedOutput, BoundedPhases
<1>3. BoundedOutput'
  BY DEF TreeTypes, BoundedNames, BoundedOutput, BoundedPhases
<1>4. BoundedPhases'
  BY DEF TreeTypes, BoundedNames, BoundedOutput, BoundedPhases
<1> QED
  BY <1>1, <1>2, <1>3, <1>4

LEMMA BoundedWrites ==
    ASSUME BoundedInv, pc # "done", B!Output, UNCHANGED <<B!caller, B!drains>> PROVE BoundedInv'
<1> USE Sizes DEF BoundedInv, B!NoResult, B!Output, B!GroupRuns, B!GroupExists, B!Writes, B!AtEnd, B!caller, B!drains,
       Streams
<1>1. TreeTypes'
  BY DEF TreeTypes, BoundedNames, BoundedOutput, BoundedPhases
<1>2. BoundedNames'
  BY DEF TreeTypes, BoundedNames, BoundedOutput, BoundedPhases
<1>3. BoundedOutput'
  BY DEF TreeTypes, BoundedNames, BoundedOutput, BoundedPhases
<1>4. BoundedPhases'
  BY DEF TreeTypes, BoundedNames, BoundedOutput, BoundedPhases
<1> QED
  BY <1>1, <1>2, <1>3, <1>4

LEMMA BoundedStops == ASSUME BoundedInv, UNCHANGED B!vars PROVE BoundedInv'
<1> USE DEF BoundedInv, B!NoResult, B!vars, B!tree, B!GroupExists, B!AtEnd, Streams
<1>1. TreeTypes'
  BY DEF TreeTypes
<1>2. BoundedNames'
  BY DEF BoundedNames
<1>3. BoundedOutput'
  BY DEF BoundedOutput
<1>4. BoundedPhases'
  BY DEF BoundedPhases
<1> QED
  BY <1>1, <1>2, <1>3, <1>4

LEMMA BoundedNext == ASSUME BoundedInv, B!Next PROVE BoundedInv'
<1>1. CASE B!Caller
  BY <1>1, BoundedSpawn, BoundedWait, BoundedSendTerm, BoundedProbeTerm, BoundedSendKill,
     BoundedProbeKill, BoundedReapLeader, BoundedJoin, BoundedRequireCommand DEF B!Caller
<1>2. CASE \E s \in {"stdout", "stderr"} : pc # "done" /\ B!Drain(s)
  BY <1>2, BoundedDrain DEF Streams
<1>3. CASE B!Outside
  BY <1>3, BoundedLeaderExits, BoundedHelperStarts, BoundedHelperLeaves, BoundedHelperExits,
     BoundedWrites DEF B!Outside, B!TreeStep
<1>4. CASE B!Stop
  BY <1>4, BoundedStops DEF B!Stop
<1> QED
  BY <1>1, <1>2, <1>3, <1>4 DEF B!Next

\* What the invariant says of the parity check's component.
LEMMA BoundedKeepsItsPromises ==
    ASSUME BoundedInv PROVE B!TypeOK /\ B!AcceptedIsWhole /\ B!QuietMeansGone
<1>1. B!TypeOK
  <2>1. {truncated, timedOut} \subseteq BOOLEAN
    BY Zenon DEF BoundedInv, BoundedNames
  <2>2. B!TreeOK
    BY Sizes DEF BoundedInv, TreeTypes, B!TreeOK, Streams
  <2> QED
    BY <2>1, <2>2 DEF BoundedInv, BoundedNames, B!TypeOK, B!Failures, B!NoFailure, B!Answers, Streams
<1>2. ASSUME pc \in {"judge", "done"}, failure = "none", ~B!NoResult
      PROVE  ~B!GroupExists /\ joined = Streams /\ \A s \in Streams : drain[s] # "reading"
  BY <1>2 DEF BoundedInv, BoundedPhases, B!NoResult
<1>3. B!QuietMeansGone
  BY <1>2 DEF B!QuietMeansGone, B!NoFailure, Streams
<1>4. B!AcceptedIsWhole
  <2> SUFFICES ASSUME answer = "ok"
               PROVE  ~B!GroupExists
                      /\ \A s \in Streams : drain[s] # "broken" => buffer[s] = wrote[s]
    BY DEF B!AcceptedIsWhole, Streams
  <2>1. pc = "done" /\ failure = "none" /\ ~truncated
    BY DEF BoundedInv, BoundedPhases
  <2>2. \A s \in Streams : drain[s] \in {"ended", "broken"}
    BY <1>2, <2>1 DEF BoundedInv, BoundedNames, BoundedPhases, B!NoResult
  <2>3. \A s \in Streams : drain[s] = "ended" => pipe[s] = 0 /\ buffer[s] + pipe[s] = wrote[s]
    BY <2>1 DEF BoundedInv, BoundedOutput, B!AtEnd
  <2> QED
    BY <1>2, <2>1, <2>2, <2>3, Sizes DEF BoundedInv, BoundedNames, TreeTypes, B!NoResult
<1> QED
  BY <1>1, <1>3, <1>4

-----------------------------------------------------------------------------
LEMMA ObservedInitial == O!Init => ObservedInv
<1> SUFFICES ASSUME O!Init PROVE ObservedInv
  OBVIOUS
<1> USE Sizes DEF O!Init, O!TreeInit, Streams
<1>1. {doomed, quiet, nt, bound, gate, timedOut, clean, known} \subseteq BOOLEAN
      /\ truncated \in [Streams -> BOOLEAN]
  BY Zenon
<1>2. TreeTypes
  BY <1>1 DEF TreeTypes
<1>3. ObservedNames
  BY <1>1 DEF ObservedNames
<1>4. ObservedOutput /\ ObservedGate /\ ObservedPhases
  BY DEF ObservedOutput, ObservedGate, ObservedPhases
<1> QED
  BY <1>2, <1>3, <1>4 DEF ObservedInv

LEMMA ObservedPopen == ASSUME ObservedInv, O!Popen PROVE ObservedInv'
<1> USE Sizes DEF ObservedInv, O!Popen, O!StartReaders, O!Begun, O!Start, O!Ended, O!GroupExists, O!AtEnd, O!tree, O!job, O!caller,
       O!readers, Streams
<1>1. TreeTypes'
  BY DEF TreeTypes, ObservedGate, ObservedPhases
<1>2. ObservedNames'
  BY DEF TreeTypes, ObservedNames, ObservedPhases
<1>3. ObservedOutput'
  BY DEF TreeTypes, ObservedNames, ObservedOutput, ObservedGate, ObservedPhases
<1>4. ObservedGate'
  BY DEF ObservedNames, ObservedGate, ObservedPhases
<1>5. ObservedPhases'
  BY DEF TreeTypes, ObservedNames, ObservedOutput, ObservedGate, ObservedPhases
<1> QED
  BY <1>1, <1>2, <1>3, <1>4, <1>5

LEMMA ObservedBindSupervisor == ASSUME ObservedInv, O!BindSupervisor PROVE ObservedInv'
<1> USE Sizes DEF ObservedInv, O!BindSupervisor, O!readers, O!GroupExists, O!AtEnd, O!tree, O!job, O!caller,
       O!readers, Streams
<1>1. TreeTypes'
  BY DEF TreeTypes, ObservedGate, ObservedPhases
<1>2. ObservedNames'
  BY DEF TreeTypes, ObservedNames, ObservedPhases
<1>3. ObservedOutput'
  BY DEF TreeTypes, ObservedNames, ObservedOutput, ObservedGate, ObservedPhases
<1>4. ObservedGate'
  BY DEF ObservedNames, ObservedGate, ObservedPhases
<1>5. ObservedPhases'
  BY DEF TreeTypes, ObservedNames, ObservedOutput, ObservedGate, ObservedPhases
<1> QED
  BY <1>1, <1>2, <1>3, <1>4, <1>5

LEMMA ObservedReleaseSupervisor == ASSUME ObservedInv, O!ReleaseSupervisor PROVE ObservedInv'
<1> USE Sizes DEF ObservedInv, O!ReleaseSupervisor, O!StartReaders, O!Begun, O!Ended, O!GroupExists, O!AtEnd, O!tree, O!job, O!caller,
       O!readers, Streams
<1>1. TreeTypes'
  BY DEF TreeTypes, ObservedGate, ObservedPhases
<1>2. ObservedNames'
  BY DEF TreeTypes, ObservedNames, ObservedPhases
<1>3. ObservedOutput'
  BY DEF TreeTypes, ObservedNames, ObservedOutput, ObservedGate, ObservedPhases
<1>4. ObservedGate'
  BY DEF ObservedNames, ObservedGate, ObservedPhases
<1>5. ObservedPhases'
  BY DEF TreeTypes, ObservedNames, ObservedOutput, ObservedGate, ObservedPhases
<1> QED
  BY <1>1, <1>2, <1>3, <1>4, <1>5

LEMMA ObservedAbandon == ASSUME ObservedInv, O!Abandon PROVE ObservedInv'
<1> USE Sizes DEF ObservedInv, O!Abandon, O!Reap, O!Ended, O!job, O!GroupExists, O!AtEnd, O!tree, O!job, O!caller,
       O!readers, Streams
<1>1. TreeTypes'
  BY DEF TreeTypes, ObservedGate, ObservedPhases
<1>2. ObservedNames'
  BY DEF TreeTypes, ObservedNames, ObservedPhases
<1>3. ObservedOutput'
  BY DEF TreeTypes, ObservedNames, ObservedOutput, ObservedGate, ObservedPhases
<1>4. ObservedGate'
  BY DEF ObservedNames, ObservedGate, ObservedPhases
<1>5. ObservedPhases'
  BY DEF TreeTypes, ObservedNames, ObservedOutput, ObservedGate, ObservedPhases
<1> QED
  BY <1>1, <1>2, <1>3, <1>4, <1>5

LEMMA ObservedWait == ASSUME ObservedInv, O!Wait PROVE ObservedInv'
<1> USE Sizes DEF ObservedInv, O!Wait, O!Reap, O!GroupExists, O!AtEnd, O!tree, O!job, O!caller,
       O!readers, Streams
<1>1. TreeTypes'
  BY DEF TreeTypes, ObservedGate, ObservedPhases
<1>2. ObservedNames'
  BY DEF TreeTypes, ObservedNames, ObservedPhases
<1>3. ObservedOutput'
  BY DEF TreeTypes, ObservedNames, ObservedOutput, ObservedGate, ObservedPhases
<1>4. ObservedGate'
  BY DEF ObservedNames, ObservedGate, ObservedPhases
<1>5. ObservedPhases'
  BY DEF TreeTypes, ObservedNames, ObservedOutput, ObservedGate, ObservedPhases
<1> QED
  BY <1>1, <1>2, <1>3, <1>4, <1>5

LEMMA ObservedKillTree == ASSUME ObservedInv, O!KillTree PROVE ObservedInv'
<1> USE Sizes DEF ObservedInv, O!KillTree, O!Signalled, O!GroupExists, O!AtEnd, O!tree, O!job, O!caller,
       O!readers, Streams
<1>1. TreeTypes'
  BY DEF TreeTypes, ObservedGate, ObservedPhases
<1>2. ObservedNames'
  BY DEF TreeTypes, ObservedNames, ObservedPhases
<1>3. ObservedOutput'
  BY DEF TreeTypes, ObservedNames, ObservedOutput, ObservedGate, ObservedPhases
<1>4. ObservedGate'
  BY DEF ObservedNames, ObservedGate, ObservedPhases
<1>5. ObservedPhases'
  BY DEF TreeTypes, ObservedNames, ObservedOutput, ObservedGate, ObservedPhases
<1> QED
  BY <1>1, <1>2, <1>3, <1>4, <1>5

LEMMA ObservedPoll == ASSUME ObservedInv, O!Poll PROVE ObservedInv'
<1> USE Sizes DEF ObservedInv, O!Poll, O!Reap, O!GroupExists, O!AtEnd, O!tree, O!job, O!caller,
       O!readers, Streams
<1>1. TreeTypes'
  BY DEF TreeTypes, ObservedGate, ObservedPhases
<1>2. ObservedNames'
  BY DEF TreeTypes, ObservedNames, ObservedPhases
<1>3. ObservedOutput'
  BY DEF TreeTypes, ObservedNames, ObservedOutput, ObservedGate, ObservedPhases
<1>4. ObservedGate'
  BY DEF ObservedNames, ObservedGate, ObservedPhases
<1>5. ObservedPhases'
  BY DEF TreeTypes, ObservedNames, ObservedOutput, ObservedGate, ObservedPhases
<1> QED
  BY <1>1, <1>2, <1>3, <1>4, <1>5

LEMMA ObservedForce == ASSUME ObservedInv, O!Force PROVE ObservedInv'
<1> USE Sizes DEF ObservedInv, O!Force, O!Ended, O!GroupExists, O!AtEnd, O!tree, O!job, O!caller,
       O!readers, Streams
<1>1. TreeTypes'
  BY DEF TreeTypes, ObservedGate, ObservedPhases
<1>2. ObservedNames'
  BY DEF TreeTypes, ObservedNames, ObservedPhases
<1>3. ObservedOutput'
  BY DEF TreeTypes, ObservedNames, ObservedOutput, ObservedGate, ObservedPhases
<1>4. ObservedGate'
  BY DEF ObservedNames, ObservedGate, ObservedPhases
<1>5. ObservedPhases'
  BY DEF TreeTypes, ObservedNames, ObservedOutput, ObservedGate, ObservedPhases
<1> QED
  BY <1>1, <1>2, <1>3, <1>4, <1>5

LEMMA ObservedLastWait == ASSUME ObservedInv, O!LastWait PROVE ObservedInv'
<1> USE Sizes DEF ObservedInv, O!LastWait, O!Reap, O!GroupExists, O!AtEnd, O!tree, O!job, O!caller,
       O!readers, Streams
<1>1. TreeTypes'
  BY DEF TreeTypes, ObservedGate, ObservedPhases
<1>2. ObservedNames'
  BY DEF TreeTypes, ObservedNames, ObservedPhases
<1>3. ObservedOutput'
  BY DEF TreeTypes, ObservedNames, ObservedOutput, ObservedGate, ObservedPhases
<1>4. ObservedGate'
  BY DEF ObservedNames, ObservedGate, ObservedPhases
<1>5. ObservedPhases'
  BY DEF TreeTypes, ObservedNames, ObservedOutput, ObservedGate, ObservedPhases
<1> QED
  BY <1>1, <1>2, <1>3, <1>4, <1>5

LEMMA ObservedJoin == ASSUME ObservedInv, O!Join PROVE ObservedInv'
<1> USE Sizes DEF ObservedInv, O!Join, O!InTime, O!GroupExists, O!AtEnd, O!tree, O!job, O!caller,
       O!readers, Streams
<1>1. TreeTypes'
  BY DEF TreeTypes, ObservedGate, ObservedPhases
<1>2. ObservedNames'
  BY DEF TreeTypes, ObservedNames, ObservedPhases
<1>3. ObservedOutput'
  BY DEF TreeTypes, ObservedNames, ObservedOutput, ObservedGate, ObservedPhases
<1>4. ObservedGate'
  BY DEF ObservedNames, ObservedGate, ObservedPhases
<1>5. ObservedPhases'
  BY DEF TreeTypes, ObservedNames, ObservedOutput, ObservedGate, ObservedPhases
<1> QED
  BY <1>1, <1>2, <1>3, <1>4, <1>5

LEMMA ObservedConcludes == ASSUME ObservedInv, O!Result PROVE ObservedInv'
<1> USE Sizes DEF ObservedInv, O!Result, O!Ended, O!Status, O!GroupExists, O!AtEnd, O!tree, O!job, O!caller,
       O!readers, Streams
<1>1. TreeTypes'
  BY DEF TreeTypes, ObservedGate, ObservedPhases
<1>2. ObservedNames'
  BY DEF TreeTypes, ObservedNames, ObservedPhases
<1>3. ObservedOutput'
  BY DEF TreeTypes, ObservedNames, ObservedOutput, ObservedGate, ObservedPhases
<1>4. ObservedGate'
  BY DEF ObservedNames, ObservedGate, ObservedPhases
<1>5. ObservedPhases'
  BY DEF TreeTypes, ObservedNames, ObservedOutput, ObservedGate, ObservedPhases
<1> QED
  BY <1>1, <1>2, <1>3, <1>4, <1>5

LEMMA ObservedLeaderExits ==
    ASSUME ObservedInv, pc # "done", O!LeaderExits, UNCHANGED <<O!job, O!caller, O!readers>>
    PROVE  ObservedInv'
<1> USE Sizes DEF ObservedInv, O!LeaderExits, O!GroupRuns, O!GroupExists, O!Writes, O!AtEnd, O!job, O!caller,
       O!readers, Streams
<1>1. TreeTypes'
  BY DEF TreeTypes, ObservedGate, ObservedPhases
<1>2. ObservedNames'
  BY DEF TreeTypes, ObservedNames, ObservedPhases
<1>3. ObservedOutput'
  BY DEF TreeTypes, ObservedNames, ObservedOutput, ObservedGate, ObservedPhases
<1>4. ObservedGate'
  BY DEF ObservedNames, ObservedGate, ObservedPhases
<1>5. ObservedPhases'
  BY DEF TreeTypes, ObservedNames, ObservedOutput, ObservedGate, ObservedPhases
<1> QED
  BY <1>1, <1>2, <1>3, <1>4, <1>5

LEMMA ObservedHelperStarts ==
    ASSUME ObservedInv, pc # "done", gate, O!HelperStarts, UNCHANGED <<O!job, O!caller, O!readers>>
    PROVE  ObservedInv'
<1> USE Sizes DEF ObservedInv, O!HelperStarts, O!GroupRuns, O!GroupExists, O!Writes, O!AtEnd, O!job, O!caller,
       O!readers, Streams
<1>1. TreeTypes'
  BY DEF TreeTypes, ObservedGate, ObservedPhases
<1>2. ObservedNames'
  BY DEF TreeTypes, ObservedNames, ObservedPhases
<1>3. ObservedOutput'
  BY DEF TreeTypes, ObservedNames, ObservedOutput, ObservedGate, ObservedPhases
<1>4. ObservedGate'
  BY DEF ObservedNames, ObservedGate, ObservedPhases
<1>5. ObservedPhases'
  BY DEF TreeTypes, ObservedNames, ObservedOutput, ObservedGate, ObservedPhases
<1> QED
  BY <1>1, <1>2, <1>3, <1>4, <1>5

LEMMA ObservedHelperLeaves ==
    ASSUME ObservedInv, pc # "done", O!HelperLeaves, UNCHANGED <<O!job, O!caller, O!readers>>
    PROVE  ObservedInv'
<1> USE Sizes DEF ObservedInv, O!HelperLeaves, O!GroupRuns, O!GroupExists, O!Writes, O!AtEnd, O!job, O!caller,
       O!readers, Streams
<1>1. TreeTypes'
  BY DEF TreeTypes, ObservedGate, ObservedPhases
<1>2. ObservedNames'
  BY DEF TreeTypes, ObservedNames, ObservedPhases
<1>3. ObservedOutput'
  BY DEF TreeTypes, ObservedNames, ObservedOutput, ObservedGate, ObservedPhases
<1>4. ObservedGate'
  BY DEF ObservedNames, ObservedGate, ObservedPhases
<1>5. ObservedPhases'
  BY DEF TreeTypes, ObservedNames, ObservedOutput, ObservedGate, ObservedPhases
<1> QED
  BY <1>1, <1>2, <1>3, <1>4, <1>5

LEMMA ObservedHelperExits ==
    ASSUME ObservedInv, pc # "done", O!HelperExits, UNCHANGED <<O!job, O!caller, O!readers>>
    PROVE  ObservedInv'
<1> USE Sizes DEF ObservedInv, O!HelperExits, O!GroupRuns, O!GroupExists, O!Writes, O!AtEnd, O!job, O!caller,
       O!readers, Streams
<1>1. TreeTypes'
  BY DEF TreeTypes, ObservedGate, ObservedPhases
<1>2. ObservedNames'
  BY DEF TreeTypes, ObservedNames, ObservedPhases
<1>3. ObservedOutput'
  BY DEF TreeTypes, ObservedNames, ObservedOutput, ObservedGate, ObservedPhases
<1>4. ObservedGate'
  BY DEF ObservedNames, ObservedGate, ObservedPhases
<1>5. ObservedPhases'
  BY DEF TreeTypes, ObservedNames, ObservedOutput, ObservedGate, ObservedPhases
<1> QED
  BY <1>1, <1>2, <1>3, <1>4, <1>5

LEMMA ObservedWrites ==
    ASSUME ObservedInv, pc # "done", gate, O!Output, UNCHANGED <<O!job, O!caller, O!readers>>
    PROVE  ObservedInv'
<1> USE Sizes DEF ObservedInv, O!Output, O!GroupRuns, O!GroupExists, O!Writes, O!AtEnd, O!job, O!caller,
       O!readers, Streams
<1>1. TreeTypes'
  BY DEF TreeTypes, ObservedGate, ObservedPhases
<1>2. ObservedNames'
  BY DEF TreeTypes, ObservedNames, ObservedPhases
<1>3. ObservedOutput'
  BY DEF TreeTypes, ObservedNames, ObservedOutput, ObservedGate, ObservedPhases
<1>4. ObservedGate'
  BY DEF ObservedNames, ObservedGate, ObservedPhases
<1>5. ObservedPhases'
  BY DEF TreeTypes, ObservedNames, ObservedOutput, ObservedGate, ObservedPhases
<1> QED
  BY <1>1, <1>2, <1>3, <1>4, <1>5

LEMMA ObservedStops == ASSUME ObservedInv, UNCHANGED O!vars PROVE ObservedInv'
<1> USE DEF ObservedInv, O!vars, O!tree, O!GroupExists, O!AtEnd, Streams
<1>1. TreeTypes'
  BY DEF TreeTypes, ObservedGate, ObservedPhases
<1>2. ObservedNames'
  BY DEF TreeTypes, ObservedNames, ObservedPhases
<1>3. ObservedOutput'
  BY DEF TreeTypes, ObservedNames, ObservedOutput, ObservedGate, ObservedPhases
<1>4. ObservedGate'
  BY DEF ObservedNames, ObservedGate, ObservedPhases
<1>5. ObservedPhases'
  BY DEF TreeTypes, ObservedNames, ObservedOutput, ObservedGate, ObservedPhases
<1> QED
  BY <1>1, <1>2, <1>3, <1>4, <1>5

LEMMA ObservedRead == ASSUME ObservedInv, NEW s \in Streams, pc # "done", O!Read(s) PROVE ObservedInv'
<1> USE Sizes DEF ObservedInv, O!Read, O!GroupExists, O!AtEnd, O!job, O!caller, Streams
<1>1. CASE /\ \E n \in 1 .. pipe[s] : pipe' = [pipe EXCEPT ![s] = @ - n] /\ O!Captured(s, n)
           /\ UNCHANGED reader
  <2>1. PICK n \in 1 .. pipe[s] : pipe' = [pipe EXCEPT ![s] = @ - n] /\ O!Captured(s, n)
    BY <1>1
  <2>2. n \in Nat /\ 1 <= n /\ n <= pipe[s] /\ pipe'[s] = pipe[s] - n
    BY <2>1 DEF TreeTypes
  <2>3. truncated' \in [Streams -> BOOLEAN]
        /\ (~truncated'[s] => ~truncated[s] /\ ~(buffer[s] + n > MaxOutput))
        /\ \A t \in Streams \ {s} : truncated'[t] = truncated[t]
    BY <2>1, Zenon DEF ObservedNames, O!Captured
  <2>4. TreeTypes'
    BY <1>1, <2>1, <2>2 DEF TreeTypes
  <2>5. ObservedNames'
    BY <1>1, <2>1, <2>2, <2>3 DEF ObservedNames, O!Captured
  <2>6. ObservedOutput'
    <3>1. ASSUME ~truncated'[s] PROVE buffer'[s] + pipe'[s] = wrote[s]
      <4>1. buffer'[s] = buffer[s] + n
        BY <2>1, <2>2, <2>3, <3>1 DEF O!Captured, ObservedNames
      <4> QED
        BY <2>2, <2>3, <3>1, <4>1 DEF TreeTypes, ObservedNames, ObservedOutput
    <3>2. \A t \in Streams \ {s} : buffer'[t] = buffer[t] /\ pipe'[t] = pipe[t]
      BY <2>1 DEF TreeTypes, ObservedNames, O!Captured
    <3> QED
      BY <1>1, <2>3, <3>1, <3>2 DEF ObservedOutput
  <2>7. ObservedGate' /\ ObservedPhases'
    BY <1>1 DEF ObservedGate, ObservedPhases
  <2> QED
    BY <2>4, <2>5, <2>6, <2>7
<1>2. CASE /\ O!AtEnd(s) /\ reader' = [reader EXCEPT ![s] = "ended"]
           /\ UNCHANGED <<pipe, buffer, truncated>>
  BY <1>2 DEF TreeTypes, ObservedNames, ObservedOutput, ObservedGate, ObservedPhases
<1>3. CASE reader' = [reader EXCEPT ![s] = "broken"] /\ UNCHANGED <<pipe, buffer, truncated>>
  BY <1>3 DEF TreeTypes, ObservedNames, ObservedOutput, ObservedGate, ObservedPhases
<1> QED
  BY <1>1, <1>2, <1>3

LEMMA ObservedNext == ASSUME ObservedInv, O!Next PROVE ObservedInv'
<1>1. CASE O!Caller
  BY <1>1, ObservedPopen, ObservedBindSupervisor, ObservedReleaseSupervisor, ObservedAbandon,
     ObservedWait, ObservedKillTree, ObservedPoll, ObservedForce, ObservedLastWait, ObservedJoin,
     ObservedConcludes DEF O!Caller
<1>2. CASE \E s \in {"stdout", "stderr"} : pc # "done" /\ O!Read(s)
  BY <1>2, ObservedRead DEF Streams
<1>3. CASE O!Outside
  BY <1>3, ObservedLeaderExits, ObservedHelperStarts, ObservedHelperLeaves, ObservedHelperExits,
     ObservedWrites DEF O!Outside
<1>4. CASE O!Stop
  BY <1>4, ObservedStops DEF O!Stop
<1> QED
  BY <1>1, <1>2, <1>3, <1>4 DEF O!Next

\* What the invariant says of the observation's component.
LEMMA ObservedKeepsItsPromises ==
    ASSUME ObservedInv PROVE O!TypeOK /\ O!ObservedIsWhole /\ O!NothingRunsOn /\ O!GateHolds
<1>1. O!TypeOK
  <2>1. {nt, bound, gate, timedOut, clean, known} \subseteq BOOLEAN
    BY Zenon DEF ObservedInv, ObservedNames
  <2>2. O!TreeOK
    BY Sizes DEF ObservedInv, TreeTypes, O!TreeOK, Streams
  <2> QED
    BY <2>1, <2>2 DEF ObservedInv, ObservedNames, O!TypeOK, O!Statuses, Streams
<1>2. O!ObservedIsWhole
  <2> SUFFICES ASSUME status = "exited", \A s \in Streams : ~truncated[s]
               PROVE  buffer = wrote
    BY DEF O!ObservedIsWhole, O!Observed, Streams
  <2>1. \A s \in Streams : pipe[s] = 0 /\ buffer[s] + pipe[s] = wrote[s]
    BY DEF ObservedInv, ObservedPhases, ObservedOutput, O!AtEnd
  <2>2. \A s \in Streams : buffer[s] = wrote[s]
    BY <2>1, Sizes DEF ObservedInv, ObservedNames
  <2> QED
    BY <2>2 DEF ObservedInv, ObservedNames, TreeTypes
<1>3. O!NothingRunsOn
  BY DEF ObservedInv, ObservedPhases, O!NothingRunsOn, Streams
<1>4. O!GateHolds
  BY DEF ObservedInv, ObservedGate, O!GateHolds
<1> QED
  BY <1>1, <1>2, <1>3, <1>4

-----------------------------------------------------------------------------
(* All three. *)

LEMMA Initially == Init => Inv
  BY GitInitial, BoundedInitial, ObservedInitial DEF Init, Inv

LEMMA Preserved == ASSUME Inv, [Next]_vars PROVE Inv'
<1>1. CASE GitStep
  BY <1>1, GitNext DEF GitStep, TheRestStays, Inv
<1>2. CASE BoundedStep
  BY <1>2, BoundedNext DEF BoundedStep, TheRestStays, Inv
<1>3. CASE ObservedStep
  BY <1>3, ObservedNext DEF ObservedStep, TheRestStays, Inv
<1>4. CASE UNCHANGED vars
  <2>1. part' = part /\ UNCHANGED G!vars /\ UNCHANGED B!vars /\ UNCHANGED O!vars
    BY <1>4 DEF vars, G!vars, B!vars, B!tree, O!vars, O!tree
  <2> QED
    BY <2>1, GitStops, BoundedStops, ObservedStops DEF Inv
<1> QED
  BY <1>1, <1>2, <1>3, <1>4 DEF Next

\* Each of RepositoryGit._run_command, run_bounded_command and run_command keeps the invariant
\* of its own component in every behaviour, whatever the sizes.
THEOREM CommandsInvariant == Spec => []Inv
<1> QED
  BY Initially, Preserved, PTL DEF Spec

\* The types of every component hold in every state; in particular a reader thread of git
\* never keeps more than one byte beyond the limit of its stream (the capture loop reads
\* at most the rest of the limit and one byte to tell the excess).
THEOREM CommandsTypes == Spec => []TypeOK
<1>1. Inv => TypeOK
  BY GitKeepsItsPromises, BoundedKeepsItsPromises, ObservedKeepsItsPromises DEF Inv, TypeOK
<1> QED
  BY <1>1, CommandsInvariant, PTL

\* What a tool goes on with is all that the command and its descendants wrote, within the
\* limits: git's captured bytes when it exits with zero, the drained output that
\* require_command accepts, and the buffers of an observed run that are not truncated.
THEOREM AcceptedOutputIsWhole == Spec => []AcceptedIsWhole
<1>1. Inv => AcceptedIsWhole
  BY GitKeepsItsPromises, BoundedKeepsItsPromises, ObservedKeepsItsPromises DEF Inv, AcceptedIsWhole
<1> QED
  BY <1>1, CommandsInvariant, PTL

\* A run that ends without reporting a failed cleanup left no descriptor of git's pipes open,
\* no process of the group (_terminate_group) and no process of the session or job running
\* that was not told to end (run_command); on Windows nothing ran outside the job.
THEOREM NothingIsLeftBehind == Spec => []NothingLeftBehind
<1>1. Inv => NothingLeftBehind
  BY GitKeepsItsPromises, BoundedKeepsItsPromises, ObservedKeepsItsPromises DEF Inv, NothingLeftBehind
<1> QED
  BY <1>1, CommandsInvariant, PTL
=============================================================================
