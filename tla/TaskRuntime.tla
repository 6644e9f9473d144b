---------------------------- MODULE TaskRuntime ----------------------------
(***************************************************************************)
(* What the shared task runtime promises to a BLAS routine that hands it a *)
(* fixed set of tasks (run, runLowLatency of thread_pool.zig and the       *)
(* `if (!run(...)) fallback` of every caller): the tasks of one call either*)
(* all execute exactly once before `true` comes back, or none of them has  *)
(* executed when `false` comes back, and the caller then does the whole    *)
(* operation itself.  Two calls never execute helper tasks at once.        *)
(*                                                                         *)
(* This is the abstract specification; ThreadPool implements it.           *)
(***************************************************************************)
EXTENDS Naturals

CONSTANTS
  Callers,   (* application threads that enter the library                 *)
  MaxCount   (* the largest task count a caller asks for                   *)

VARIABLES
  call,      (* stage of each caller's current operation                   *)
  size,      (* `count` of that operation                                  *)
  exec       (* exec[c][i]: how often output region i of c was written     *)

tvars == <<call, size, exec>>

Region   == 0 .. MaxCount - 1
Stages   == {"idle", "open", "accepted", "refused", "settled"}
NoWrites == [i \in Region |-> 0]

\* Every region of an operation with n tasks written exactly once, no other.
WrittenOnce(n) == [i \in Region |-> IF i < n THEN 1 ELSE 0]

\* The operation of c has started on its tasks and has not been answered.
Partial(c) == call[c] = "open" /\ exec[c] # NoWrites

Init ==
  /\ call = [c \in Callers |-> "idle"]
  /\ size = [c \in Callers |-> 0]
  /\ exec = [c \in Callers |-> NoWrites]

Begin(c, n) ==
  /\ call[c] = "idle"
  /\ call' = [call EXCEPT ![c] = "open"]
  /\ size' = [size EXCEPT ![c] = n]
  /\ UNCHANGED exec

\* Some thread runs task i of c: only ever once, and only for the one
\* operation the runtime has admitted.
Execute(c, i) ==
  /\ call[c] = "open"
  /\ i < size[c]
  /\ exec[c][i] = 0
  /\ \A d \in Callers \ {c} : ~Partial(d)
  /\ exec' = [exec EXCEPT ![c][i] = 1]
  /\ UNCHANGED <<call, size>>

Accept(c) ==
  /\ call[c] = "open"
  /\ exec[c] = WrittenOnce(size[c])
  /\ call' = [call EXCEPT ![c] = "accepted"]
  /\ UNCHANGED <<size, exec>>

Refuse(c) ==
  /\ call[c] = "open"
  /\ exec[c] = NoWrites
  /\ call' = [call EXCEPT ![c] = "refused"]
  /\ UNCHANGED <<size, exec>>

\* The caller of a refused operation runs the whole-operation fallback.
Fallback(c) ==
  /\ call[c] = "refused"
  /\ call' = [call EXCEPT ![c] = "settled"]
  /\ exec' = [exec EXCEPT ![c] = WrittenOnce(size[c])]
  /\ UNCHANGED size

Finish(c) ==
  /\ call[c] \in {"accepted", "settled"}
  /\ call' = [call EXCEPT ![c] = "idle"]
  /\ size' = [size EXCEPT ![c] = 0]
  /\ exec' = [exec EXCEPT ![c] = NoWrites]

Next ==
  \E c \in Callers :
    \/ \E n \in 0 .. MaxCount : Begin(c, n)
    \/ \E i \in Region : Execute(c, i)
    \/ Accept(c)
    \/ Refuse(c)
    \/ Fallback(c)
    \/ Finish(c)

Spec == Init /\ [][Next]_tvars
=============================================================================
