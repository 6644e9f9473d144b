---------------------------- MODULE RuntimeUser ----------------------------
(***************************************************************************)
(* What the users of the task runtime have in common: application threads  *)
(* that call it, and the runtime itself, the abstract TaskRuntime.         *)
(***************************************************************************)
EXTENDS Integers

CONSTANTS
  Callers,  (* application threads                                         *)
  MaxTasks  (* core_pool.max_tasks, also max_stack_tasks: 64               *)

VARIABLES
  call, size, exec,  (* the runtime: see TaskRuntime                       *)
  pc                 (* where each caller is                               *)

Runtime == INSTANCE TaskRuntime WITH MaxCount <- MaxTasks
runtimeVars == <<call, size, exec>>

AtMost(a, b) == IF a <= b THEN a ELSE b

Goto(c, from, to) == pc[c] = from /\ pc' = [pc EXCEPT ![c] = to]
=============================================================================
