--------------------------- MODULE MCKernelSelect ---------------------------
(* KernelSelect on every host of its feature space.  On a few hosts whose  *)
(* tiers differ three threads race through first use while the environment *)
(* changes; on the others one thread goes through it alone.                *)
EXTENDS KernelSelect

CONSTANTS t1, t2, t3

ThreeThreads == {t1, t2, t3}
AllHosts     == Machine

RacedHosts ==
  { [arch |-> "aarch64", cpu |-> ArmFeatures, os |-> {}],
    [arch |-> "aarch64", cpu |-> ArmFeatures \ {"f64f64"}, os |-> {}],
    [arch |-> "x86_64", cpu |-> X86Features, os |-> {"ymm", "zmm"}],
    [arch |-> "x86_64", cpu |-> X86Features, os |-> {"ymm"}],
    [arch |-> "other", cpu |-> {}, os |-> {}] }

OthersRest == \A t \in Threads \ {t1} : pc'[t] = pc[t]

MCNext == Next /\ (machine \in RacedHosts \/ OthersRest)
MCSpec == Init /\ [][MCNext]_vars
=============================================================================
