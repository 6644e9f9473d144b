---------------------------- MODULE KernelSelect ----------------------------
(***************************************************************************)
(* Which kernel object a process runs (dynamic dispatch builds):           *)
(* hardware.zig turns CPU and OS evidence into capabilities behind a       *)
(* lock-free cache, kernels/multiversion/client.zig turns capabilities and *)
(* ZYNUM_MAX_ISA into a tier behind a second one, and build.zig compiles   *)
(* one object per tier with the features that tier may use.                *)
(*                                                                         *)
(* The features one condition always tests together are one feature here:  *)
(* "fp" is neon, fp_armv8 and fullfp16; "sse" is sse to sse4_2; "avx512x"  *)
(* is avx512dq, bw and vl; "xsave" is XSAVE and OSXSAVE.                   *)
(***************************************************************************)
EXTENDS Naturals

CONSTANTS
  Threads,    (* application and helper threads that call into the kernels *)
  Machines,   (* the hosts considered, see Machine                         *)
  Settings    (* the values ZYNUM_MAX_ISA takes while the process runs     *)

ArmFeatures == {"fp", "bf16", "sve", "sve2", "sme", "sme2", "sme2p1", "f64f64"}
X86Features == {"sse", "xsave", "avx", "f16c", "fma", "avx2", "avx512f", "avx512x"}
Features    == ArmFeatures \union X86Features

\* What the CPU reports, and the register states the OS has enabled in XCR0.
Machine ==
  [arch : {"aarch64"}, cpu : SUBSET ArmFeatures, os : {{}}]
    \union [arch : {"x86_64"}, cpu : SUBSET X86Features, os : SUBSET {"ymm", "zmm"}]
    \union [arch : {"other"}, cpu : {{}}, os : {{}}]

\* The enum Tier: 0 baseline, 1-4 sve2, sme, sme2, sme2p1, 5-7 avx, avx2_fma,
\* avx512.  Unset: the variable is absent.  Unknown: not the name of a tier.
Tier    == 0 .. 7
Empty   == 255
Unset   == 100
Unknown == 101

ASSUME SelectAssumptions ==
  /\ Machines \subseteq Machine
  /\ Settings \subseteq Tier \union {Unset, Unknown}

VARIABLES
  machine,   (* the host, fixed for the process                            *)
  env,       (* ZYNUM_MAX_ISA now: the application may call setenv         *)
  capCache,  (* hardware.cache: {} is the word 0                           *)
  tierCache, (* cached_tier                                                *)
  pc,        (* where each thread is in selectedTier                       *)
  cap,       (* its result of hardware.detected()                          *)
  tier,      (* its `detected` tier, then the tier whose entry it calls    *)
  entered,   (* history: the tiers whose object has been entered           *)
  offered    (* history: the values env has had                            *)

history == <<entered, offered>>
vars    == <<machine, env, capCache, tierCache, pc, cap, tier, history>>
-----------------------------------------------------------------------------
\* Evidence to capabilities.  XGETBV runs only under XSAVE and AVX.
bugIgnoreZmm(cpu, os) ==
  LET avx == {"xsave", "avx"} \subseteq cpu /\ "ymm" \in os
  IN  (cpu \intersect {"sse"})
        \union (IF avx THEN cpu \intersect {"avx", "f16c", "fma", "avx2"} ELSE {})
        \union (IF avx THEN cpu \intersect {"avx512f", "avx512x"} ELSE {})

fromX86Evidence(cpu, os) ==
  LET avx    == {"xsave", "avx"} \subseteq cpu /\ "ymm" \in os
      avx512 == avx /\ {"ymm", "zmm"} \subseteq os /\ "avx512f" \in cpu
  IN  (cpu \intersect {"sse"})
        \union (IF avx THEN cpu \intersect {"avx", "f16c", "fma", "avx2"} ELSE {})
        \union (IF avx512 THEN cpu \intersect {"avx512f", "avx512x"} ELSE {})

fromLinuxAarch64Hwcap(cpu) ==
  (cpu \intersect {"fp", "bf16", "sve", "sme"})
    \union (IF "sve" \in cpu THEN cpu \intersect {"sve2"} ELSE {})
    \union (IF "sme" \in cpu THEN cpu \intersect {"sme2", "f64f64"} ELSE {})
    \union (IF {"sme", "sme2"} \subseteq cpu THEN cpu \intersect {"sme2p1"} ELSE {})

detect(m) ==
  CASE m.arch = "x86_64"  -> fromX86Evidence(m.cpu, m.os)
    [] m.arch = "aarch64" -> fromLinuxAarch64Hwcap(m.cpu)
    [] OTHER              -> {}

\* The `initialized` bit tells "no feature" from "not probed yet".
bugInitializedBitRead(w) == w
encode(c) == c \union {"initialized"}
decode(w) == w \ {"initialized"}

supportsSve2(c)    == {"fp", "sve", "sve2"} \subseteq c
supportsSme(c)     == {"fp", "bf16", "sme"} \subseteq c
supportsSme2(c)    == supportsSme(c) /\ "sme2" \in c
supportsSme2p1(c)  == supportsSme2(c) /\ "sme2p1" \in c
supportsAvx(c)     == {"sse", "avx"} \subseteq c
supportsAvx2Fma(c) == supportsAvx(c) /\ {"avx2", "fma"} \subseteq c
supportsAvx512(c)  == supportsAvx2Fma(c) /\ {"f16c", "avx512f", "avx512x"} \subseteq c

selectAarch64(c, ceiling) ==
  IF ceiling = 0 \/ ceiling > 4 THEN 0
  ELSE IF ceiling >= 4 /\ supportsSme2p1(c) /\ "f64f64" \in c THEN 4
  ELSE IF ceiling >= 3 /\ supportsSme2(c) /\ "f64f64" \in c THEN 3
  ELSE IF ceiling >= 2 /\ supportsSme(c) THEN 2
  ELSE IF supportsSve2(c) THEN 1 ELSE 0

selectX86(c, ceiling) ==
  IF ceiling < 5 THEN 0
  ELSE IF ceiling >= 7 /\ supportsAvx512(c) THEN 7
  ELSE IF ceiling >= 6 /\ supportsAvx2Fma(c) THEN 6
  ELSE IF supportsAvx(c) THEN 5 ELSE 0

select(arch, c, ceiling) ==
  CASE arch = "aarch64" -> selectAarch64(c, ceiling)
    [] arch = "x86_64"  -> selectX86(c, ceiling)
    [] OTHER            -> 0

ownTiers(arch) ==
  CASE arch = "aarch64" -> 0 .. 4
    [] arch = "x86_64"  -> {0} \union 5 .. 7
    [] OTHER            -> {0}

maximum(arch) ==
  CASE arch = "aarch64" -> 4 [] arch = "x86_64" -> 7 [] OTHER -> 0

\* Wrong-architecture and unknown names select the baseline.
bugUnknownMeansMaximum(arch, e) == IF e \in ownTiers(arch) THEN e ELSE maximum(arch)
ceilingFromEnvironment(arch, e) ==
  IF e = Unset THEN maximum(arch)
  ELSE IF e \in ownTiers(arch) THEN e ELSE 0

\* buildKernelTiers: the features an object is compiled with, and the ones
\* LLVM derives from them (hardware.zig names both kinds of dependency).
objectFeatures(t) ==
  CASE t = 1 -> {"fp", "sve", "sve2"}
    [] t = 2 -> {"fp", "bf16", "sme"}
    [] t = 3 -> {"fp", "bf16", "sme", "sme2", "f64f64"}
    [] t = 4 -> {"fp", "bf16", "sme", "sme2", "sme2p1", "f64f64"}
    [] t = 5 -> {"sse", "avx"}
    [] t = 6 -> {"sse", "avx", "avx2", "fma"}
    [] t = 7 -> {"sse", "avx", "avx2", "fma", "f16c", "avx512f", "avx512x"}
    [] OTHER -> {}
-----------------------------------------------------------------------------
Goto(t, from, to) == pc[t] = from /\ pc' = [pc EXCEPT ![t] = to]

Init ==
  /\ machine \in Machines
  /\ env \in Settings
  /\ capCache = {} /\ tierCache = Empty
  /\ pc = [t \in Threads |-> "idle"]
  /\ cap = [t \in Threads |-> {}]
  /\ tier = [t \in Threads |-> 0]
  /\ entered = {} /\ offered = {env}

\* The application calls setenv or unsetenv.
SetEnv ==
  /\ env' \in Settings
  /\ offered' = offered \union {env'}
  /\ UNCHANGED <<machine, capCache, tierCache, pc, cap, tier, entered>>

\* cached_tier.load(.acquire)
LoadTier(t) ==
  /\ IF tierCache # Empty
     THEN Goto(t, "idle", "call") /\ tier' = [tier EXCEPT ![t] = tierCache]
     ELSE Goto(t, "idle", "detect") /\ UNCHANGED tier
  /\ UNCHANGED <<machine, env, capCache, tierCache, cap, history>>

\* hardware.detected(): a hit decodes the snapshot, a miss probes the machine.
LoadCapabilities(t) ==
  /\ IF capCache # {}
     THEN Goto(t, "detect", "ceiling") /\ cap' = [cap EXCEPT ![t] = decode(capCache)]
     ELSE Goto(t, "detect", "store") /\ cap' = [cap EXCEPT ![t] = detect(machine)]
  /\ UNCHANGED <<machine, env, capCache, tierCache, tier, history>>

StoreCapabilities(t) ==
  /\ Goto(t, "store", "ceiling")
  /\ capCache' = encode(cap[t])
  /\ UNCHANGED <<machine, env, tierCache, cap, tier, history>>

ReadCeiling(t) ==
  /\ Goto(t, "ceiling", "publish")
  /\ tier' = [tier EXCEPT ![t] =
       select(machine.arch, cap[t], ceilingFromEnvironment(machine.arch, env))]
  /\ UNCHANGED <<machine, env, capCache, tierCache, cap, history>>

\* cmpxchgStrong: the first publication wins, the others adopt it.
bugKeepOwnChoice(t) ==
  /\ Goto(t, "publish", "call")
  /\ tierCache' = tier[t]
  /\ UNCHANGED <<machine, env, capCache, tier, cap, history>>

PublishTier(t) ==
  /\ Goto(t, "publish", "call")
  /\ IF tierCache = Empty
     THEN tierCache' = tier[t] /\ UNCHANGED tier
     ELSE tier' = [tier EXCEPT ![t] = tierCache] /\ UNCHANGED tierCache
  /\ UNCHANGED <<machine, env, capCache, cap, history>>

\* entry(selectedTier())(...): runs the object, whose thread-local workspaces
\* stay behind in this thread.
CallEntry(t) ==
  /\ Goto(t, "call", "idle")
  /\ entered' = entered \union {tier[t]}
  /\ UNCHANGED <<machine, env, capCache, tierCache, cap, tier, offered>>

Next ==
  \/ SetEnv
  \/ \E t \in Threads :
       \/ LoadTier(t)
       \/ LoadCapabilities(t)
       \/ StoreCapabilities(t)
       \/ ReadCeiling(t)
       \/ PublishTier(t)
       \/ CallEntry(t)

Spec == Init /\ [][Next]_vars
-----------------------------------------------------------------------------
\* Every variable is in range.
TypeOK ==
  /\ machine \in Machines
  /\ env \in Settings
  /\ capCache \in SUBSET (Features \union {"initialized"})
  /\ tierCache \in Tier \union {Empty}
  /\ pc \in [Threads -> {"idle", "detect", "store", "ceiling", "publish", "call"}]
  /\ cap \in [Threads -> SUBSET Features]
  /\ tier \in [Threads -> Tier]
  /\ entered \subseteq Tier
  /\ offered \subseteq Settings

\* "The first publication wins; changes to the environment after init do not
\* switch live TLS workspaces between ISA objects": one process only ever runs
\* one kernel object, whichever threads race and whatever they read from the
\* environment.
OneObject == \A x, y \in entered : x = y

\* An instruction runs when the CPU has it and the OS saves its registers.
executable(m) ==
  {f \in m.cpu :
    /\ f \in {"avx", "f16c", "fma", "avx2", "avx512f", "avx512x"} =>
         "xsave" \in m.cpu /\ "ymm" \in m.os
    /\ f \in {"avx512f", "avx512x"} => "zmm" \in m.os}

\* "ISA objects never run before CPU/OS admission": every instruction the
\* compiler may have put in an entered object runs on this host.
ObjectRuns == \A t \in entered : objectFeatures(t) \subseteq executable(machine)

\* "An override only removes capabilities, never grants them": an entered
\* object beyond the baseline was allowed by a value ZYNUM_MAX_ISA has had.
CeilingKept ==
  \A t \in entered \ {0} :
    t \in ownTiers(machine.arch)
      /\ \E e \in offered : e = Unset \/ (e \in ownTiers(machine.arch) /\ t <= e)
=============================================================================
