------------------------- MODULE KernelSelectProofs -------------------------
(***************************************************************************)
(* For every set of threads, hosts and settings: one process runs one      *)
(* kernel object, and only one that the host can execute and the           *)
(* environment allowed.                                                    *)
(***************************************************************************)
EXTENDS KernelSelect, TLAPS

\* What select may answer: an object this host runs and a setting allowed.
Runs(x)    == objectFeatures(x) \subseteq executable(machine)
Allowed(x) ==
  x # 0 => /\ x \in ownTiers(machine.arch)
           /\ \E e \in offered : e = Unset \/ (e \in ownTiers(machine.arch) /\ x <= e)

\* The capabilities a thread works with are the host's, and the setting it
\* reads is one the environment has had.
Evidence ==
  /\ env \in offered
  /\ capCache \in {{}, encode(detect(machine))}
  /\ \A t \in Threads : pc[t] \in {"store", "ceiling"} => cap[t] = detect(machine)

\* A tier on its way to publication, or published, is a legal one.
Chosen ==
  /\ \A t \in Threads : pc[t] = "publish" => Runs(tier[t]) /\ Allowed(tier[t])
  /\ tierCache # Empty => Runs(tierCache) /\ Allowed(tierCache)

\* Whoever is about to enter an object, or has, took the published tier.
Adopted ==
  /\ \A t \in Threads : pc[t] = "call" => tierCache # Empty /\ tier[t] = tierCache
  /\ \A x \in entered : tierCache # Empty /\ x = tierCache

IndInv == TypeOK /\ Evidence /\ Chosen /\ Adopted
-----------------------------------------------------------------------------
LEMMA DetectType == ASSUME NEW m \in Machine PROVE detect(m) \in SUBSET Features
  BY DEF detect, fromX86Evidence, fromLinuxAarch64Hwcap, Features, ArmFeatures,
         X86Features, Machine

\* A stored snapshot reads back as itself, and is never the unprobed word.
LEMMA DecodeEncode ==
  ASSUME NEW c \in SUBSET Features PROVE decode(encode(c)) = c /\ encode(c) # {}
  BY DEF decode, encode, Features, ArmFeatures, X86Features

\* select() on AArch64 evidence needs every feature of the object it picks.
LEMMA SelectArm ==
  ASSUME NEW cpu \in SUBSET ArmFeatures, NEW ceiling \in Tier,
         NEW x, x = selectAarch64(fromLinuxAarch64Hwcap(cpu), ceiling)
  PROVE  x \in 0 .. 4 /\ x <= ceiling /\ objectFeatures(x) \subseteq cpu
<1> DEFINE c == fromLinuxAarch64Hwcap(cpu)
<1>1. c \subseteq cpu
  BY DEF fromLinuxAarch64Hwcap
<1>2. x \in 0 .. 4 /\ x <= ceiling
  BY DEF selectAarch64, Tier
<1>3. /\ x = 1 => supportsSve2(c)
      /\ x = 2 => supportsSme(c)
      /\ x = 3 => supportsSme2(c) /\ "f64f64" \in c
      /\ x = 4 => supportsSme2p1(c) /\ "f64f64" \in c
  BY DEF selectAarch64, Tier
<1>4. objectFeatures(x) \subseteq c
  <2>1. CASE x = 0
    BY <2>1 DEF objectFeatures
  <2>2. CASE x = 1
    BY <1>3, <2>2 DEF objectFeatures, supportsSve2
  <2>3. CASE x = 2
    BY <1>3, <2>3 DEF objectFeatures, supportsSme
  <2>4. CASE x = 3
    BY <1>3, <2>4 DEF objectFeatures, supportsSme, supportsSme2
  <2>5. CASE x = 4
    BY <1>3, <2>5 DEF objectFeatures, supportsSme, supportsSme2, supportsSme2p1
  <2> QED BY <1>2, <2>1, <2>2, <2>3, <2>4, <2>5
<1> QED BY <1>1, <1>2, <1>4

\* The same on x86-64, where the OS must also save the registers.
LEMMA SelectX86 ==
  ASSUME NEW m \in Machine, m.arch = "x86_64", NEW ceiling \in Tier,
         NEW x, x = selectX86(fromX86Evidence(m.cpu, m.os), ceiling)
  PROVE  /\ x \in {0} \union 5 .. 7 /\ x <= ceiling
         /\ objectFeatures(x) \subseteq executable(m)
<1> DEFINE c == fromX86Evidence(m.cpu, m.os)
<1>1. c \subseteq executable(m)
  BY DEF fromX86Evidence, executable
<1>2. x \in {0} \union 5 .. 7 /\ x <= ceiling
  BY DEF selectX86, Tier
<1>3. /\ x = 5 => supportsAvx(c)
      /\ x = 6 => supportsAvx2Fma(c)
      /\ x = 7 => supportsAvx512(c)
  BY DEF selectX86, Tier
<1>4. objectFeatures(x) \subseteq c
  <2>1. CASE x = 0
    BY <2>1 DEF objectFeatures
  <2>2. CASE x = 5
    BY <1>3, <2>2 DEF objectFeatures, supportsAvx
  <2>3. CASE x = 6
    BY <1>3, <2>3 DEF objectFeatures, supportsAvx, supportsAvx2Fma
  <2>4. CASE x = 7
    BY <1>3, <2>4 DEF objectFeatures, supportsAvx, supportsAvx2Fma, supportsAvx512
  <2> QED BY <1>2, <2>1, <2>2, <2>3, <2>4
<1> QED BY <1>1, <1>2, <1>4

\* The ceiling is a tier of this architecture, and 0 unless a setting allows it.
LEMMA CeilingType ==
  ASSUME NEW m \in Machine, NEW e \in Tier \union {Unset, Unknown}
  PROVE  /\ ceilingFromEnvironment(m.arch, e) \in Tier
         /\ ceilingFromEnvironment(m.arch, e) # 0 =>
              \/ e = Unset
              \/ e \in ownTiers(m.arch) /\ e = ceilingFromEnvironment(m.arch, e)
  BY DEF Machine, ceilingFromEnvironment, ownTiers, maximum, Tier, Unset, Unknown

\* Whatever ReadCeiling selects may be entered.
LEMMA SelectSafe ==
  ASSUME NEW m \in Machine, NEW e \in Tier \union {Unset, Unknown},
         NEW x, x = select(m.arch, detect(m), ceilingFromEnvironment(m.arch, e))
  PROVE  /\ x \in Tier /\ objectFeatures(x) \subseteq executable(m)
         /\ x # 0 => /\ x \in ownTiers(m.arch)
                     /\ e = Unset \/ (e \in ownTiers(m.arch) /\ x <= e)
<1> DEFINE ceiling == ceilingFromEnvironment(m.arch, e)
<1>1. ceiling \in Tier /\ (ceiling # 0 => e = Unset \/ (e \in ownTiers(m.arch) /\ e = ceiling))
  BY CeilingType
<1>2. m.arch \in {"aarch64", "x86_64", "other"}
  BY DEF Machine
<1>3. CASE m.arch = "aarch64"
  <2>1. m.cpu \in SUBSET ArmFeatures /\ m.os = {}
    BY <1>3 DEF Machine
  <2>2. x = selectAarch64(fromLinuxAarch64Hwcap(m.cpu), ceiling)
    BY <1>3 DEF select, detect
  <2>3. executable(m) = m.cpu
    BY <2>1 DEF executable, ArmFeatures
  <2>4. x \in 0 .. 4 /\ x <= ceiling /\ objectFeatures(x) \subseteq m.cpu
    <3> HIDE DEF ceiling
    <3> QED BY <1>1, <2>1, <2>2, SelectArm
  <2>5. x \in Tier /\ x \in ownTiers(m.arch)
    BY <2>4, <1>3 DEF Tier, ownTiers
  <2>6. x # 0 => e = Unset \/ (e \in ownTiers(m.arch) /\ x <= e)
    <3> HIDE DEF ceiling
    <3> QED BY <1>1, <2>4 DEF Tier
  <2> QED BY <2>3, <2>4, <2>5, <2>6
<1>4. CASE m.arch = "x86_64"
  <2>1. x = selectX86(fromX86Evidence(m.cpu, m.os), ceiling)
    BY <1>4 DEF select, detect
  <2>2. x \in {0} \union 5 .. 7 /\ x <= ceiling /\ objectFeatures(x) \subseteq executable(m)
    <3> HIDE DEF ceiling
    <3> QED BY <1>1, <1>4, <2>1, SelectX86
  <2>3. x \in Tier /\ x \in ownTiers(m.arch)
    BY <2>2, <1>4 DEF Tier, ownTiers
  <2>4. x # 0 => e = Unset \/ (e \in ownTiers(m.arch) /\ x <= e)
    <3> HIDE DEF ceiling
    <3> QED BY <1>1, <2>2 DEF Tier
  <2> QED BY <2>2, <2>3, <2>4
<1>5. CASE m.arch = "other"
  <2>1. x = 0
    BY <1>5 DEF select
  <2> QED BY <2>1 DEF objectFeatures, Tier
<1> QED BY <1>2, <1>3, <1>4, <1>5
-----------------------------------------------------------------------------
LEMMA InitInv == Init => IndInv
<1> SUFFICES ASSUME Init PROVE IndInv
  OBVIOUS
<1> QED BY SelectAssumptions
        DEF Init, IndInv, TypeOK, Evidence, Chosen, Adopted, Tier, Empty

LEMMA StepInv == IndInv /\ [Next]_vars => IndInv'
<1> SUFFICES ASSUME IndInv, [Next]_vars PROVE IndInv'
  OBVIOUS
<1> USE DEF IndInv, history
<1>m. machine \in Machine /\ env \in Tier \union {Unset, Unknown} /\ Empty \notin Tier
  BY SelectAssumptions DEF TypeOK, Tier, Empty
<1>1. CASE SetEnv
  <2>1. TypeOK'
    BY <1>1 DEF SetEnv, TypeOK
  <2>2. \A x : Allowed(x) => Allowed(x)'
    BY <1>1 DEF SetEnv, Allowed
  <2>3. Evidence' /\ Adopted'
    BY <1>1 DEF SetEnv, Evidence, Adopted
  <2>4. Chosen'
    BY <1>1, <2>2 DEF SetEnv, Chosen, Runs
  <2> QED BY <2>1, <2>3, <2>4
<1>2. ASSUME NEW t \in Threads, LoadTier(t) PROVE IndInv'
  BY <1>2 DEF LoadTier, Goto, TypeOK, Evidence, Chosen, Adopted, Runs, Allowed
<1>3. ASSUME NEW t \in Threads, LoadCapabilities(t) PROVE IndInv'
  <2>1. detect(machine) \in SUBSET Features
    BY <1>m, DetectType
  <2>2. decode(encode(detect(machine))) = detect(machine) /\ encode(detect(machine)) # {}
    BY <2>1, DecodeEncode
  <2>3. cap' = [cap EXCEPT ![t] = detect(machine)]
    BY <1>3, <2>2 DEF LoadCapabilities, Evidence
  <2>4. TypeOK'
    BY <1>3, <2>1, <2>3 DEF LoadCapabilities, Goto, TypeOK
  <2>5. Evidence'
    BY <1>3, <2>3 DEF LoadCapabilities, Goto, TypeOK, Evidence
  <2>6. Chosen' /\ Adopted'
    BY <1>3 DEF LoadCapabilities, Goto, TypeOK, Chosen, Adopted, Runs, Allowed
  <2> QED BY <2>4, <2>5, <2>6
<1>4. ASSUME NEW t \in Threads, StoreCapabilities(t) PROVE IndInv'
  <2>1. capCache' = encode(detect(machine)) /\ pc[t] = "store"
    BY <1>4 DEF StoreCapabilities, Goto, Evidence
  <2>2. TypeOK'
    BY <1>4, <1>m, DetectType DEF StoreCapabilities, Goto, TypeOK, encode
  <2>3. Evidence'
    BY <1>4, <2>1 DEF StoreCapabilities, Goto, TypeOK, Evidence
  <2>4. Chosen' /\ Adopted'
    BY <1>4 DEF StoreCapabilities, Goto, TypeOK, Chosen, Adopted, Runs, Allowed
  <2> QED BY <2>2, <2>3, <2>4
<1>5. ASSUME NEW t \in Threads, ReadCeiling(t) PROVE IndInv'
  <2> DEFINE x == select(machine.arch, detect(machine), ceilingFromEnvironment(machine.arch, env))
  <2>1. tier' = [tier EXCEPT ![t] = x] /\ pc' = [pc EXCEPT ![t] = "publish"]
    BY <1>5 DEF ReadCeiling, Goto, Evidence
  <2>2. x \in Tier /\ Runs(x) /\ Allowed(x)
    <3>1. env \in offered
      BY DEF Evidence
    <3> QED BY <1>m, <3>1, SelectSafe DEF Runs, Allowed
  <2>3. UNCHANGED <<machine, env, capCache, tierCache, cap, entered, offered>>
    BY <1>5 DEF ReadCeiling
  <2> HIDE DEF x
  <2>4. TypeOK'
    BY <2>1, <2>2, <2>3 DEF TypeOK
  <2>5. Evidence' /\ Adopted'
    BY <2>1, <2>3 DEF TypeOK, Evidence, Adopted
  <2>6. Chosen'
    BY <2>1, <2>2, <2>3 DEF TypeOK, Chosen, Runs, Allowed
  <2> QED BY <2>4, <2>5, <2>6
<1>6. ASSUME NEW t \in Threads, PublishTier(t) PROVE IndInv'
  <2>1. TypeOK'
    BY <1>6 DEF PublishTier, Goto, TypeOK
  <2>2. Evidence'
    BY <1>6 DEF PublishTier, Goto, TypeOK, Evidence
  <2>3. Chosen'
    BY <1>6 DEF PublishTier, Goto, TypeOK, Chosen, Runs, Allowed
  <2>4. Adopted'
    BY <1>6, <1>m DEF PublishTier, Goto, TypeOK, Adopted
  <2> QED BY <2>1, <2>2, <2>3, <2>4
<1>7. ASSUME NEW t \in Threads, CallEntry(t) PROVE IndInv'
  BY <1>7 DEF CallEntry, Goto, TypeOK, Evidence, Chosen, Adopted, Runs, Allowed
<1>8. CASE UNCHANGED vars
  BY <1>8 DEF vars, TypeOK, Evidence, Chosen, Adopted, Runs, Allowed
<1> QED BY <1>1, <1>2, <1>3, <1>4, <1>5, <1>6, <1>7, <1>8 DEF Next

THEOREM Invariance == Spec => []IndInv
  BY InitInv, StepInv, PTL DEF Spec

\* Every variable of the selector stays in range.
THEOREM TypeCorrect == Spec => []TypeOK
  BY Invariance, PTL DEF IndInv

\* No thread ever enters a kernel object another thread, or an earlier call,
\* did not choose.
THEOREM OneObjectOnly == Spec => []OneObject
<1>1. IndInv => OneObject
  BY DEF IndInv, Adopted, OneObject
<1> QED BY <1>1, Invariance, PTL

\* An entered object contains no instruction the host cannot execute.
THEOREM ObjectsRun == Spec => []ObjectRuns
<1>1. IndInv => ObjectRuns
  BY DEF IndInv, Adopted, Chosen, Runs, ObjectRuns
<1> QED BY <1>1, Invariance, PTL

\* ZYNUM_MAX_ISA only ever removes tiers.
THEOREM CeilingAlwaysKept == Spec => []CeilingKept
<1>1. IndInv => CeilingKept
  BY DEF IndInv, Adopted, Chosen, Allowed, CeilingKept
<1> QED BY <1>1, Invariance, PTL
=============================================================================
