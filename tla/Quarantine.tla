----------------------------- MODULE Quarantine -----------------------------
(***************************************************************************)
(* CleanupQuarantine and claim_and_remove of tools/repository_snapshot.py: *)
(* a file is removed by renaming it into a fresh private directory of a    *)
(* cleanup arena, verifying there that it is the caller's own file, and    *)
(* only then unlinking it.  Every system call may fail; between two calls  *)
(* others may change the public name or rename the arena away and back,    *)
(* and the process may die.                                                *)
(*                                                                         *)
(* An artifact is "ours" (the recorded identity and content) or "other".   *)
(* The quarantine directory is mode 0700 and held by descriptor, so others *)
(* do not reach into it, as the source's docstring assumes.                *)
(***************************************************************************)
EXTENDS Naturals, ClaimOutcome

CONSTANT MaxOutside   \* bound on the moves of others

OutsideAssumption == MaxOutside \in Nat

VARIABLES
    pub,           \* what the public name names
    claimed,       \* what <quarantine>/claimed names
    dir,           \* the quarantine directory exists
    arena,         \* the arena's path still names the held arena
    pc,            \* the next system call
    phase,         \* CleanupPhase; "UNSET" before create returns
    disposition,   \* CleanupDisposition, "none" until decided
    recovery,      \* recovery_paths: "claimed", "quarantine"
    candidate,     \* public_candidate; the path is listed unless "absent"
    unbound,       \* arena_binding of the outcome is not BOUND
    expectAbsent,  \* the caller's expect_public_absent, of finish
    unlinked,      \* history: the objects this cleanup unlinked
    took,          \* history: the object the claim renamed, if any
    outside        \* moves of others so far

vars == <<pub, claimed, dir, arena, pc, phase, disposition, recovery, candidate,
          unbound, expectAbsent, unlinked, took, outside>>

Objects == {"ours", "other"}
Paths   == {"claimed", "quarantine"}
Phases  == {"UNSET", "READY", "CLAIMED_UNSYNCED", "CLAIMED_DURABLE", "VERIFIED",
            "CLAIM_REMOVED", "CLOSED", "ABSENT", "REMOVED", "RETAINED", "UNADDRESSABLE"}
Dispositions == {"none", "absent", "removed", "retained", "unaddressable"}
Points  == {"open", "check", "mkdir", "setup", "claim", "rename", "missing", "sync",
            "verify", "inspect", "remove", "look", "unlink", "finish", "rmdir",
            "arenasync", "recheck", "final", "preclaim", "done", "dead"}

TypeOK == /\ pub \in Objects \cup {None}
          /\ claimed \in Objects \cup {None}
          /\ dir \in BOOLEAN /\ arena \in BOOLEAN
          /\ pc \in Points
          /\ phase \in Phases
          /\ disposition \in Dispositions
          /\ recovery \subseteq Paths
          /\ candidate \in {"absent", "present", "unknown"}
          /\ unbound \in BOOLEAN /\ expectAbsent \in BOOLEAN
          /\ unlinked \subseteq Objects
          /\ took \in Objects \cup {None}
          /\ outside \in 0 .. MaxOutside

Init == /\ pub = "ours" /\ claimed = None
        /\ dir = FALSE /\ arena = TRUE
        /\ pc = "open" /\ phase = "UNSET"
        /\ disposition = "none" /\ recovery = {}
        /\ candidate = "absent" /\ unbound = FALSE
        /\ expectAbsent \in BOOLEAN
        /\ unlinked = {} /\ took = None /\ outside = 0

-----------------------------------------------------------------------------
(* What a system call can answer. *)

\* binding(): BOUND only if the path names the held arena; any failure is not BOUND.
Binding(bound) == bound \in BOOLEAN /\ (bound => arena)

\* stat of the public name: an answer that is true, or none at all.
PublicState(state) ==
    \/ state = "unknown"
    \/ state = (IF pub = None THEN "absent" ELSE "present")

\* A candidate state once UNKNOWN is never improved.
Worse(state) == IF candidate = "unknown" THEN "unknown" ELSE state

files  == <<pub, claimed, dir, arena, unlinked, took>>
others == <<arena, expectAbsent, outside>>

-----------------------------------------------------------------------------
(* create *)

\* A failure before the claim: the outcome, and where to go with it.
Abandon(next, outcome, paths, lost) ==
    /\ pc' = next
    /\ disposition' = outcome /\ recovery' = paths /\ unbound' = lost
    /\ UNCHANGED <<pub, claimed, arena, phase, candidate, expectAbsent, unlinked, took, outside>>

Proceed(next) ==
    /\ pc' = next
    /\ UNCHANGED <<files, phase, disposition, recovery, candidate, unbound,
                   expectAbsent, outside>>

OpenArena ==
    /\ pc = "open"
    /\ \/ Abandon("preclaim", "unaddressable", {}, TRUE) /\ UNCHANGED dir
       \/ arena /\ Proceed("check")

CheckArena ==
    /\ pc = "check"
    /\ \/ Abandon("final", "retained", {}, FALSE) /\ UNCHANGED dir
       \/ \E bound \in BOOLEAN :
            /\ Binding(bound)
            /\ IF bound THEN Proceed("mkdir")
                        ELSE Abandon("final", "unaddressable", {}, TRUE) /\ UNCHANGED dir

MakeDirectory ==
    /\ pc = "mkdir"
    /\ \/ Abandon("final", "retained", {}, FALSE) /\ UNCHANGED dir
       \/ /\ dir' = TRUE /\ pc' = "setup"
          /\ UNCHANGED <<pub, claimed, unlinked, took, others, phase, disposition, recovery,
                         candidate, unbound>>

\* Credentials, fsync of the arena, and a last binding check with its own teardown.
SetUp ==
    /\ pc = "setup"
    /\ \/ Abandon("final", "retained", {"quarantine"}, FALSE) /\ UNCHANGED dir
       \/ Abandon("final", "unaddressable", {}, TRUE) /\ dir' \in BOOLEAN
       \/ /\ arena
          /\ phase' = "READY" /\ pc' = "claim"
          /\ UNCHANGED <<files, disposition, recovery, candidate, unbound,
                         expectAbsent, outside>>

-----------------------------------------------------------------------------
(* claim, verify_claimed, remove_verified_claim *)

Settle(newPhase, next, paths, state, lost) ==
    /\ phase' = newPhase /\ pc' = next
    /\ recovery' = recovery \cup paths
    /\ candidate' = state /\ unbound' = (unbound \/ lost)
    /\ UNCHANGED <<dir, others, disposition>>

Claim ==
    /\ pc = "claim"
    /\ \E bound \in BOOLEAN :
         /\ Binding(bound)
         /\ \/ bound /\ Proceed("rename")
            \/ /\ ~bound
               /\ \E state \in {"absent", "present", "unknown"} :
                    PublicState(state) /\ Settle("UNADDRESSABLE", "finish", {}, state, TRUE)
               /\ UNCHANGED <<pub, claimed, unlinked, took>>

RetainPreclaim ==
    \E bound \in BOOLEAN, state \in {"absent", "present", "unknown"} :
        /\ Binding(bound) /\ PublicState(state)
        /\ Settle(IF bound THEN "RETAINED" ELSE "UNADDRESSABLE", "finish",
                  IF bound THEN {"quarantine"} ELSE {}, state, ~bound)
        /\ UNCHANGED <<pub, claimed, unlinked, took>>

Rename ==
    /\ pc = "rename"
    /\ \/ RetainPreclaim
       \/ pub = None /\ Proceed("missing")
       \/ /\ pub # None
          /\ claimed' = pub /\ took' = pub /\ pub' = None
          /\ Settle("CLAIMED_UNSYNCED", "sync", {}, candidate, FALSE)
          /\ UNCHANGED unlinked

\* rename found no such name: the absence must be confirmed.
Missing ==
    /\ pc = "missing"
    /\ \/ RetainPreclaim
       \/ /\ pub = None
          /\ Settle("ABSENT", "finish", {}, candidate, FALSE)
          /\ UNCHANGED <<pub, claimed, unlinked, took>>

SyncClaim ==
    /\ pc = "sync"
    /\ \E bound, synced \in BOOLEAN :
         /\ Binding(bound)
         /\ CASE ~bound            -> Settle("UNADDRESSABLE", "finish", {}, candidate, TRUE)
              [] bound /\ ~synced  -> Settle("RETAINED", "finish", Paths, candidate, FALSE)
              [] bound /\ synced   -> Settle("CLAIMED_DURABLE", "verify", {}, candidate, FALSE)
    /\ UNCHANGED <<pub, claimed, unlinked, took>>

VerifyPublicAbsent ==
    /\ pc = "verify"
    /\ \E state \in {"absent", "present", "unknown"} :
         /\ PublicState(state)
         /\ IF state = "absent"
              THEN Proceed("inspect")
              ELSE /\ Settle("RETAINED", "finish", {"claimed"}, Worse(state), FALSE)
                   /\ UNCHANGED <<pub, claimed, unlinked, took>>

\* What the verifier can answer of the claimed object.
Verdicts == {IF claimed = "ours" THEN "MATCH" ELSE "FOREIGN", "UNKNOWN"}

VerifyClaimed ==
    /\ pc = "inspect"
    /\ \E verdict \in Verdicts, closed \in BOOLEAN :
         IF verdict = "MATCH" /\ closed
           THEN Settle("VERIFIED", "remove", {}, candidate, FALSE)
           ELSE Settle("RETAINED", "finish", Paths, candidate, FALSE)
    /\ UNCHANGED <<pub, claimed, unlinked, took>>

RemoveVerified ==
    /\ pc = "remove"
    /\ \E bound \in BOOLEAN :
         /\ Binding(bound)
         /\ IF bound THEN Proceed("look")
                     ELSE /\ Settle("UNADDRESSABLE", "finish", {}, candidate, TRUE)
                          /\ UNCHANGED <<pub, claimed, unlinked, took>>

\* A caller of the class, not claim_and_remove, may stop after the verification.
Forgo == pc = "remove" /\ Proceed("finish")

\* remove_verified_claim has an expect_public_absent of its own.  claim_and_remove leaves
\* it TRUE whatever finish is told, and no caller has it FALSE with finish's TRUE.
LookBeforeUnlink ==
    /\ pc = "look"
    /\ \/ \E state \in {"absent", "present", "unknown"} :
            /\ PublicState(state)
            /\ CASE state = "absent"  -> Proceed("unlink")
                 [] state = "present" -> /\ Settle("RETAINED", "finish", {"claimed"},
                                                   Worse(state), FALSE)
                                         /\ UNCHANGED <<pub, claimed, unlinked, took>>
                 [] state = "unknown" -> /\ Settle("RETAINED", "finish", Paths, candidate, FALSE)
                                         /\ UNCHANGED <<pub, claimed, unlinked, took>>
       \/ ~expectAbsent /\ Proceed("unlink")

\* The unlink, and the stat that must not find the name any more.
UnlinkClaimed ==
    /\ pc = "unlink"
    /\ \/ /\ claimed' = None /\ unlinked' = unlinked \cup {claimed}
          /\ \/ Settle("CLAIM_REMOVED", "finish", {}, candidate, FALSE)
             \/ Settle("RETAINED", "finish", Paths, candidate, FALSE)
       \/ /\ Settle("RETAINED", "finish", Paths, candidate, FALSE)
          /\ UNCHANGED <<claimed, unlinked>>
    /\ UNCHANGED <<pub, took>>

-----------------------------------------------------------------------------
(* finish and finalize_arena_outcome *)

End(newPhase, next, outcome, paths, lost) ==
    /\ phase' = newPhase /\ pc' = next /\ disposition' = outcome
    /\ recovery' = recovery \cup paths /\ unbound' = (unbound \/ lost)

\* Names that begin with bug are defects a change could introduce; the checks
\* put them in place of the definition that follows.
bugAlwaysRemoved == "removed"
\* What a clean end will be called (terminal_disposition).
terminal == IF phase = "ABSENT" THEN "absent" ELSE "removed"

Finish ==
    /\ pc = "finish"
    /\ \E synced, closed \in BOOLEAN :
         LET teardown == phase \in {"ABSENT", "CLAIM_REMOVED"} /\ synced
             known    == phase \in {"ABSENT", "CLAIM_REMOVED", "RETAINED"}
             failed   == ~closed \/ (phase # "RETAINED" /\ ~teardown) \/ ~known
         IN CASE phase = "UNADDRESSABLE" ->
                   End("UNADDRESSABLE", "final", "unaddressable", {}, FALSE)
              [] phase # "UNADDRESSABLE" /\ failed ->
                   End("RETAINED", "final", "retained", {"quarantine"}, FALSE)
              [] phase = "RETAINED" /\ ~failed ->
                   End("RETAINED", "final", "retained", {}, FALSE)
              [] teardown /\ ~failed ->
                   End("CLOSED", "rmdir", terminal, {}, FALSE)
    /\ UNCHANGED <<files, candidate, expectAbsent, outside>>

\* Binding, credential check and rmdir; rmdir removes an empty directory only.
RemoveDirectory ==
    /\ pc = "rmdir"
    /\ \E bound \in BOOLEAN :
         /\ Binding(bound)
         /\ \/ ~bound /\ End("UNADDRESSABLE", "final", "unaddressable", {}, TRUE) /\ UNCHANGED dir
            \/ /\ bound /\ dir' \in BOOLEAN
               /\ End("RETAINED", "final", "retained", {"quarantine"}, FALSE)
            \/ /\ bound /\ claimed = None /\ dir' = FALSE
               /\ End(phase, "arenasync", disposition, {}, FALSE)
    /\ UNCHANGED <<pub, claimed, unlinked, took, others, candidate>>

bugDispositionAsPhase == disposition
EndPhase == IF disposition = "absent" THEN "ABSENT" ELSE "REMOVED"

SyncArena ==
    /\ pc = "arenasync"
    /\ \/ End("RETAINED", "final", "retained", {}, FALSE)
       \/ expectAbsent /\ End(phase, "recheck", disposition, {}, FALSE)
       \/ ~expectAbsent /\ End(EndPhase, "final", disposition, {}, FALSE)
    /\ UNCHANGED <<files, candidate, expectAbsent, outside>>

RecheckPublic ==
    /\ pc = "recheck"
    /\ \E state \in {"absent", "present", "unknown"} :
         /\ PublicState(state)
         /\ candidate' = state
         /\ IF state = "absent" THEN End(EndPhase, "final", disposition, {}, FALSE)
                                ELSE End("RETAINED", "final", "retained", {}, FALSE)
    /\ UNCHANGED <<files, expectAbsent, outside>>

\* The arena descriptor is closed and the paths are handed out only if it is still bound.
Finalize ==
    /\ pc = "final"
    /\ \E bound, closed \in BOOLEAN :
         /\ Binding(bound)
         /\ LET lost == disposition = "unaddressable" \/ unbound \/ ~bound
            IN /\ disposition' = CASE lost               -> "unaddressable"
                                   [] ~lost /\ ~closed   -> "retained"
                                   [] ~lost /\ closed    -> disposition
               /\ recovery' = IF lost THEN {} ELSE recovery
               /\ unbound' = (unbound \/ ~bound)
               /\ phase' = CASE phase = "UNSET"          -> phase
                             [] phase # "UNSET" /\ lost  -> "UNADDRESSABLE"
                             [] phase # "UNSET" /\ ~lost /\ disposition' = "retained" -> "RETAINED"
                             [] OTHER                    -> phase
    /\ pc' = IF phase = "UNSET" THEN "preclaim" ELSE "done"
    /\ UNCHANGED <<files, candidate, expectAbsent, outside>>

\* A failed create still reports whether the public name is there.
ReportPreclaim ==
    /\ pc = "preclaim"
    /\ \E state \in {"absent", "present", "unknown"} :
         PublicState(state) /\ candidate' = state
    /\ pc' = "done"
    /\ UNCHANGED <<files, phase, disposition, recovery, unbound, expectAbsent, outside>>

-----------------------------------------------------------------------------
(* The rest of the world. *)

Running == pc \notin {"done", "dead"}

OthersWrite ==
    /\ Running /\ outside < MaxOutside
    /\ pub' \in {"other", None} \ {pub}
    /\ outside' = outside + 1
    /\ UNCHANGED <<claimed, dir, arena, pc, phase, disposition, recovery, candidate,
                   unbound, expectAbsent, unlinked, took>>

OthersRenameArena ==
    /\ Running /\ outside < MaxOutside
    /\ arena' = ~arena
    /\ outside' = outside + 1
    /\ UNCHANGED <<pub, claimed, dir, pc, phase, disposition, recovery, candidate,
                   unbound, expectAbsent, unlinked, took>>

Die == /\ Running /\ pc' = "dead"
       /\ UNCHANGED <<files, phase, disposition, recovery, candidate, unbound,
                      expectAbsent, outside>>

Step == \/ OpenArena \/ CheckArena \/ MakeDirectory \/ SetUp
        \/ Claim \/ Rename \/ Missing \/ SyncClaim
        \/ VerifyPublicAbsent \/ VerifyClaimed
        \/ RemoveVerified \/ Forgo \/ LookBeforeUnlink \/ UnlinkClaimed
        \/ Finish \/ RemoveDirectory \/ SyncArena \/ RecheckPublic
        \/ Finalize \/ ReportPreclaim

Next == Step \/ OthersWrite \/ OthersRenameArena \/ Die

Spec == Init /\ [][Next]_vars

-----------------------------------------------------------------------------
(* Properties. *)

\* An object that is not the caller's is never unlinked, whatever was swapped in
\* under the public name before the rename (claim, verify_claimed).
ForeignKept == unlinked \subseteq {"ours"}

\* When a path is still addressable at the end, nothing stays behind in the
\* quarantine without a recovery path in the outcome (finish).
NothingStranded ==
    pc = "done" /\ disposition # "unaddressable" /\ (dir \/ claimed # None)
        => recovery # {}

\* Recovery paths leave finalize_arena_outcome only while they name the held
\* arena, and never with an UNADDRESSABLE outcome.
PathsAddressable ==
    pc = "final" /\ pc' # "final" /\ recovery' # {}
        => pc' = "dead" \/ (arena /\ disposition' = "retained")

\* A cleanup that did not happen is never reported as done: an intruder that was
\* seen under the public name rules out ABSENT and REMOVED.
SeenIsReported ==
    pc = "done" /\ candidate # "absent" => disposition \in {"retained", "unaddressable"}

\* What the callers' models take for one removal (ClaimOutcome) covers every way
\* this one can end.
OutcomeIsKnown ==
    pc = "done" =>
        \E x \in Objects \cup {None} : \E r \in Removal("ours", x) :
            /\ took # None => x = took
            /\ r.kept = claimed
            /\ r.lost = (disposition = "unaddressable")
            /\ r.answer = CASE phase = "UNSET"                        -> "unclaimed"
                             [] disposition \in {"removed", "absent"} -> disposition
                             [] OTHER                                 -> "kept"

Promise == INSTANCE Cleanup WITH
             Own <- "ours", held <- claimed, gone <- ("ours" \in unlinked),
             report <- IF pc = "done" THEN disposition ELSE "none"

\* The quarantine implements the abstract removal by claim.
Refines == Promise!Spec
=============================================================================
