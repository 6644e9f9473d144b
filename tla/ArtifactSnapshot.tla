--------------------------- MODULE ArtifactSnapshot ---------------------------
(***************************************************************************)
(* ArtifactSnapshotSet of bench/tools/benchmark_artifacts.py: one public   *)
(* file is read once, chunk by chunk, into a private copy per role; the    *)
(* copies are verified when they are registered, at every use and before   *)
(* the controller finishes, and are removed by claim when the set closes   *)
(* or its construction fails.  Every system call may fail.  Between two    *)
(* steps others may write the public file, lead its path elsewhere (a link *)
(* retargeted, or a directory exchanged and exchanged back), reach into    *)
(* the private root, move it, or move the arena that holds it.             *)
(*                                                                         *)
(* A content is a sequence of chunk versions.  A fingerprint taken earlier *)
(* is kept as what changed since: every write moves the change time of its *)
(* inode, and retargeting a link makes a new link.                         *)
(***************************************************************************)
EXTENDS Naturals, Sequences, FiniteSets, ClaimOutcome

CONSTANTS Roles,        \* "binary" and "library" in the code
          MaxChunks,    \* what the byte limits allow, in chunks
          MaxUses,      \* bound on execution_path, metadata_record and finalize calls
          MaxOutside    \* bound on the moves of others

ArtifactAssumption ==
    IsFiniteSet(Roles) /\ Roles # {} /\ {MaxChunks, MaxUses, MaxOutside} \subseteq Nat

VARIABLES
    source,        \* content of the file the path led to at the start
    leads,         \* the public path leads to that file
    since,         \* fingerprints that no longer hold: "source", "link", "copy"
    root, rooted,  \* the private root exists; its path still names it
    arena,         \* the arena's path still names the held arena
    name,          \* role -> what its leaf names: "ours", "other" or None
    copy,          \* role -> content of the private inode
    vault,         \* what quarantines keep: <<role, what>>
    fds,           \* descriptors that may be open: <<use, role>>
    pc, role,      \* the step, and the role it is at
    todo,          \* roles still to finish, to verify or to remove
    size, got,     \* st_size, and the chunks read so far
    sha,           \* the recorded digest
    copies, pending, uncertain,   \* _copies, _pending_copies, _uncertain_private_leaves
    target,        \* role -> content its _CleanupTarget expects, or NoTarget
    permitted,     \* root_teardown_permitted
    issues, named, lost,    \* issues exist; what they name; _cleanup_unaddressable
    status,        \* cleanup_status
    raised,        \* the construction failed
    used,          \* what the last use was told: "none", "ok" or "refused"
    opened,        \* history: the source when it was opened,
    led,           \*   the path led to the file after all was read,
    placed,        \*   roles whose leaf holds a file of others
    uses, outside

sources == <<source, leads, since>>
inside  == <<root, rooted, arena, name, copy, vault>>
reading == <<size, got>>
records == <<sha, copies, pending, target>>
faults  == <<fds, uncertain, raised>>
ends    == <<permitted, issues, named, lost, status>>
history == <<opened, placed, outside>>
vars    == <<sources, inside, pc, role, todo, reading, records, faults, ends, used, uses,
             history, led>>

Foreign  == MaxOutside + 1        \* the version of a chunk others wrote into a copy
NoTarget == <<Foreign + 1>>   \* no content has that version
Writers  == { f \in fds : f[1] \in {"owner", "writer"} }

IsContent(s) == s \in Seq(0 .. Foreign)

TypeOK ==
    /\ IsContent(source) /\ IsContent(got) /\ IsContent(sha) /\ IsContent(opened)
    /\ {leads, root, rooted, arena, permitted, issues, lost, raised, led} \subseteq BOOLEAN
    /\ since \subseteq {"source", "link", "copy"}
    /\ name \in [Roles -> {"ours", "other", None}]
    /\ \A r \in Roles : IsContent(copy[r]) /\ (target[r] = NoTarget \/ IsContent(target[r]))
    /\ vault \subseteq Roles \X {"ours", "edited", "other"}
    /\ fds \subseteq {"owner", "sealed", "writer", "reader"} \X Roles
    /\ pc \in {"root", "open", "make", "read", "extra", "stat", "path", "finish", "look",
               "leaf", "verify", "compare", "register", "ready", "bind", "target", "close",
               "claim", "teardown", "anchor", "closed"}
    /\ role \in Roles \cup {None}
    /\ \A S \in {todo, copies, pending, uncertain, placed} : S \subseteq Roles
    /\ size \in 0 .. MaxChunks
    /\ named \subseteq {"root"} \cup Roles
    /\ status \in {"open", "complete", "recovery_required", "unaddressable"}
    /\ used \in {"none", "ok", "refused"}
    /\ uses \in 0 .. MaxUses /\ outside \in 0 .. MaxOutside

Init ==
    /\ \E n \in 1 .. MaxChunks + 1 : source = [i \in 1 .. n |-> 0]
    /\ leads = TRUE /\ since = {}
    /\ root = FALSE /\ rooted = FALSE /\ arena = TRUE /\ vault = {}
    /\ name = [r \in Roles |-> None] /\ copy = [r \in Roles |-> <<>>]
    /\ fds = {} /\ pc = "root" /\ role = None /\ todo = {} /\ size = 0 /\ got = <<>>
    /\ sha = <<>> /\ copies = {} /\ pending = {} /\ uncertain = {}
    /\ target = [r \in Roles |-> NoTarget]
    /\ permitted = FALSE /\ issues = FALSE /\ named = {} /\ lost = FALSE
    /\ status = "open" /\ raised = FALSE /\ used = "none"
    /\ opened = source /\ led = FALSE /\ placed = {} /\ uses = 0 /\ outside = 0

Go(next) == pc' = next /\ UNCHANGED faults

-----------------------------------------------------------------------------
(* Capture. *)

\* Whatever goes wrong in the construction, the writers and a reader that is not
\* registered are closed, each once, and the set cleans up after itself.
CaptureFails ==
    /\ pc' = "bind" /\ raised' = TRUE
    /\ LET ours == { f \in fds : f[1] = "writer" \/ (f[1] = "reader" /\ f[2] \notin copies) }
       IN  \E bad \in SUBSET ours :
             /\ fds' = (fds \ ours) \cup bad
             /\ uncertain' = uncertain \cup { f[2] : f \in bad }

\* A directory of mode 0700 inside an arena of the parent.  An uncertain close of
\* the arena refuses the root that was made; a failed creation may leave it behind,
\* named by an issue unless the arena is lost.
CreatePrivateRoot ==
    /\ pc = "root"
    /\ \/ /\ root' = TRUE /\ rooted' = TRUE
          /\ Go("open") /\ UNCHANGED <<issues, named, lost>>
       \/ /\ root' = TRUE /\ rooted' = TRUE
          /\ issues' = TRUE /\ lost' \in BOOLEAN
          /\ pc' = "bind" /\ raised' = TRUE /\ UNCHANGED <<named, fds, uncertain>>
       \/ /\ root' \in BOOLEAN /\ rooted' = root'
          /\ issues' \in {TRUE, root'} /\ lost' \in {FALSE, issues'}
          /\ named' = IF root' /\ ~lost' THEN {"root"} ELSE {}
          /\ pc' = "anchor" /\ raised' = TRUE /\ UNCHANGED <<fds, uncertain>>
    /\ UNCHANGED <<sources, arena, name, copy, vault, role, todo, reading, records,
                   permitted, status, used, uses, history>>

\* The limits and the mode are checked on the descriptor the walk ends at.
SourceIsFit == leads /\ Len(source) <= MaxChunks

\* The path is walked by descriptors, re-anchored at every link it follows.
OpenSource ==
    /\ pc = "open"
    /\ \/ /\ SourceIsFit
          /\ size' = Len(source) /\ got' = <<>> /\ since' = since \ {"source", "link"}
          /\ opened' = source /\ Go("make")
       \/ CaptureFails /\ UNCHANGED <<reading, since, opened>>
    /\ UNCHANGED <<source, leads, inside, role, todo, records, ends, used, uses, placed,
                   outside>>

\* One leaf per role, created exclusively.  The owner is on record before anything
\* else can fail, and the writer is a duplicate of it.
CreateOutputDescriptors ==
    /\ pc = "make"
    /\ \E made \in SUBSET Roles :
         /\ \A r \in made : name[r] = None
         /\ name' = [r \in Roles |-> IF r \in made THEN "ours" ELSE name[r]]
         /\ pending' = made
         /\ \/ /\ made = Roles
               /\ fds' = {"owner", "writer"} \X Roles
               /\ pc' = "read" /\ UNCHANGED <<uncertain, raised>>
            \/ \E bad \in SUBSET made :
                 /\ fds' = ({"owner"} \X made) \cup ({"writer"} \X bad)
                 /\ uncertain' = bad /\ pc' = "bind" /\ raised' = TRUE
    /\ UNCHANGED <<sources, root, rooted, arena, copy, vault, role, todo, reading, sha, copies,
                   target, ends, used, uses, history>>

Written(some, chunk) ==
    [r \in Roles |-> IF r \in some THEN Append(copy[r], chunk) ELSE copy[r]]

\* The same chunk goes to the digest and to every output; the source may end early
\* and a write may fail after some outputs have it.
ReadChunk ==
    /\ pc = "read"
    /\ \/ /\ Len(got) < size /\ Len(got) < Len(source)
          /\ got' = Append(got, source[Len(got) + 1])
          /\ copy' = Written(Roles, source[Len(got) + 1]) /\ Go("read")
       \/ Len(got) = size /\ Go("extra") /\ UNCHANGED <<got, copy>>
       \/ /\ \E some \in SUBSET Roles :
                copy' = IF Len(got) < Len(source)
                          THEN Written(some, source[Len(got) + 1]) ELSE copy
          /\ CaptureFails /\ UNCHANGED got
    /\ UNCHANGED <<sources, root, rooted, arena, name, vault, role, todo, size, records, ends,
                   used, uses, history>>

CheckGrowth ==
    /\ pc = "extra"
    /\ \/ Len(source) <= size /\ Go("stat")
       \/ CaptureFails
    /\ UNCHANGED <<sources, inside, role, todo, reading, records, ends, used, uses, history>>

\* The fingerprint of the descriptor is the one taken when it was opened.
CheckDrift ==
    /\ pc = "stat"
    /\ \/ "source" \notin since /\ Go("path")
       \/ CaptureFails
    /\ UNCHANGED <<sources, inside, role, todo, reading, records, ends, used, uses, history>>

\* A second walk meets the same links, directories and leaf.
CheckPath ==
    /\ pc = "path"
    /\ \/ leads /\ "link" \notin since
          /\ sha' = got /\ todo' = Roles /\ Go("finish")
       \/ CaptureFails /\ UNCHANGED <<sha, todo>>
    /\ UNCHANGED <<sources, inside, role, reading, copies, pending, target, ends, used, uses,
                   history>>

\* fchmod, fsync and the one close of the writer; the leaf is opened again, read-only,
\* and must be the inode that was written.
FinishOutput ==
    /\ pc = "finish"
    /\ \E r \in todo :
         /\ role' = r /\ todo' = todo \ {r}
         /\ \/ /\ name[r] = "ours"
               /\ fds' = (fds \ {<<"writer", r>>}) \cup {<<"reader", r>>}
               /\ pc' = "look" /\ UNCHANGED <<uncertain, raised>>
            \/ CaptureFails
    /\ UNCHANGED <<sources, inside, reading, records, ends, used, uses, history>>

\* The verified copy is registered, then dup2 puts its read-only descriptor over the
\* owner that could still write.
RegisterCopy ==
    /\ pc = "register"
    /\ copies' = copies \cup {role}
    /\ \/ /\ fds' = (fds \ {<<"owner", role>>}) \cup {<<"sealed", role>>}
          /\ pc' = (IF todo = {} THEN "ready" ELSE "finish") /\ UNCHANGED <<uncertain, raised>>
       \/ /\ pc' = "bind" /\ raised' = TRUE
          /\ \E bad \in SUBSET { f \in fds : f[1] = "writer" } :
               /\ fds' = { f \in fds : f[1] # "writer" } \cup bad
               /\ uncertain' = uncertain \cup { f[2] : f \in bad }
    /\ UNCHANGED <<sources, inside, role, todo, reading, sha, pending, target, ends, used, uses,
                   history>>

-----------------------------------------------------------------------------
(* Verification of one copy, when it is finished and at every use. *)

InUse == role \in copies

\* A use is refused, the set stays open; a construction fails.  The descriptor of
\* the verification may close uncertainly on the way.
VerificationFails ==
    IF InUse
      THEN /\ pc' = "ready" /\ used' = "refused" /\ todo' = {}
           /\ uncertain' \in {uncertain, uncertain \cup {role}}
           /\ UNCHANGED <<fds, raised>>
      ELSE CaptureFails /\ UNCHANGED <<used, todo>>

VerifyRoot ==
    /\ pc = "look"
    /\ \/ rooted /\ arena /\ Go("leaf") /\ UNCHANGED <<used, todo>>
       \/ VerificationFails
    /\ UNCHANGED <<sources, inside, role, reading, records, ends, uses, history>>

\* The name, the held descriptor and the new one are the recorded inode, with the
\* recorded size and mode.
OpenCopy ==
    /\ pc = "leaf"
    /\ \/ /\ name[role] = "ours" /\ Len(copy[role]) = Len(sha)
          /\ got' = <<>> /\ since' = since \ {"copy"}
          /\ Go("verify") /\ UNCHANGED <<used, todo>>
       \/ VerificationFails /\ UNCHANGED <<got, since>>
    /\ UNCHANGED <<source, leads, inside, role, size, records, ends, uses, history>>

VerifyChunk ==
    /\ pc = "verify"
    /\ \/ /\ Len(got) < Len(sha)
          /\ got' = Append(got, copy[role][Len(got) + 1]) /\ Go("verify")
          /\ UNCHANGED <<used, todo>>
       \/ Len(got) = Len(sha) /\ Go("compare") /\ UNCHANGED <<got, used, todo>>
       \/ VerificationFails /\ UNCHANGED got
    /\ UNCHANGED <<sources, inside, role, size, records, ends, uses, history>>

bugTornReadAccepted == got = sha
CopyIsFrozen == "copy" \notin since /\ got = sha

\* Verified: a finished copy is registered, a use goes on with the next copy or ends.
CompareCopy ==
    /\ pc = "compare"
    /\ \/ /\ CopyIsFrozen
          /\ IF InUse
               THEN IF todo = {}
                      THEN used' = "ok" /\ Go("ready") /\ UNCHANGED <<role, todo>>
                      ELSE \E r \in todo : /\ role' = r /\ todo' = todo \ {r}
                                           /\ Go("look") /\ UNCHANGED used
               ELSE Go("register") /\ UNCHANGED <<role, todo, used>>
       \/ VerificationFails /\ UNCHANGED role
    /\ UNCHANGED <<sources, inside, reading, records, ends, uses, history>>

\* execution_path and metadata_record of one artifact, or finalize of all.
Use ==
    /\ pc = "ready" /\ uses < MaxUses
    /\ uses' = uses + 1 /\ used' = "none"
    /\ \E asked \in { {r} : r \in copies } \cup {copies}, r \in copies :
         r \in asked /\ role' = r /\ todo' = asked \ {r}
    /\ Go("look")
    /\ UNCHANGED <<sources, inside, reading, records, ends, history>>

-----------------------------------------------------------------------------
(* Cleanup, on close and after a failed construction. *)

Close == /\ pc = "ready"
         /\ Go("bind")
         /\ UNCHANGED <<sources, inside, role, todo, reading, records, ends, used, uses, history>>

\* Paths of an arena whose path names something else are not reported.
CheckBinding ==
    /\ pc = "bind"
    /\ lost' \in {TRUE, lost \/ ~arena}
    /\ issues' = (issues \/ lost' \/ uncertain # {})
    /\ named' = IF lost' THEN named ELSE named \cup uncertain
    /\ Go("target")
    /\ size' = 0 /\ got' = <<>> /\ since' = {} /\ role' = None   \* locals are gone
    /\ opened' = <<>>
    /\ UNCHANGED <<source, leads, inside, todo, records, permitted, status, used, uses,
                   placed, outside>>

\* A registered copy is expected as recorded, an unfinished one as its descriptor
\* shows it; one that cannot be inspected is not removed.
ChooseTargets ==
    /\ pc = "target"
    /\ \E seen \in SUBSET (pending \ copies) :
         /\ target' = [r \in Roles |-> IF r \in copies THEN sha
                                       ELSE IF r \in seen THEN copy[r] ELSE NoTarget]
         /\ issues' = (issues \/ seen # pending \ copies)
    /\ Go("close")
    /\ UNCHANGED <<sources, inside, role, todo, reading, sha, copies, pending, permitted, named,
                   lost, status, used, uses, history>>

Targets == { r \in Roles : target[r] # NoTarget }

\* Every held descriptor is closed once; a leaf whose descriptor may still be open is
\* not removed, and then neither is the root.
CloseDescriptors ==
    /\ pc = "close"
    /\ \E bad \in SUBSET { f \in fds : f[1] \in {"owner", "sealed"} \/ f[2] \in copies } :
         /\ fds' = { f \in fds : f[1] = "writer" \/ (f[1] = "reader" /\ f[2] \notin copies) }
                      \cup bad
         /\ uncertain' = uncertain \cup { f[2] : f \in bad }
         /\ issues' = (issues \/ bad # {})
         /\ named' = IF lost THEN named ELSE named \cup { f[2] : f \in bad }
    /\ todo' = (IF lost THEN {} ELSE Targets \ uncertain')
    /\ permitted' = (~lost /\ Targets \cap uncertain' = {})
    /\ pc' = (IF todo' = {} THEN "teardown" ELSE "claim")
    /\ UNCHANGED <<sources, inside, role, reading, records, raised, lost, status, used, uses,
                   history>>

\* What the claimed leaf turns out to be.
Seen(r) == IF name[r] = "ours" /\ copy[r] # target[r] THEN "edited" ELSE name[r]

bugUnlinkByName(r) ==
    { [name |-> None, kept |-> None, answer |-> IF name[r] = None THEN "absent" ELSE "removed",
       lost |-> FALSE] }
\* claim_and_remove with the recorded identity and content.
Claims(r) == { c \in Removal("ours", Seen(r)) : ~arena => c.lost \/ c.answer = "absent" }

Reported(r, c) ==
    /\ permitted' = (permitted /\ c.answer \in {"removed", "absent"})
    /\ issues' = (issues \/ c.answer \notin {"removed", "absent"})
    /\ named' = IF c.answer = "kept" /\ ~c.lost THEN named \cup {r} ELSE named

RemoveCopy ==
    /\ pc = "claim"
    /\ \E r \in todo : \E c \in Claims(r) :
         /\ name' = [name EXCEPT ![r] = IF Seen(r) = "edited" /\ c.name # None
                                          THEN name[r] ELSE c.name]
         /\ vault' = IF c.kept = None THEN vault ELSE vault \cup {<<r, c.kept>>}
         /\ lost' = (lost \/ c.lost) /\ Reported(r, c)
         /\ todo' = todo \ {r}
         /\ pc' = IF todo' = {} THEN "teardown" ELSE "claim"
    /\ UNCHANGED <<sources, root, rooted, arena, copy, role, reading, records, faults, status,
                   used, uses, history>>

\* finish_empty: rmdir of a root that is still the one created; or, when something
\* must stay, the root is kept and named.
TearDown ==
    /\ pc = "teardown"
    /\ lost' \in {TRUE, lost \/ ~arena}
    /\ \/ /\ permitted /\ rooted /\ arena /\ \A r \in Roles : name[r] = None
          /\ root' = FALSE
          /\ issues' \in {TRUE, issues \/ lost'}
          /\ UNCHANGED named
       \/ /\ issues' = TRUE
          /\ named' = IF lost' THEN named ELSE named \cup {"root"}
          /\ UNCHANGED root
    /\ Go("anchor")
    /\ UNCHANGED <<sources, rooted, arena, name, copy, vault, role, todo, reading, records,
                   permitted, status, used, uses, history>>

\* The parent's descriptor is closed; an unaddressable cleanup reports no path.
FinishCleanup ==
    /\ pc = "anchor"
    /\ issues' \in {issues, TRUE}
    /\ status' = IF lost THEN "unaddressable"
                 ELSE IF issues' THEN "recovery_required" ELSE "complete"
    /\ named' = IF lost THEN {} ELSE named
    /\ Go("closed")
    /\ UNCHANGED <<sources, inside, role, todo, reading, records, permitted, lost, used, uses,
                   history>>

-----------------------------------------------------------------------------
(* Others. *)

Move == /\ outside < MaxOutside /\ outside' = outside + 1
        /\ pc # "closed"
        /\ UNCHANGED <<pc, role, todo, reading, records, faults, ends, used, uses, opened>>

\* The public file is not looked at again once its digest is recorded.
SourceMatters == sha = <<>> /\ ~raised

OthersWriteSource ==
    /\ Move /\ SourceMatters /\ since' = since \cup {"source"}
    /\ \/ \E i \in DOMAIN source : source' = [source EXCEPT ![i] = @ + 1]
       \/ source' = Append(source, 0)
       \/ source # <<>> /\ source' = SubSeq(source, 1, Len(source) - 1)
    /\ UNCHANGED <<leads, inside, placed>>

OthersLeadElsewhere ==
    /\ Move /\ SourceMatters /\ leads' = ~leads
    /\ since' \in {since, since \cup {"link"}}
    /\ UNCHANGED <<source, inside, placed>>

OthersEditCopy ==
    /\ Move
    /\ \E r \in Roles : \E i \in DOMAIN copy[r] :
         /\ name[r] = "ours"
         /\ copy' = [copy EXCEPT ![r][i] = Foreign]
         /\ since' = IF r = role THEN since \cup {"copy"} ELSE since
    /\ UNCHANGED <<source, leads, root, rooted, arena, name, vault, placed>>

OthersReplaceLeaf ==
    /\ Move /\ root
    /\ \E r \in Roles :
         \/ name' = [name EXCEPT ![r] = "other"] /\ placed' = placed \cup {r}
         \/ name' = [name EXCEPT ![r] = None] /\ placed' = placed \ {r}
    /\ UNCHANGED <<sources, root, rooted, arena, copy, vault>>

OthersMoveDirectories ==
    /\ Move /\ root
    /\ \/ rooted' = ~rooted /\ UNCHANGED arena
       \/ arena' = ~arena /\ UNCHANGED rooted
    /\ UNCHANGED <<sources, root, name, copy, vault, placed>>

Capture == \/ CreatePrivateRoot \/ OpenSource \/ CreateOutputDescriptors \/ ReadChunk
           \/ CheckGrowth \/ CheckDrift \/ CheckPath \/ FinishOutput \/ RegisterCopy
Verify  == VerifyRoot \/ OpenCopy \/ VerifyChunk \/ CompareCopy
CleanUp == \/ CheckBinding \/ ChooseTargets \/ CloseDescriptors \/ RemoveCopy \/ TearDown
           \/ FinishCleanup
Others  == \/ OthersWriteSource \/ OthersLeadElsewhere \/ OthersEditCopy
           \/ OthersReplaceLeaf \/ OthersMoveDirectories

\* The path led to the opened file at a moment after its last byte was read.
Observe == led' = (led \/ (pc' \in {"extra", "stat", "path"} /\ leads' /\ "link" \notin since'))

Stop == pc = "closed" /\ UNCHANGED vars

Next == \/ (Capture \/ Verify \/ Use \/ Close \/ CleanUp \/ Others) /\ Observe
        \/ Stop

Spec == Init /\ [][Next]_vars

-----------------------------------------------------------------------------
(* Properties. *)

\* A usable set recorded one whole version of the public file: the bytes it had when it
\* was opened, reached by a path that still led there after they were read.
FrozenIsPublic == pc = "ready" => sha = opened /\ led

\* While the set is usable, no descriptor that can write a copy is left open; the
\* system would refuse to execute such a file, and a child could inherit it.
NothingCanWrite == pc = "ready" => Writers = {}

\* A use that is answered was given a copy whose bytes are the recorded ones at the
\* moment of the answer, however its name and content changed before.
UsesAreFrozen == used # "ok" /\ used' = "ok" => copy[role] = sha

\* A file others put under a name of the private root is never destroyed: it is still
\* there, or a quarantine keeps it.
OthersKept == \A r \in placed : name[r] = "other" \/ <<r, "other">> \in vault

\* "complete" means that nothing is left: no root, no quarantined file, no descriptor.
CompleteIsClean == status = "complete" => ~root /\ vault = {} /\ fds = {}

\* Whatever is left after an addressable cleanup is named by an issue, and an
\* unaddressable one names no path, since the path now leads elsewhere.
LeftIsNamed ==
    pc = "closed" =>
      IF status = "unaddressable"
        THEN named = {}
        ELSE (root => "root" \in named) /\ \A v \in vault : v[1] \in named

\* A leaf whose descriptor may still be open is never discarded.
UncertainStays ==
    \A r \in Roles : name[r] = "ours" /\ name'[r] = None /\ outside' = outside
                          => \A f \in fds : f[2] # r
=============================================================================
