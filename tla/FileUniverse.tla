---------------------------- MODULE FileUniverse ----------------------------
(***************************************************************************)
(* The callers of SnapshotSession: _make_public_file_universe of           *)
(* tools/check_build_inventory.py and package_files of                     *)
(* tools/check_package_paths.py. With a Git worktree they interleave the   *)
(* session with RepositoryGit.snapshot_file_set, which asks Git twice for  *)
(* deleted and listed files. No Git command is atomic with a capture.      *)
(***************************************************************************)
EXTENDS TreeSnapshot

CONSTANTS Modes,      \* "git", "archive": the universe; "package", "tarball": a package
          Tracked,    \* paths in the Git index
          Cached,     \* paths whose bytes the universe keeps
          Selected    \* the directories a package consists of

CallerAssumption ==
    /\ Modes \subseteq {"git", "archive", "package", "tarball"}
    /\ Tracked \subseteq Paths /\ Cached \subseteq Paths /\ Selected \subseteq Paths

VARIABLES mode, step,
          asked,      \* the answers of the snapshot_file_set in progress
          files       \* the first RepositoryFileSet

callerVars == <<mode, step, asked, files>>
vars == <<sessionVars, callerVars>>

TypeOK ==
    /\ entries \in [Directories -> [Names -> Inodes \cup {None}]]
    /\ stamp \in [Inodes -> 0 .. MaxMoves] /\ clock \in 0 .. MaxMoves
    /\ \A p \in DOMAIN nodes : /\ p \in Paths /\ nodes[p].ino \in Inodes
                               /\ nodes[p].stamp \in 0 .. MaxMoves /\ nodes[p].kind = Kind[nodes[p].ino]
    /\ \A d \in DOMAIN dirs : d \in Paths \cup {Top} /\ dirs[d].ino \in Directories
    /\ absences \subseteq Paths \X Paths
    /\ status \in {"capturing", "verifying", "sealed", "reopening", "failed"}
    /\ reads \in 0 .. MaxReads
    /\ step \in {"before", "capture", "bytes", "seal", "after", "verify", "final",
                 "accepted", "rejected"}
    /\ Len(asked) \in 0 .. 4

\* Whether the tree is a Git worktree.
UsesGit == mode \in {"git", "package"}

Init ==
    /\ SessionInit
    /\ mode \in Modes
    /\ step = IF UsesGit THEN "before" ELSE "capture"
    /\ asked = << >> /\ files = None

-----------------------------------------------------------------------------
(* snapshot_file_set. *)

Exists(es, p) == Lookup(es, p) \in Leaves
InScope(p)    == mode = "git" \/ \E n \in 0 .. Len(p) : SubSeq(p, 1, n) \in Selected

deleted_files(es) == { p \in Tracked : InScope(p) /\ ~Exists(es, p) }
ls_files(es)      == { p \in Paths : InScope(p) /\ (p \in Tracked \/ Exists(es, p)) }

AskGit ==
    /\ UsesGit /\ step \in {"before", "after", "final"} /\ todo = << >> /\ Len(asked) < 4
    /\ asked' = Append(asked, IF Len(asked) \in {0, 2} THEN deleted_files(entries)
                                                       ELSE ls_files(entries))
    /\ UNCHANGED <<sessionVars, mode, step, files>>

Stable(a) == a[1] = a[3] /\ a[2] = a[4]
FileSet(a) == [listed |-> a[2], deleted |-> a[1], present |-> a[2] \ a[1]]

Calls(tasks) == todo' = tasks /\ UNCHANGED <<fs, facts, snap, status, why, pc, reg, reads, atSeal>>
NodeTask(p, bytes) == [do |-> "node", path |-> p, bytes |-> bytes, walk |-> FALSE]
NodeTasks(ps, bytes) == InSomeOrder({ NodeTask(p, bytes) : p \in ps })
AbsentTasks(ps) == InSomeOrder({ [do |-> "absent", path |-> p] : p \in ps })
ListTask(d) == [do |-> "list", path |-> d, bytes |-> FALSE, walk |-> TRUE]
Walk(ps) == InSomeOrder({ [NodeTask(p, FALSE) EXCEPT !.walk = TRUE] : p \in ps })

\* The worktree is only looked at, and only once, if Git answered twice alike.
FirstAnswer ==
    /\ step = "before" /\ Len(asked) = 4
    /\ asked' = << >>
    /\ IF Stable(asked)
         THEN LET set == FileSet(asked)
              IN /\ files' = set /\ step' = "seal"
                 /\ Calls(IF mode = "git"
                            THEN << StructureTask >> \o NodeTasks(set.present \ Cached, FALSE)
                                 \o NodeTasks(set.present \cap Cached, TRUE)
                                 \o AbsentTasks(set.deleted)
                            ELSE NodeTasks(Selected, FALSE) \o AbsentTasks(set.deleted)
                                 \o NodeTasks(set.present, FALSE))
         ELSE step' = "rejected" /\ UNCHANGED <<sessionVars, files>>
    /\ UNCHANGED mode

CaptureWithoutGit ==
    /\ step = "capture"
    /\ step' = IF mode = "archive" THEN "bytes" ELSE "seal"
    /\ Calls(IF mode = "archive"
               THEN << StructureTask, ListTask(Top), [do |-> "drop", path |-> Top] >>
               ELSE Walk(Selected))
    /\ UNCHANGED <<mode, asked, files>>

Working == status = "capturing" /\ todo = << >>

CaptureBytes ==
    /\ step = "bytes" /\ Working
    /\ step' = "seal"
    /\ Calls(NodeTasks({ p \in DOMAIN nodes : nodes[p].kind # "directory" } \cap Cached, TRUE))
    /\ UNCHANGED <<mode, asked, files>>

SealTree ==
    /\ step = "seal" /\ Seal
    /\ step' = IF UsesGit THEN "after" ELSE "final"
    /\ UNCHANGED <<mode, asked, files>>

Agrees(ok) == ok

\* Without Git the sealed tree is the result; with it, Git must answer as before.
LaterAnswer ==
    /\ status = "sealed" /\ todo = << >>
    /\ \/ /\ step = "final" /\ ~UsesGit
          /\ step' = "accepted" /\ UNCHANGED <<sessionVars, asked>>
       \/ /\ step \in {"after", "final"} /\ Len(asked) = 4
          /\ asked' = << >>
          /\ IF Agrees(Stable(asked) /\ FileSet(asked) = files)
               THEN IF step = "after" /\ mode = "git"
                      THEN step' = "final" /\ VerifyAgain
                      ELSE step' = "accepted" /\ UNCHANGED sessionVars
               ELSE step' = "rejected" /\ UNCHANGED sessionVars
    /\ UNCHANGED <<mode, files>>

Reject ==
    /\ status = "failed" /\ step \notin {"accepted", "rejected"}
    /\ step' = "rejected"
    /\ UNCHANGED <<sessionVars, mode, asked, files>>

ReadMember == mode \in {"package", "tarball"} /\ step = "accepted" /\ Reopen /\ UNCHANGED callerVars

Next ==
    \/ AskGit \/ FirstAnswer \/ CaptureWithoutGit \/ CaptureBytes \/ SealTree \/ LaterAnswer
    \/ Reject \/ ReadMember
    \/ Observe /\ UNCHANGED callerVars
    \/ EndVerify /\ UNCHANGED callerVars
    \/ Others /\ UNCHANGED callerVars

Spec == Init /\ [][Next]_vars

-----------------------------------------------------------------------------
(* Properties. *)

NodeFiles(s) == { p \in DOMAIN s.nodes : s.nodes[p].kind # "directory" }

\* seal: all files and links of a sealed snapshot had the frozen content and name
\* at one moment, the call of `seal`, although each was read at a moment of its own.
ContentsCoexist ==
    status = "sealed" => \A p \in NodeFiles(snap) :
        LET node == snap.nodes[p]
        IN /\ atSeal.data[node.ino] = node.digest
           /\ atSeal.entries[node.up][Leaf(p)] = node.ino

\* The repository fixed point of _make_public_file_universe: an accepted universe
\* is the worktree at one moment: members, deletions, and the set Git lists.
AcceptedIsOneMoment ==
    mode = "git" /\ step = "accepted" =>
        LET es == atSeal.entries
        IN /\ \A p \in files.present : /\ Lookup(es, p) = snap.nodes[p].ino
                                       /\ atSeal.data[Lookup(es, p)] = snap.nodes[p].digest
           /\ \A p \in files.deleted : Lookup(es, p) = None
           /\ files.listed = ls_files(es) /\ files.deleted = deleted_files(es)

\* A walk is complete: every child of a listed directory is a member of the snapshot,
\* and there is no other member below it.
WalkIsComplete ==
    mode \in {"archive", "tarball"} /\ step = "accepted" =>
        \A d \in DOMAIN snap.dirs : snap.dirs[d].children # None =>
            { Leaf(p) : p \in { q \in DOMAIN snap.nodes : Up(q) = d } } = snap.dirs[d].children
=============================================================================
