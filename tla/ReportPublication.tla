------------------------- MODULE ReportPublication -------------------------
(***************************************************************************)
(* publish_outputs of bench/tools/report_publication.py: a generation of   *)
(* report files is staged beside its destinations, existing files are      *)
(* backed up, the stages are renamed into place one after the other, and a *)
(* failure before the transaction-complete boundary rolls everything back. *)
(* Others may write the destinations or the sidecars between any two       *)
(* steps, every step may fail, and the process may die.                    *)
(*                                                                         *)
(* A name holds: "old" (what was there), "new" (the staged report), "copy" *)
(* (the complete backup), "part" (an incomplete one), "other" or None.     *)
(* One removal by claim is one step with the outcomes of ClaimOutcome.     *)
(***************************************************************************)
EXTENDS Naturals, FiniteSets, ClaimOutcome

CONSTANTS Files,        \* 1 .. n, in publication order
          InNewDir,     \* the files below a directory this call creates
          Sidecars,     \* whether others also touch stages and backups
          MaxOutside    \* bound on the moves of others

FilesAssumption ==
    /\ Cardinality(Files) \in Nat \ {0} /\ Files = 1 .. Cardinality(Files)
    /\ InNewDir \subseteq Files
    /\ Sidecars \in BOOLEAN /\ MaxOutside \in Nat

VARIABLES
    dest, stage, backup,   \* what the three names of each file hold
    vault,                 \* what quarantines keep: <<slot, content>> per file
    newDir,                \* the created directory: "none", "public", "kept", "gone"
    item,                  \* _PreparedOutput of each file
    pc, cur,               \* the step and the file it is at
    complete,              \* transaction_complete
    cause,                 \* the exception that ended the forward path
    issue, lost,           \* rollback or cleanup issues; an unaddressable arena
    named,                 \* backups whose path an issue text names
    listed,                \* <<file, slot>> put into recovery paths on the way
    result, paths,         \* how publish_outputs ended, and its recovery_paths
    before,                \* history: the destinations at the start,
    touched, meddled,      \*   destinations and sidecars changed by others
    outside                \* moves of others so far

names   == <<dest, stage, backup>>
control == <<pc, cur, complete, cause, issue, lost, named, listed, result, paths>>
history == <<before, touched, meddled, outside>>
vars    == <<names, vault, newDir, item, control, history>>

Slots    == {"dest", "stage", "backup"}
Directory == <<0, "directory">>     \* the path of the created directory's quarantine
Contents == {"old", "new", "copy", "part", "other"}
Last     == Cardinality(Files)

TypeOK ==
    /\ dest \in [Files -> Contents \cup {None}]
    /\ stage \in [Files -> Contents \cup {None}]
    /\ backup \in [Files -> Contents \cup {None}]
    /\ vault \in [Files -> SUBSET (Slots \X Contents)]
    /\ newDir \in {"none", "public", "kept", "gone"}
    /\ item \in [Files -> [original  : BOOLEAN,
                           stage     : {"none", "stray", "open", "ready", "uncertain"},
                           backup    : {"none", "stray", "partial", "private", "verified"},
                           committed : {"no", "yes", "unknown"}]]
    /\ pc \in {"preflight", "observe", "stage", "backup", "parents", "precommit", "commit",
               "synced", "published", "boundary", "verify", "clean", "cleansync", "audit",
               "rollback", "claimed", "restore", "restored", "directory", "report", "end"}
    /\ cur \in 1 .. Last
    /\ complete \in BOOLEAN /\ issue \in BOOLEAN /\ lost \in BOOLEAN
    /\ cause \in {"none", "plain", "indeterminate"}
    /\ named \subseteq Files
    /\ listed \subseteq Files \X Slots /\ paths \subseteq (Files \X Slots) \cup {Directory}
    /\ result \in {"none", "ok", "cleanup", "raised", "indeterminate", "dead"}
    /\ before \in [Files -> {"old", None}]
    /\ touched \subseteq Files /\ meddled \subseteq Files
    /\ outside \in 0 .. MaxOutside

Fresh == [original |-> FALSE, stage |-> "none", backup |-> "none", committed |-> "no"]

Init ==
    /\ before \in { d \in [Files -> {"old", None}] : \A i \in InNewDir : d[i] = None }
    /\ dest = before
    /\ stage = [i \in Files |-> None] /\ backup = [i \in Files |-> None]
    /\ vault = [i \in Files |-> {}]
    /\ newDir = IF InNewDir = {} THEN "none" ELSE "public"
    /\ item = [i \in Files |-> Fresh]
    /\ pc = "preflight" /\ cur = 1
    /\ complete = FALSE /\ cause = "none"
    /\ issue = FALSE /\ lost = FALSE /\ named = {} /\ listed = {}
    /\ result = "none" /\ paths = {}
    /\ touched = {} /\ meddled = {} /\ outside = 0

-----------------------------------------------------------------------------
(* The forward path. *)

\* The next file of a loop, or the next loop.
Advance(here, next) ==
    /\ IF cur < Last THEN pc' = here /\ cur' = cur + 1
                     ELSE pc' = next /\ cur' = 1
    /\ UNCHANGED <<complete, cause, issue, lost, named, listed, result, paths>>

\* An exception before the boundary: rollback, last file first.
Fail(kind) ==
    /\ pc' = "rollback" /\ cur' = Last /\ cause' = kind
    /\ UNCHANGED <<complete, issue, lost, named, listed, result, paths>>

Go(next) == /\ pc' = next /\ cur' = 1
            /\ UNCHANGED <<complete, cause, issue, lost, named, listed, result, paths>>

Still == UNCHANGED <<names, vault, newDir, history>>

\* The collision probe; its own cleanup may become indeterminate.
Preflight ==
    /\ pc = "preflight"
    /\ \/ Go("observe")
       \/ \E kind \in {"plain", "indeterminate"} : Fail(kind)
    /\ Still /\ UNCHANGED item

Observe ==
    /\ pc = "observe"
    /\ \/ /\ item' = [item EXCEPT ![cur].original = dest[cur] # None]
          /\ Advance("observe", "stage")
       \/ Fail("plain") /\ UNCHANGED item
    /\ Still

\* Nothing made, a stray file, an unfinished stage, an uncertain close, or a ready stage.
\* A stray one (_open_unique, line 797) was created, but its identity could not be frozen: the
\* exception names it as a candidate, and the item knows nothing of it.
PrepareStage ==
    /\ pc = "stage"
    /\ \E state \in {"none", "stray", "open", "uncertain", "ready"} :
         /\ item' = [item EXCEPT ![cur].stage = state]
         /\ stage' = [stage EXCEPT ![cur] = IF state = "none" THEN None ELSE "new"]
         /\ CASE state = "ready"                   -> Advance("stage", "backup")
              [] state \in {"stray", "uncertain"}  -> Fail("indeterminate")
              [] state \in {"none", "open"}        -> Fail("plain")
    /\ UNCHANGED <<dest, backup, vault, newDir, history>>

\* A stray backup, as a stray stage; an uncertain close of the backup keeps it and lists
\* its path.
PrepareBackup ==
    /\ pc = "backup"
    /\ \/ /\ ~item[cur].original
          /\ Advance("backup", "parents")
          /\ Still /\ UNCHANGED item
       \/ /\ item[cur].original
          /\ Fail("plain")
          /\ Still /\ UNCHANGED item
       \/ /\ item[cur].original /\ dest[cur] = "old"
          /\ \E state \in {"stray", "partial", "private", "verified"}, closed \in BOOLEAN :
               /\ item' = [item EXCEPT ![cur].backup =
                             IF ~closed /\ state = "private" THEN "partial" ELSE state]
               /\ backup' = [backup EXCEPT ![cur] =
                               IF state \in {"stray", "partial"} THEN "part" ELSE "copy"]
               /\ \/ state = "stray" /\ Fail("indeterminate")
                  \/ /\ state # "stray" /\ ~closed
                     /\ pc' = "rollback" /\ cur' = Last /\ cause' = "indeterminate"
                     /\ listed' = listed \cup {<<cur, "backup">>}
                     /\ UNCHANGED <<complete, issue, lost, named, result, paths>>
                  \/ closed /\ state = "verified" /\ Advance("backup", "parents")
                  \/ closed /\ state \in {"partial", "private"} /\ Fail("plain")
          /\ UNCHANGED <<dest, stage, vault, newDir, history>>

VerifyParents ==
    /\ pc \in {"parents", "synced"}
    /\ \/ Go(IF pc = "parents" THEN "precommit" ELSE "published")
       \/ Fail("plain")
    /\ Still /\ UNCHANGED item

precommitHolds(i) ==
    /\ stage[i] = "new"
    /\ dest[i] = IF item[i].original THEN "old" ELSE None
    /\ item[i].original => backup[i] = "copy"

VerifyPrecommit ==
    /\ pc = "precommit"
    /\ \/ precommitHolds(cur) /\ Advance("precommit", "commit")
       \/ Fail("plain")
    /\ Still /\ UNCHANGED item

\* Whether a name is seen to hold the stage: "no" also when it cannot be inspected.
SeenAs(content) == {content = "new", FALSE}

\* os.replace: it happens, or it raises, and then it may have happened all the
\* same; the two names are looked at to find out.
bugRaisedMeansUndone ==
    /\ pc = "commit"
    /\ \E happens, raises \in BOOLEAN :
         /\ happens \/ raises
         /\ happens => stage[cur] # None
         /\ IF happens
              THEN /\ dest' = [dest EXCEPT ![cur] = stage[cur]]
                   /\ stage' = [stage EXCEPT ![cur] = None]
              ELSE UNCHANGED <<dest, stage>>
         /\ item' = [item EXCEPT ![cur].committed = IF raises THEN "no" ELSE "yes"]
         /\ IF raises THEN Fail("plain") ELSE Advance("commit", "synced")
    /\ UNCHANGED <<backup, vault, newDir, history>>
ReplaceName ==
    /\ pc = "commit"
    /\ \E happens, raises \in BOOLEAN :
         /\ happens \/ raises
         /\ happens => stage[cur] # None
         /\ IF happens
              THEN /\ dest' = [dest EXCEPT ![cur] = stage[cur]]
                   /\ stage' = [stage EXCEPT ![cur] = None]
              ELSE UNCHANGED <<dest, stage>>
         /\ \E renamed \in SeenAs(dest'[cur]), staged \in SeenAs(stage'[cur]) :
              LET found == IF renamed THEN "yes" ELSE IF staged THEN "no" ELSE "unknown"
              IN item' = [item EXCEPT ![cur].committed = IF raises THEN found ELSE "yes"]
         /\ IF raises THEN Fail("plain") ELSE Advance("commit", "synced")
    /\ UNCHANGED <<backup, vault, newDir, history>>

publishedHolds(i) == dest[i] = "new" /\ (item[i].original => backup[i] = "copy")

\* Two rounds over all files; the second one ends at the boundary.
bugBoundaryNotRecorded ==
    /\ pc \in {"published", "boundary"}
    /\ \/ /\ publishedHolds(cur)
          /\ IF pc = "published" THEN Advance("published", "boundary")
                                 ELSE Advance("boundary", "verify")
       \/ Fail("plain")
    /\ Still /\ UNCHANGED item
VerifyPublished ==
    /\ pc \in {"published", "boundary"}
    /\ \/ /\ publishedHolds(cur) /\ pc = "published"
          /\ Advance("published", "boundary")
       \/ /\ publishedHolds(cur) /\ pc = "boundary"
          /\ IF cur < Last
               THEN Advance("boundary", "verify")
               ELSE /\ pc' = "verify" /\ cur' = 1 /\ complete' = TRUE
                    /\ UNCHANGED <<cause, issue, lost, named, listed, result, paths>>
       \/ Fail("plain")
    /\ Still /\ UNCHANGED item

-----------------------------------------------------------------------------
(* After the boundary: the backups go, and nothing is ever rolled back. *)

HasBackup(i) == item[i].backup = "verified"

CompletePlain == UNCHANGED <<complete, cause, named, listed, result, paths>>

bugRollsBackLate ==
    /\ pc = "verify"
    /\ \/ /\ HasBackup(cur) => backup[cur] = "copy"
          /\ Advance("verify", "clean")
       \/ /\ \E i \in Files : HasBackup(i)
          /\ Fail("plain")
    /\ Still /\ UNCHANGED item
VerifyBackups ==
    /\ pc = "verify"
    /\ \/ /\ HasBackup(cur) => backup[cur] = "copy"
          /\ Advance("verify", "clean")
       \/ /\ \E i \in Files : HasBackup(i)
          /\ pc' = "audit" /\ issue' = TRUE /\ UNCHANGED <<cur, lost>> /\ CompletePlain
    /\ Still /\ UNCHANGED item

Keep(i, slot, r) ==
    vault' = IF r.kept = None THEN vault ELSE [vault EXCEPT ![i] = @ \cup {<<slot, r.kept>>}]

Unfinished(r) == r.answer \in {"unclaimed", "kept"}

CleanBackup ==
    /\ pc = "clean"
    /\ \/ /\ ~HasBackup(cur)
          /\ Advance("clean", "cleansync") /\ Still
       \/ /\ HasBackup(cur)
          /\ \E r \in Removal("copy", backup[cur]), verified \in BOOLEAN :
               /\ backup' = [backup EXCEPT ![cur] = r.name]
               /\ Keep(cur, "backup", r)
               /\ issue' = (issue \/ Unfinished(r) \/ ~verified)
               /\ lost' = (lost \/ r.lost)
          /\ IF cur < Last THEN pc' = "clean" /\ cur' = cur + 1
                           ELSE pc' = "cleansync" /\ cur' = 1
          /\ CompletePlain
          /\ UNCHANGED <<dest, stage, newDir, history>>
    /\ UNCHANGED item

CleanSync ==
    /\ pc = "cleansync"
    /\ \/ /\ ~issue
          /\ pc' = "end" /\ result' = "ok"
          /\ UNCHANGED <<cur, complete, cause, issue, lost, named, listed, paths>>
       \/ /\ pc' = "audit" /\ issue' = TRUE /\ UNCHANGED <<cur, lost>>
          /\ issue \/ \E i \in Files : HasBackup(i)
          /\ CompletePlain
    /\ Still /\ UNCHANGED item

Vaulted == { v \in Files \X Slots : \E c \in Contents : <<v[2], c>> \in vault[v[1]] }

\* Every backup is looked for once more; what cannot be seen is only a candidate.
AuditBackups ==
    /\ pc = "audit"
    /\ \E seen \in SUBSET { i \in Files : HasBackup(i) /\ backup[i] = "copy" },
          unbound \in BOOLEAN :
         /\ lost' = (lost \/ unbound)
         /\ paths' = IF lost' THEN {} ELSE Vaulted \cup (seen \X {"backup"})
    /\ pc' = "end" /\ result' = "cleanup"
    /\ UNCHANGED <<cur, complete, cause, issue, named, listed>>
    /\ Still /\ UNCHANGED item

-----------------------------------------------------------------------------
(* Rollback, last file first. *)

Down == IF cur > 1 THEN pc' = "rollback" /\ cur' = cur - 1
                   ELSE pc' = "directory" /\ cur' = 1

Quiet == UNCHANGED <<complete, cause, result, paths>>

SkipUnstaged ==
    /\ pc = "rollback" /\ item[cur].stage \in {"none", "stray"}
    /\ Down /\ Quiet /\ UNCHANGED <<issue, lost, named, listed, item>> /\ Still

KeepUncertain ==
    /\ pc = "rollback" /\ item[cur].stage = "uncertain"
    /\ issue' = TRUE
    /\ Down /\ Quiet /\ UNCHANGED <<lost, named, listed, item>> /\ Still

RollbackStage ==
    /\ pc = "rollback" /\ item[cur].stage \in {"open", "ready"}
    /\ item[cur].committed # "yes"
    /\ \E r \in Removal("new", stage[cur]), synced \in BOOLEAN :
         /\ stage' = [stage EXCEPT ![cur] = r.name]
         /\ Keep(cur, "stage", r)
         /\ issue' = (issue \/ item[cur].committed = "unknown" \/ Unfinished(r) \/ ~synced)
         /\ lost' = (lost \/ r.lost)
         /\ IF r.answer = "kept" THEN Down ELSE pc' = "restore" /\ UNCHANGED cur
    /\ Quiet /\ UNCHANGED <<named, listed, item, dest, backup, newDir, history>>

\* The backup of a file that was not committed.
RollbackBackup ==
    /\ pc = "restore" /\ item[cur].committed # "yes"
    /\ \/ /\ item[cur].backup \in {"none", "stray"}
          /\ UNCHANGED <<issue, lost, named, listed>> /\ Still
       \/ /\ item[cur].backup = "verified"
          /\ issue' = TRUE /\ named' = named \cup {cur}
          /\ UNCHANGED <<lost, listed>> /\ Still
       \/ /\ item[cur].backup = "partial"
          /\ issue' = TRUE /\ named' = named \cup {cur}
          /\ listed' = listed \cup {<<cur, "backup">>}
          /\ UNCHANGED lost /\ Still
       \/ /\ item[cur].backup = "private"       \* also when the original cannot be seen
          /\ issue' = TRUE /\ named' = named \cup {cur}
          /\ UNCHANGED <<lost, listed>> /\ Still
       \/ /\ item[cur].backup = "private" /\ dest[cur] = "old"
          /\ \E r \in Removal("copy", backup[cur]), synced \in BOOLEAN :
               /\ backup' = [backup EXCEPT ![cur] = r.name]
               /\ Keep(cur, "backup", r)
               /\ issue' = (issue \/ Unfinished(r) \/ ~synced)
               /\ lost' = (lost \/ r.lost)
          /\ UNCHANGED <<named, listed, dest, stage, newDir, history>>
    /\ Down /\ Quiet /\ UNCHANGED item

\* The published file is claimed into a quarantine, whatever it is by now.
ClaimCommitted ==
    /\ pc = "rollback" /\ item[cur].committed = "yes"
    /\ \/ \E r \in Removal("nobody", dest[cur]) :
            /\ dest' = [dest EXCEPT ![cur] = r.name]
            /\ Keep(cur, "dest", r)
            /\ issue' = TRUE /\ lost' = (lost \/ r.lost)
            /\ Down
       \/ /\ dest[cur] # None
          /\ dest' = [dest EXCEPT ![cur] = None]
          /\ vault' = [vault EXCEPT ![cur] = @ \cup {<<"dest", dest[cur]>>}]
          /\ pc' = "claimed"
          /\ UNCHANGED <<cur, issue, lost>>
    /\ Quiet /\ UNCHANGED <<named, listed, item, stage, backup, newDir, history>>

VerifyCommitted ==
    /\ pc = "claimed"
    /\ \/ /\ dest[cur] = None /\ <<"dest", "new">> \in vault[cur]
          /\ pc' = "restore" /\ UNCHANGED <<cur, issue, lost>>
       \/ /\ issue' = TRUE /\ lost' \in {lost, TRUE} /\ Down
    /\ Quiet /\ UNCHANGED <<named, listed, item>> /\ Still

\* How the quarantine of the claimed report can end: removed, or kept with an issue.
FinishClaim(mayRemove, quietly) ==
    \/ /\ mayRemove /\ lost' = lost
       /\ vault' = [vault EXCEPT ![cur] = @ \ {<<"dest", "new">>}]
       /\ issue' = (issue \/ ~quietly)
    \/ /\ issue' = TRUE /\ lost' \in {lost, TRUE}
       /\ vault' \in {vault} \cup (IF mayRemove
                                     THEN {[vault EXCEPT ![cur] = @ \ {<<"dest", "new">>}]}
                                     ELSE {})

Uncommit == item' = [item EXCEPT ![cur].committed = "no"]

\* There was no file before: the claimed report is removed and nothing put back.
RemoveNew ==
    /\ pc = "restore" /\ item[cur].committed = "yes" /\ ~item[cur].original
    /\ \E synced \in BOOLEAN : FinishClaim(dest[cur] = None, synced)
    /\ item' \in {item, [item EXCEPT ![cur].committed = "no"]}
    /\ Down /\ Quiet /\ UNCHANGED <<named, listed, names, newDir, history>>

\* os.link of the backup: only where nothing is in the way.
bugRestoreOverwrites ==
    /\ pc = "restore" /\ item[cur].committed = "yes" /\ item[cur].original
    /\ \/ /\ backup[cur] = "copy"
          /\ dest' = [dest EXCEPT ![cur] = "copy"]
          /\ pc' = "restored"
          /\ UNCHANGED <<cur, issue, lost, named, vault>>
       \/ /\ FinishClaim(FALSE, FALSE)
          /\ Down /\ UNCHANGED <<dest, named>>
    /\ Quiet /\ UNCHANGED <<listed, item, stage, backup, newDir, history>>
RestoreOriginal ==
    /\ pc = "restore" /\ item[cur].committed = "yes" /\ item[cur].original
    /\ \/ /\ backup[cur] = "copy" /\ dest[cur] = None
          /\ dest' = [dest EXCEPT ![cur] = "copy"]
          /\ pc' = "restored"
          /\ UNCHANGED <<cur, issue, lost, named, vault>>
       \/ /\ backup[cur] = "copy" /\ dest[cur] # None
          /\ FinishClaim(FALSE, FALSE) /\ named' = named \cup {cur}
          /\ Down /\ UNCHANGED dest
       \/ /\ FinishClaim(FALSE, FALSE)
          /\ Down /\ UNCHANGED <<dest, named>>
    /\ Quiet /\ UNCHANGED <<listed, item, stage, backup, newDir, history>>

\* The restored name is verified around the removal; the backup always stays.
RetainBackup ==
    /\ pc = "restored"
    /\ \/ /\ dest[cur] = "copy"
          /\ FinishClaim(TRUE, FALSE)
          /\ named' = named \cup {cur} /\ Uncommit
       \/ /\ FinishClaim(dest[cur] = "copy", FALSE)
          /\ UNCHANGED <<named, item>>
    /\ Down /\ Quiet /\ UNCHANGED <<listed, names, newDir, history>>

DirectoryIsEmpty == \A i \in InNewDir : /\ dest[i] = None /\ stage[i] = None
                                        /\ backup[i] = None /\ vault[i] = {}

\* The created branch is claimed as a whole and removed only if it is empty.
RemoveNewDirectory ==
    /\ pc = "directory"
    /\ \/ newDir = "none" /\ UNCHANGED <<newDir, issue, lost>>
       \/ /\ newDir = "public" /\ newDir' \in {"public", "kept"}
          /\ issue' = TRUE /\ lost' \in {lost, TRUE}
       \/ /\ newDir = "public" /\ DirectoryIsEmpty
          /\ newDir' = "gone" /\ UNCHANGED <<issue, lost>>
    /\ pc' = "report"
    /\ Quiet /\ UNCHANGED <<cur, named, listed, item, names, vault, history>>

BelowKept(i) == newDir = "kept" /\ i \in InNewDir

Recorded == listed \cup Vaulted \cup ({ i \in Files : HasBackup(i) } \X {"backup"})
            \cup { d \in {Directory} : newDir = "kept" }

\* Paths that name nothing (any more): a claimed directory has taken along what was below
\* it, and a backup may have been moved or removed.
Stale == { v \in Files \X Slots :
             \/ BelowKept(v[1])
             \/ v[2] = "backup" /\ backup[v[1]] = None /\ v \notin Vaulted }

bugVaultUnlisted == listed
RecoveryPaths == Recorded \ Stale

\* Every path is looked at once more; one that cannot be inspected stays in the list.
Report ==
    /\ pc = "report"
    /\ pc' = "end"
    /\ IF issue
         THEN /\ result' = "indeterminate"
              /\ \E doubtful \in SUBSET (Recorded \cap Stale) :
                   paths' = IF lost THEN {} ELSE RecoveryPaths \cup doubtful
         ELSE /\ result' = IF cause = "indeterminate" THEN "indeterminate" ELSE "raised"
              /\ paths' = listed
    /\ UNCHANGED <<cur, complete, cause, issue, lost, named, listed>>
    /\ Still /\ UNCHANGED item

-----------------------------------------------------------------------------
(* The rest of the world. *)

Observed(i) == pc # "preflight" /\ (pc = "observe" => i < cur)

OthersWriteDestination ==
    /\ outside < MaxOutside /\ pc # "end"
    /\ \E i \in Files :
         /\ Observed(i)
         /\ \E c \in {"other", None} \ {dest[i]} : dest' = [dest EXCEPT ![i] = c]
         /\ touched' = touched \cup {i}
    /\ outside' = outside + 1
    /\ UNCHANGED <<stage, backup, vault, newDir, item, control, meddled, before>>

OthersTouchSidecars ==
    /\ Sidecars /\ outside < MaxOutside /\ pc # "end"
    /\ \E i \in Files :
         /\ meddled' = meddled \cup {i}
         /\ \/ /\ stage[i] # None
               /\ \E c \in {"other", None} \ {stage[i]} : stage' = [stage EXCEPT ![i] = c]
               /\ UNCHANGED backup
            \/ /\ backup[i] # None
               /\ \E c \in {"other", None} \ {backup[i]} : backup' = [backup EXCEPT ![i] = c]
               /\ UNCHANGED stage
    /\ outside' = outside + 1
    /\ UNCHANGED <<dest, vault, newDir, item, control, touched, before>>

\* A kill, or an exception that is not an Exception: no rollback runs.
Die == /\ pc # "end"
       /\ pc' = "end" /\ result' = "dead"
       /\ UNCHANGED <<cur, complete, cause, issue, lost, named, listed, paths>>
       /\ Still /\ UNCHANGED item

Forward  == \/ Preflight \/ Observe \/ PrepareStage \/ PrepareBackup \/ VerifyParents
            \/ VerifyPrecommit \/ ReplaceName \/ VerifyPublished
Cleaning == VerifyBackups \/ CleanBackup \/ CleanSync \/ AuditBackups
Rollback == \/ SkipUnstaged \/ KeepUncertain \/ RollbackStage \/ RollbackBackup
            \/ ClaimCommitted \/ VerifyCommitted \/ RemoveNew \/ RestoreOriginal
            \/ RetainBackup \/ RemoveNewDirectory \/ Report
Others   == OthersWriteDestination \/ OthersTouchSidecars

Next == Forward \/ Cleaning \/ Rollback \/ Others \/ Die

Spec == Init /\ [][Next]_vars

-----------------------------------------------------------------------------
(* Properties. *)

\* From the moment a backup is verified, the old bytes stay under the backup's name
\* in the destination's directory until the new generation is complete: through
\* every failure, through rollback, and when the process dies (_prepare_backup,
\* _rollback_item, _rollback_committed_item never remove a verified backup).
BackupOutlivesFailure ==
    \A i \in Files : HasBackup(i) /\ ~complete /\ i \notin meddled => backup[i] = "copy"

\* Before that, and for every file nobody else wrote, the destination still holds them.
OldBytesReachable ==
    \A i \in Files : item[i].original /\ ~complete /\ i \notin touched \cup meddled
        => dest[i] \in {"old", "copy"} \/ backup[i] = "copy"

Holds(i, s) == CASE s = "dest" -> dest[i] [] s = "stage" -> stage[i] [] s = "backup" -> backup[i]
Foreign(i)  == { f \in Slots \X {"name", "vault"} :
                   IF f[2] = "name" THEN Holds(i, f[1]) = "other"
                                    ELSE <<f[1], "other">> \in vault[i] }

\* Others' bytes are moved at most, never destroyed, by every step of the publisher
\* but os.replace: the one window the docstring leaves open.
OthersKept ==
    outside' = outside /\ pc # "commit"
        => \A i \in Files : Cardinality(Foreign(i)) <= Cardinality(Foreign(i)')

\* Successful return: every destination has the supplied bytes (unless someone else
\* wrote it) and no sidecar of this call remains.
SuccessIsClean ==
    result = "ok" => \A i \in Files :
        /\ dest[i] = "new" \/ i \in touched
        /\ stage[i] # "new" /\ backup[i] \notin {"copy", "part"} /\ vault[i] = {}

\* An exception that is not about recovery means that nothing is left behind and
\* nothing was changed.
PlainFailureIsClean ==
    result = "raised" =>
        /\ \A i \in Files :
             /\ i \in touched \/ dest[i] = before[i]
             /\ stage[i] # "new" /\ backup[i] \notin {"copy", "part"} /\ vault[i] = {}
        /\ newDir \in {"none", "gone"}

\* Past the boundary the new generation is never rolled back.
CompleteStays == complete /\ outside' = outside => dest' = dest

\* What a failed publication keeps is in its recovery paths as long as the arena is
\* addressable: quarantined bytes and verified backups alike, each by a path of its own or
\* by that of the claimed directory it lies in.
KeptIsListed ==
    result = "indeterminate" /\ ~lost =>
        /\ newDir = "kept" => Directory \in paths
        /\ \A v \in Vaulted : v \in paths \/ BelowKept(v[1])
        /\ \A i \in Files : HasBackup(i) /\ backup[i] = "copy"
                                => <<i, "backup">> \in paths \/ BelowKept(i)

\* The module docstring: "Any failed transaction that created a verified backup
\* intentionally retains it and reports its path".
BackupPathReported ==
    result = "indeterminate" =>
        \A i \in Files : HasBackup(i) /\ backup[i] = "copy"
                            => <<i, "backup">> \in paths \/ i \in named
=============================================================================
