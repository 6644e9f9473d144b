-------------------------- MODULE PackagePublication --------------------------
(***************************************************************************)
(* create_archive of tools/check_package_paths.py: the frozen members of a *)
(* committed checkout are read again one by one into a temporary archive   *)
(* beside the destination, the prior destination is kept as a hard link,   *)
(* the archive is renamed over it, and the source is verified five times   *)
(* on the way.  A failure after the rename claims the new archive back and *)
(* links the prior one in again.  Every step may fail; between two steps   *)
(* others may edit the source, write the three names, write the prior file *)
(* in place or replace the cleanup arena; the process may die.             *)
(*                                                                         *)
(* A name holds "old" (the prior file's inode), "new" (the archive's),     *)
(* "other" or None.  One removal by claim is one step (ClaimOutcome).      *)
(***************************************************************************)
EXTENDS Naturals, FiniteSets, ClaimOutcome

CONSTANTS Members,      \* 1 .. n, the frozen members in archive order
          Listing,      \* what is verified besides them: Git's file set and HEAD
          MaxOutside    \* bound on the moves of others

MembersAssumption ==
    /\ Cardinality(Members) \in Nat \ {0} /\ Members = 1 .. Cardinality(Members)
    /\ Listing \notin Members /\ MaxOutside \in Nat

VARIABLES
    dest, temp, backup,    \* what the three names hold
    intact,                \* nobody wrote the prior file in place
    vault,                 \* what quarantines keep: <<slot, content>>
    stale,                 \* what differs from the frozen snapshot by now
    arena, residue,        \* the arena is the one audited at entry; others use it
    pc, at,                \* the step, and the member it is at
    state,                 \* _PublicationState
    original, hasBackup,   \* original is not None; backup_name is not None
    failed,                \* transaction_error is not None
    named, lost,           \* the error names the backup, itself or as the context of
                           \*   the last one; an unaddressable arena
    result,                \* how create_archive ended
    before,                \* history: the destination at the start,
    staleAtCommit,         \*   stale when the archive was renamed,
    touched, meddled,      \*   others changed the destination, a sidecar
    outside                \* moves of others so far

names   == <<dest, temp, backup>>
disk    == <<names, vault, intact, stale, arena, residue>>
ends    == <<failed, named, lost, result>>
history == <<before, staleAtCommit, touched, meddled, outside>>
vars    == <<disk, pc, at, state, original, hasBackup, ends, history>>

Contents == {"old", "new", "other"}
Slots    == {"dest", "temp", "backup"}
States   == {"MATERIALIZING", "PREPARED", "COMMITTED", "PUBLISHED_SOURCE_VERIFIED",
             "TRANSACTION_COMPLETE"}
Committed == state \in {"COMMITTED", "PUBLISHED_SOURCE_VERIFIED"}
Complete  == state = "TRANSACTION_COMPLETE"

TypeOK ==
    /\ {dest, temp, backup} \subseteq Contents \cup {None}
    /\ vault \subseteq Slots \X Contents
    /\ stale \subseteq Members \cup {Listing} /\ staleAtCommit \subseteq Members \cup {Listing}
    /\ {intact, arena, residue, original, hasBackup, failed, named, lost, touched, meddled}
         \subseteq BOOLEAN
    /\ pc \in {"enumerated", "entry", "temporary", "observe", "member", "seal", "during",
               "link", "second", "before", "third", "replace", "after", "source", "boundary",
               "undo", "rollback", "claimed", "restore", "relink", "restored", "remove",
               "close", "directory", "cleanup", "exit", "end"}
    /\ at \in Members
    /\ state \in States
    /\ result \in {"none", "ok", "raised", "explained", "uninspected", "unclosed", "complete",
                   "dead"}
    /\ before \in {"old", None}
    /\ outside \in 0 .. MaxOutside

Init ==
    /\ before \in {"old", None} /\ dest = before
    /\ temp = None /\ backup = None /\ vault = {} /\ intact = TRUE
    /\ stale \in {{}, {Listing}} /\ staleAtCommit = {}
    /\ arena = TRUE /\ residue \in BOOLEAN
    /\ pc = "enumerated" /\ at = 1 /\ state = "MATERIALIZING"
    /\ original = FALSE /\ hasBackup = FALSE
    /\ failed = FALSE /\ named = FALSE /\ lost = FALSE /\ result = "none"
    /\ touched = FALSE /\ meddled = FALSE /\ outside = 0

-----------------------------------------------------------------------------
(* How a step ends. *)

Still == UNCHANGED <<disk, history>>

Go(next) == pc' = next /\ UNCHANGED <<at, ends>>

\* Before the temporary file exists, an exception leaves create_archive at once, or past
\* the close of the directory once that is open.
Refuse(next) == /\ pc' = next /\ result' = "raised" /\ failed' = TRUE
                /\ UNCHANGED <<at, named, lost>>

\* The handler: a descriptor whose close is uncertain stops everything where it is;
\* otherwise the temporary archive or the published one is taken back.
Fail ==
    \/ /\ pc' = IF Committed THEN "rollback" ELSE "undo"
       /\ failed' = TRUE
       /\ UNCHANGED <<at, named, lost, result>>
    \/ /\ pc' = "close" /\ failed' = TRUE
       /\ named' = hasBackup /\ result' = "explained"
       /\ UNCHANGED <<at, lost>>

\* A verification passes, or the handler runs.
Check(holds, next) == \/ holds /\ Go(next)
                      \/ Fail

SourceHolds == stale = {}

\* The names as recorded: the archive, and the prior file with its bytes.
OriginalHolds(name) == name = "old" /\ intact
destinationHolds == IF original THEN OriginalHolds(dest) ELSE dest = None

-----------------------------------------------------------------------------
(* Materializing. *)

VerifyEnumerated ==
    /\ pc = "enumerated"
    /\ \/ SourceHolds /\ Go("entry")
       \/ Refuse("end")
    /\ Still /\ UNCHANGED <<state, original, hasBackup>>

\* The parent is opened without following links and the arena must be empty.
AuditEntry ==
    /\ pc = "entry"
    /\ \/ ~residue /\ Go("temporary")
       \/ Refuse("end") \/ Refuse("directory")
    /\ Still /\ UNCHANGED <<state, original, hasBackup>>

\* A file whose identity or stream could not be had stays; the error names it.
CreateTemporary ==
    /\ pc = "temporary"
    /\ \/ temp' = "new" /\ Go("observe")
       \/ temp' = None  /\ Refuse("directory")
       \/ /\ temp' = "new"
          /\ pc' = "directory" /\ result' = "explained" /\ failed' = TRUE
          /\ UNCHANGED <<at, named, lost>>
    /\ UNCHANGED <<dest, backup, vault, intact, stale, arena, residue, state, original,
                   hasBackup, history>>

ObserveDestination ==
    /\ pc = "observe"
    /\ \/ original' = (dest # None) /\ Go("member")
       \/ original' \in {FALSE, dest # None} /\ Fail
    /\ Still /\ UNCHANGED <<state, hasBackup>>

\* Every byte is read, and the digest and the metadata are the frozen ones.
MemberIsFrozen == at \notin stale

\* One member is opened as the frozen node, copied and compared with its digest.
ReadMember ==
    /\ pc = "member"
    /\ \/ /\ MemberIsFrozen
          /\ pc' = IF at < Cardinality(Members) THEN "member" ELSE "seal"
          /\ at' = IF at < Cardinality(Members) THEN at + 1 ELSE 1
          /\ UNCHANGED ends
       \/ Fail
    /\ Still /\ UNCHANGED <<state, original, hasBackup>>

SealArchive ==
    /\ pc = "seal"
    /\ \/ state' = "PREPARED" /\ Go("during")
       \/ UNCHANGED state /\ Fail
    /\ Still /\ UNCHANGED <<original, hasBackup>>

-----------------------------------------------------------------------------
(* Preparing the replacement. *)

VerifyDuring ==
    /\ pc = "during"
    /\ Check(SourceHolds /\ temp = "new", "link")
    /\ Still /\ UNCHANGED <<state, original, hasBackup>>

\* os.link of whatever the destination is by now, then both names are verified.
LinkBackup ==
    /\ pc = "link"
    /\ \/ /\ ~original /\ dest = None /\ Go("second")
          /\ UNCHANGED <<backup, hasBackup>>
       \/ /\ original /\ dest # None
          /\ backup' = dest /\ hasBackup' = TRUE
          /\ \/ OriginalHolds(dest) /\ Go("second")
             \/ /\ pc' = "undo" /\ failed' = TRUE /\ UNCHANGED <<at, named, lost, result>>
             \/ /\ pc' = "close" /\ failed' = TRUE /\ named' = TRUE /\ result' = "explained"
                /\ UNCHANGED <<at, lost>>
       \/ Fail /\ UNCHANGED <<backup, hasBackup>>
    /\ UNCHANGED <<dest, temp, vault, intact, stale, arena, residue, history, state, original>>

namesHold == /\ temp = "new" /\ destinationHolds
             /\ original => OriginalHolds(backup)

VerifySecond ==
    /\ pc = "second"
    /\ Check(namesHold, "before")
    /\ Still /\ UNCHANGED <<state, original, hasBackup>>

VerifyBefore ==
    /\ pc = "before"
    /\ Check(SourceHolds, "third")
    /\ Still /\ UNCHANGED <<state, original, hasBackup>>

VerifyThird ==
    /\ pc = "third"
    /\ Check(namesHold, "replace")
    /\ Still /\ UNCHANGED <<state, original, hasBackup>>

\* Whether a name is seen to hold the archive: "no" also when it cannot be opened safely.
SeenAs(content) == {content = "new", FALSE}

\* After os.replace raised, the two names are looked at.  If neither is seen to hold the
\* archive, the error says that others changed them; if the look itself raises, its error
\* takes the place of the rename's, and an uncertain close stops everything.
LookAfterRaise ==
    /\ failed' = TRUE
    /\ \/ \E renamed \in SeenAs(dest'), staged \in SeenAs(temp') :
            /\ state' = IF renamed THEN "COMMITTED" ELSE state
            /\ pc' = IF renamed THEN "rollback" ELSE "undo"
            /\ IF renamed \/ staged THEN UNCHANGED <<named, result>>
                                    ELSE named' = hasBackup /\ result' = "explained"
       \/ pc' = "undo" /\ result' = "uninspected" /\ UNCHANGED <<state, named>>
       \/ pc' = "close" /\ result' = "explained" /\ named' = hasBackup /\ UNCHANGED state
    /\ UNCHANGED <<at, lost>>

\* os.replace: it happens, or it raises, and then it may have happened all the same.
ReplaceName ==
    /\ pc = "replace"
    /\ \E happens, raises \in BOOLEAN :
         /\ happens \/ raises
         /\ happens => temp # None
         /\ IF happens THEN dest' = temp /\ temp' = None ELSE UNCHANGED <<dest, temp>>
         /\ IF raises THEN LookAfterRaise ELSE state' = "COMMITTED" /\ Go("after")
    /\ staleAtCommit' = stale
    /\ UNCHANGED <<backup, vault, intact, stale, arena, residue, original, hasBackup, before,
                   touched, meddled, outside>>

VerifyPublished ==
    /\ pc = "after"
    /\ Check(dest = "new", "source")
    /\ Still /\ UNCHANGED <<state, original, hasBackup>>

\* The source once more after the rename, and once more at the success boundary.
VerifySource ==
    /\ pc \in {"source", "boundary"}
    /\ \/ /\ pc = "source" /\ SourceHolds
          /\ hasBackup => OriginalHolds(backup)
          /\ state' = "PUBLISHED_SOURCE_VERIFIED" /\ Go("boundary")
       \/ /\ pc = "boundary" /\ SourceHolds
          /\ state' = "TRANSACTION_COMPLETE" /\ Go("close")
       \/ Fail /\ UNCHANGED state
    /\ Still /\ UNCHANGED <<original, hasBackup>>

-----------------------------------------------------------------------------
(* After a failure. *)

Keep(slot, r) == vault' = IF r.kept = None THEN vault ELSE vault \cup {<<slot, r.kept>>}

Explain(backupNamed) == pc' = "close" /\ result' = "explained" /\ named' = backupNamed

\* Nothing was published: the temporary archive goes, the backup stays and is named.
RemoveTemporary ==
    /\ pc = "undo"
    /\ \E r \in Removal("new", temp) :
         /\ temp' = r.name /\ Keep("temp", r) /\ lost' = r.lost
         /\ IF r.answer \in {"removed", "absent"} /\ ~hasBackup
              THEN /\ pc' = "close" /\ UNCHANGED named
                   /\ result' = IF result = "none" THEN "raised" ELSE result
              ELSE Explain(hasBackup)
    /\ UNCHANGED <<dest, backup, intact, stale, arena, residue, at, state, original, hasBackup,
                   failed, history>>

\* Every end of the rollback is an exception; it names the backup unless the
\* quarantine it speaks of became unaddressable.
RollbackNames == hasBackup /\ ~lost'

RollbackEnds == pc' = "close" /\ result' = "explained" /\ named' = RollbackNames

\* The published name is claimed into a quarantine, whatever it is by now.
ClaimPublished ==
    /\ pc = "rollback"
    /\ \/ \E r \in Removal("nobody", dest) :
            /\ dest' = r.name /\ Keep("dest", r)
            /\ lost' = r.lost /\ RollbackEnds
       \/ /\ dest # None
          /\ dest' = None /\ vault' = vault \cup {<<"dest", dest>>}
          /\ pc' = "claimed" /\ UNCHANGED <<named, lost, result>>
    /\ UNCHANGED <<temp, backup, intact, stale, arena, residue, at, state, original, hasBackup,
                   failed, history>>

\* Any further failure leaves the claimed archive in its quarantine.
GiveUp == lost' \in BOOLEAN /\ RollbackEnds

Onward(next) == pc' = next /\ UNCHANGED <<named, lost, result>>

VerifyClaimed ==
    /\ pc = "claimed"
    /\ \/ dest = None /\ <<"dest", "new">> \in vault /\ Onward("restore")
       \/ GiveUp
    /\ Still /\ UNCHANGED <<at, state, original, hasBackup, failed>>

VerifyBackup ==
    /\ pc = "restore"
    /\ \/ ~original /\ dest = None /\ Onward("remove")
       \/ original /\ hasBackup /\ OriginalHolds(backup) /\ Onward("relink")
       \/ GiveUp
    /\ Still /\ UNCHANGED <<at, state, original, hasBackup, failed>>

\* os.link of whatever the backup name holds by now; never over an existing name.
RestorePrior ==
    /\ pc = "relink"
    /\ \/ backup # None /\ dest = None /\ dest' = backup /\ Onward("restored")
       \/ UNCHANGED dest /\ GiveUp
    /\ UNCHANGED <<temp, backup, vault, intact, stale, arena, residue, at, state, original,
                   hasBackup, failed, history>>

VerifyRestored ==
    /\ pc = "restored"
    /\ \/ OriginalHolds(dest) /\ Onward("remove")
       \/ GiveUp
    /\ Still /\ UNCHANGED <<at, state, original, hasBackup, failed>>

\* The quarantined archive goes; where there was no file, only while the name is free.
RemoveClaimed ==
    /\ pc = "remove"
    /\ \/ /\ original \/ dest = None
          /\ vault' \in {vault, vault \ {<<"dest", "new">>}}
       \/ UNCHANGED vault
    /\ GiveUp
    /\ UNCHANGED <<names, intact, stale, arena, residue, at, state, original, hasBackup, failed,
                   history>>

-----------------------------------------------------------------------------
(* The descriptors are closed; a complete transaction drops its backup. *)

CloseDescriptors ==
    /\ pc = "close"
    /\ \/ /\ pc' = IF failed THEN "directory" ELSE IF hasBackup THEN "cleanup" ELSE "exit"
          /\ UNCHANGED <<named, result>>
       \/ /\ original
          /\ pc' = IF failed THEN "directory" ELSE "end"
          /\ named' = (named \/ hasBackup)
          /\ result' = IF failed THEN "explained" ELSE "complete"
    /\ Still /\ UNCHANGED <<at, state, original, hasBackup, failed, lost>>

\* The directory's descriptor is closed last.  Its error takes the place of the exception
\* on its way, which stays its context; once the transaction is complete it is ignored.
CloseDirectory ==
    /\ pc = "directory" /\ pc' = "end"
    /\ result' \in {result, "unclosed"}
    /\ Still /\ UNCHANGED <<at, state, original, hasBackup, failed, named, lost>>

CleanupBackup ==
    /\ pc = "cleanup"
    /\ \E r \in Removal(IF intact THEN "old" ELSE "nobody", backup) :
         /\ backup' = r.name /\ Keep("backup", r) /\ lost' = r.lost
         /\ IF r.answer = "removed"
              THEN pc' = "exit" /\ UNCHANGED <<named, result>>
              ELSE pc' = "end" /\ result' = "complete" /\ named' = TRUE
    /\ UNCHANGED <<dest, temp, intact, stale, arena, residue, at, state, original, hasBackup,
                   failed, history>>

\* The arena must be the one of the entry audit, and empty again.
AuditExit ==
    /\ pc = "exit" /\ pc' = "end"
    /\ \/ arena /\ ~residue /\ vault = {} /\ result' = "ok"
       \/ result' = "complete"
    /\ Still /\ UNCHANGED <<at, state, original, hasBackup, failed, named, lost>>

-----------------------------------------------------------------------------
(* The rest of the world. *)

Outside == /\ pc # "end" /\ outside < MaxOutside
           /\ outside' = outside + 1
           /\ UNCHANGED <<pc, at, state, original, hasBackup, ends, vault, before, staleAtCommit>>

\* A source file, the index or HEAD changes; the frozen stamps never come back.
OthersEditSource ==
    /\ Outside
    /\ \E s \in Members \cup {Listing} : stale' = stale \cup {s}
    /\ UNCHANGED <<names, intact, arena, residue, touched, meddled>>

OthersWriteDestination ==
    /\ Outside
    /\ dest' \in {"other", None} \ {dest} /\ touched' = TRUE
    /\ UNCHANGED <<temp, backup, intact, stale, arena, residue, meddled>>

OthersWriteInPlace ==
    /\ Outside
    /\ dest = "old" /\ intact' = FALSE
    /\ UNCHANGED <<names, stale, arena, residue, touched, meddled>>

OthersTouchSidecars ==
    /\ Outside
    /\ \/ temp # None /\ temp' \in {"other", None} \ {temp} /\ UNCHANGED backup
       \/ backup # None /\ backup' \in {"other", None} \ {backup} /\ UNCHANGED temp
    /\ meddled' = TRUE
    /\ UNCHANGED <<dest, intact, stale, arena, residue, touched>>

\* Another arena under the same name, or material of another publication in it.
OthersUseArena ==
    /\ Outside
    /\ \/ arena' = ~arena /\ residue' \in BOOLEAN
       \/ residue' = ~residue /\ UNCHANGED arena
    /\ UNCHANGED <<names, intact, stale, touched, meddled>>

\* A kill, or an exception that is not an Exception: nothing is taken back.
Die == /\ pc # "end" /\ pc' = "end" /\ result' = "dead"
       /\ Still /\ UNCHANGED <<at, state, original, hasBackup, failed, named, lost>>

Materialize == \/ VerifyEnumerated \/ AuditEntry \/ CreateTemporary \/ ObserveDestination
               \/ ReadMember \/ SealArchive
Publish     == \/ VerifyDuring \/ LinkBackup \/ VerifySecond \/ VerifyBefore \/ VerifyThird
               \/ ReplaceName \/ VerifyPublished \/ VerifySource
Recover     == \/ RemoveTemporary \/ ClaimPublished \/ VerifyClaimed \/ VerifyBackup
               \/ RestorePrior \/ VerifyRestored \/ RemoveClaimed
Finalize    == CloseDescriptors \/ CloseDirectory \/ CleanupBackup \/ AuditExit
Others      == \/ OthersEditSource \/ OthersWriteDestination \/ OthersWriteInPlace
               \/ OthersTouchSidecars \/ OthersUseArena

Next == Materialize \/ Publish \/ Recover \/ Finalize \/ Others \/ Die

Spec == Init /\ [][Next]_vars

-----------------------------------------------------------------------------
(* Properties. *)

\* The prior file stays reachable under the destination or the backup until the
\* transaction is complete, whatever fails and wherever the process dies; the
\* backup is a link, so only others' writes to these names or in place are excepted
\* (_create_destination_backup, _rollback_publication).
PriorReachable ==
    original /\ before = "old" /\ ~Complete /\ ~touched /\ ~meddled
        => "old" \in {dest, backup}

\* Successful return: the destination is the archive of members none of which had
\* changed when the archive was renamed into place, nothing of this call remains
\* beside it, and the arena it leaves is the one it found, empty.
SuccessIsVerified ==
    result = "ok" => /\ dest = "new" \/ touched
                     /\ staleAtCommit = {}
                     /\ temp # "new" /\ vault = {} /\ arena
                     /\ backup = "old" => meddled

\* An exception raised as it came means that nothing is left behind or changed.  (Not so
\* the error of a last look or a last close, which takes the place of another one.)
PlainFailureIsClean ==
    result = "raised" => /\ dest = before \/ touched
                         /\ temp # "new" /\ vault = {}
                         /\ backup = "old" => meddled

\* A failure that leaves the prior file under the backup's random name says so,
\* as long as the arena is addressable.
BackupIsNamed ==
    pc = "end" /\ result \notin {"ok", "dead"} /\ backup = "old"
        /\ ~lost /\ ~meddled => named

Named(s) == CASE s = "dest" -> dest [] s = "temp" -> temp [] s = "backup" -> backup
Foreign  == { f \in Slots \X {"name", "vault"} :
                IF f[2] = "name" THEN Named(f[1]) = "other" ELSE <<f[1], "other">> \in vault }

\* Others' files are moved at most, never destroyed, by any step but os.replace.
OthersKept ==
    outside' = outside /\ pc # "replace" => Cardinality(Foreign) <= Cardinality(Foreign')

\* Past the boundary the new archive is never taken back.
CompleteStays == Complete /\ outside' = outside => dest' = dest
=============================================================================
