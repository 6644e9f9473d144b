----------------------- MODULE ReportPublicationProofs -----------------------
(***************************************************************************)
(* What publish_outputs guarantees for any number of files and of moves of *)
(* others: the safety properties of ReportPublication, from an inductive   *)
(* invariant that says, for each step of the forward path, the cleanup and *)
(* the rollback, what the loops before it have established for each file.  *)
(***************************************************************************)
EXTENDS ReportPublication, FiniteSetTheorems, TLAPS

-----------------------------------------------------------------------------
(* The invariant.                                                          *)

Starting   == {"preflight", "observe", "stage", "backup", "parents", "precommit"}
Installing == {"commit", "synced", "published", "boundary"}
Cleaned    == {"verify", "clean", "cleansync", "audit"}
Undoing    == {"rollback", "claimed", "restore", "restored"}
Closing    == {"directory", "report"}
\* The types, by kind.
Items == [original : BOOLEAN, stage : {"none", "stray", "open", "ready", "uncertain"},
          backup : {"none", "stray", "partial", "private", "verified"},
          committed : {"no", "yes", "unknown"}]
DiskTypes ==
    /\ dest \in [Files -> Contents \cup {None}] /\ stage \in [Files -> Contents \cup {None}]
    /\ backup \in [Files -> Contents \cup {None}]
    /\ newDir \in {"none", "public", "kept", "gone"}
VaultTypes == vault \in [Files -> SUBSET (Slots \X Contents)]
ItemTypes == item \in [Files -> Items]
ControlTypes ==
    /\ pc \in Starting \cup Installing \cup Cleaned \cup Undoing \cup Closing \cup {"end"}
    /\ cur \in 1 .. Last /\ cause \in {"none", "plain", "indeterminate"}
    /\ result \in {"none", "ok", "cleanup", "raised", "indeterminate", "dead"}
FlagTypes == complete \in BOOLEAN /\ issue \in BOOLEAN /\ lost \in BOOLEAN
NoteTypes ==
    /\ named \subseteq Files /\ listed \subseteq Files \X Slots
    /\ paths \subseteq (Files \X Slots) \cup {Directory}
    /\ before \in [Files -> {"old", None}]
    /\ touched \subseteq Files /\ meddled \subseteq Files /\ outside \in 0 .. MaxOutside
Typed == DiskTypes /\ VaultTypes /\ ItemTypes /\ ControlTypes /\ FlagTypes /\ NoteTypes

\* The files a step has been through: a forward loop counts up, rollback counts down.
Passed(i, step, later) == pc \in later \/ (pc = step /\ i < cur)

\* How far the transaction is.
PhaseInv ==
    /\ pc \in Starting \cup Installing \cup Undoing \cup Closing => ~complete
    /\ pc \in Cleaned => complete
    /\ pc \in Starting \cup Installing => ~issue /\ cause = "none"
    /\ pc # "end" => result = "none"
    /\ result = "ok" => complete /\ ~issue

\* What an item says of the names, whatever the step.
ItemHolds(i) ==
    /\ item[i].stage = "none" => stage[i] = None
    /\ item[i].stage # "ready" => item[i].backup = "none" /\ item[i].committed = "no"
    /\ item[i].backup = "none" => backup[i] = None
    /\ ~item[i].original => item[i].backup = "none"
    /\ item[i].committed # "no" /\ item[i].original => HasBackup(i)
    /\ item[i].committed = "yes" => stage[i] = None
    /\ item[i].stage # "none" /\ i \notin touched => (item[i].original <=> before[i] # None)
    /\ "stray" \in {item[i].stage, item[i].backup} => cause = "indeterminate"
ItemInv == \A i \in Files : ItemHolds(i)

\* What the loops of the forward path have established.
ForwardHolds(i) ==
    /\ pc = "preflight" \/ (pc = "observe" /\ cur <= i)
         => ~item[i].original /\ dest[i] = before[i]
    /\ Passed(i, "observe", {"stage"}) /\ i \notin touched
         => (item[i].original <=> before[i] # None)
    /\ pc \in {"preflight", "observe"} \/ (pc = "stage" /\ cur <= i) => item[i].stage = "none"
    /\ Passed(i, "stage", {"backup", "parents", "precommit"} \cup Installing \cup Cleaned)
         => item[i].stage = "ready"
    /\ pc \in {"preflight", "observe", "stage"} \/ (pc = "backup" /\ cur <= i)
         => item[i].backup = "none"
    /\ Passed(i, "backup", {"parents", "precommit"} \cup Installing \cup Cleaned)
         => item[i].backup = IF item[i].original THEN "verified" ELSE "none"
    /\ pc \in Starting \/ (pc = "commit" /\ cur <= i) => item[i].committed = "no"
    /\ Passed(i, "commit", {"synced", "published", "boundary"} \cup Cleaned) => stage[i] = None
    /\ Passed(i, "boundary", Cleaned) => dest[i] = "new" \/ i \in touched
    /\ Passed(i, "clean", {"cleansync"}) /\ ~issue => backup[i] \notin {"copy", "part"}
ForwardInv == \A i \in Files : ForwardHolds(i)

\* The old bytes: a verified backup, or the destination itself.
OldInv == BackupOutlivesFailure /\ OldBytesReachable

\* What rollback has to put right, and has put right when it found nothing to report.
Claimed(i) == pc \in {"claimed", "restore", "restored"} /\ i = cur /\ item[i].committed = "yes"

Unchanged(i) == dest[i] # "new" /\ (i \in touched \/ dest[i] = before[i])

Restored(i) == /\ dest[i] = before[i] \/ i \in touched
               /\ item[i].stage # "stray" => stage[i] # "new"
               /\ item[i].backup # "stray" => backup[i] \notin {"copy", "part"}

RollbackHolds(i) ==
    /\ item[i].committed = "no" => Unchanged(i)
    /\ ~Claimed(i) => vault[i] = {}
    /\ Claimed(i) /\ pc = "claimed" => \E c \in Contents : vault[i] = {<<"dest", c>>}
    /\ Claimed(i) /\ pc = "restore" => vault[i] = {<<"dest", "new">>}
    /\ pc = "restore" /\ i = cur /\ item[i].committed # "yes"
         => stage[i] # "new" /\ item[i].committed = "no"
    /\ pc \in Closing \/ (pc \in Undoing /\ cur < i) => Restored(i)

RollbackInv ==
    /\ pc \in {"claimed", "restored"} => item[cur].committed = "yes"
    /\ pc \in {"restored"} => item[cur].original
    /\ ~issue /\ pc # "end" => \A i \in Files : RollbackHolds(i)
    /\ pc = "report" /\ ~issue => newDir \in {"none", "gone"}

Conclusion == SuccessIsClean /\ PlainFailureIsClean /\ KeptIsListed

IndInv == /\ Typed /\ PhaseInv /\ ItemInv /\ ForwardInv /\ OldInv /\ RollbackInv /\ Conclusion

\* The constants.
Size == Last \in Nat \ {0} /\ Files = 1 .. Last /\ MaxOutside \in Nat

USE DEF Starting, Installing, Cleaned, Undoing, Closing, Passed, HasBackup, None,
        names, control, history

-----------------------------------------------------------------------------
(* How a step changes one item, one quarantine.                            *)

\* The types by kind are the types of the module.
LEMMA Types == TypeOK <=> Typed
  BY DEF TypeOK, Typed, DiskTypes, VaultTypes, ItemTypes, ControlTypes, FlagTypes, NoteTypes, Items

ItemStages  == {"none", "stray", "open", "ready", "uncertain"}
ItemBackups == {"none", "stray", "partial", "private", "verified"}

\* What one removal by claim can leave behind.
LEMMA Removing ==
  ASSUME NEW own, NEW x, NEW r \in Removal(own, x)
  PROVE  /\ r.name \in {x, None} /\ r.kept \in {x, None} /\ r.lost \in BOOLEAN
         /\ ~Unfinished(r) => r.name = None /\ r.kept = None
         /\ r.kept # None => r.name = None
  BY DEF Removal, Unfinished

\* _observe_original changes one field of one item.
LEMMA SetOriginal ==
  ASSUME Typed, Size, NEW v \in BOOLEAN, item' = [item EXCEPT ![cur].original = v]
  PROVE  /\ ItemTypes' /\ \A i \in Files \ {cur} : item'[i] = item[i]
         /\ item'[cur].original = v /\ item'[cur].stage = item[cur].stage
         /\ item'[cur].backup = item[cur].backup /\ item'[cur].committed = item[cur].committed
<1>1. cur \in Files /\ item \in [Files -> Items] /\ item[cur] \in Items
  BY DEF Typed, ItemTypes, ControlTypes, Size
<1>2. [item[cur] EXCEPT !.original = v] \in Items
  BY <1>1 DEF Items
<1>3. item' = [item EXCEPT ![cur] = [item[cur] EXCEPT !.original = v]]
  BY Zenon
<1> QED
  BY <1>1, <1>2, <1>3 DEF ItemTypes, Items

\* _prepare_stage sets the state of one stage.
LEMMA SetStage ==
  ASSUME Typed, Size, NEW v \in ItemStages, item' = [item EXCEPT ![cur].stage = v]
  PROVE  /\ ItemTypes' /\ \A i \in Files \ {cur} : item'[i] = item[i]
         /\ item'[cur].stage = v /\ item'[cur].original = item[cur].original
         /\ item'[cur].backup = item[cur].backup /\ item'[cur].committed = item[cur].committed
<1>1. cur \in Files /\ item \in [Files -> Items] /\ item[cur] \in Items
  BY DEF Typed, ItemTypes, ControlTypes, Size
<1>2. [item[cur] EXCEPT !.stage = v] \in Items
  BY <1>1 DEF Items, ItemStages, ItemBackups
<1>3. item' = [item EXCEPT ![cur] = [item[cur] EXCEPT !.stage = v]]
  BY Zenon
<1> QED
  BY <1>1, <1>2, <1>3 DEF ItemTypes, Items

\* _prepare_backup sets the state of one backup.
LEMMA SetBackup ==
  ASSUME Typed, Size, NEW v \in ItemBackups, item' = [item EXCEPT ![cur].backup = v]
  PROVE  /\ ItemTypes' /\ \A i \in Files \ {cur} : item'[i] = item[i]
         /\ item'[cur].backup = v /\ item'[cur].original = item[cur].original
         /\ item'[cur].stage = item[cur].stage /\ item'[cur].committed = item[cur].committed
<1>1. cur \in Files /\ item \in [Files -> Items] /\ item[cur] \in Items
  BY DEF Typed, ItemTypes, ControlTypes, Size
<1>2. [item[cur] EXCEPT !.backup = v] \in Items
  BY <1>1 DEF Items, ItemStages, ItemBackups
<1>3. item' = [item EXCEPT ![cur] = [item[cur] EXCEPT !.backup = v]]
  BY Zenon
<1> QED
  BY <1>1, <1>2, <1>3 DEF ItemTypes, Items

\* A rename, or its undoing, changes whether one item is committed.
LEMMA SetCommitted ==
  ASSUME Typed, Size, NEW v \in {"no", "yes", "unknown"}, item' = [item EXCEPT ![cur].committed = v]
  PROVE  /\ ItemTypes' /\ \A i \in Files \ {cur} : item'[i] = item[i]
         /\ item'[cur].committed = v /\ item'[cur].original = item[cur].original
         /\ item'[cur].stage = item[cur].stage /\ item'[cur].backup = item[cur].backup
<1>1. cur \in Files /\ item \in [Files -> Items] /\ item[cur] \in Items
  BY DEF Typed, ItemTypes, ControlTypes, Size
<1>2. [item[cur] EXCEPT !.committed = v] \in Items
  BY <1>1 DEF Items, ItemStages, ItemBackups
<1>3. item' = [item EXCEPT ![cur] = [item[cur] EXCEPT !.committed = v]]
  BY Zenon
<1> QED
  BY <1>1, <1>2, <1>3 DEF ItemTypes, Items


\* A removal adds to the quarantines of one file at most.
LEMMA Keeping ==
  ASSUME Typed, Size, NEW slot \in Slots, NEW r, r.kept \in Contents \cup {None}, Keep(cur, slot, r)
  PROVE  /\ VaultTypes' /\ \A i \in Files \ {cur} : vault'[i] = vault[i]
         /\ r.kept = None => vault'[cur] = vault[cur]
         /\ r.kept # None => vault'[cur] = vault[cur] \cup {<<slot, r.kept>>}
  BY DEF Typed, VaultTypes, ControlTypes, Size, Keep

\* The end of the quarantine of a claimed report takes its own file out, or nothing.
LEMMA Finishing ==
  ASSUME Typed, Size, NEW mayRemove \in BOOLEAN, NEW quietly \in BOOLEAN, FinishClaim(mayRemove, quietly)
  PROVE  /\ VaultTypes' /\ \A i \in Files \ {cur} : vault'[i] = vault[i]
         /\ issue' \in BOOLEAN /\ lost' \in BOOLEAN
         /\ \/ vault'[cur] = vault[cur]
            \/ mayRemove /\ vault'[cur] = vault[cur] \ {<<"dest", "new">>}
         /\ ~issue' => /\ ~issue /\ mayRemove /\ quietly
                       /\ vault'[cur] = vault[cur] \ {<<"dest", "new">>}
<1>1. CASE /\ mayRemove /\ lost' = lost
           /\ vault' = [vault EXCEPT ![cur] = @ \ {<<"dest", "new">>}]
           /\ issue' = (issue \/ ~quietly)
  <2>1. /\ issue' \in BOOLEAN /\ lost' \in BOOLEAN
        /\ ~issue' => ~issue /\ quietly
    BY <1>1, Zenon DEF Typed, FlagTypes
  <2>2. /\ VaultTypes' /\ \A i \in Files \ {cur} : vault'[i] = vault[i]
        /\ vault'[cur] = vault[cur] \ {<<"dest", "new">>}
    BY <1>1 DEF Typed, VaultTypes, ControlTypes, Size
  <2> QED
    BY <1>1, <2>1, <2>2
<1>2. CASE /\ issue' = TRUE /\ lost' \in {lost, TRUE}
           /\ vault' \in {vault} \cup (IF mayRemove
                                         THEN {[vault EXCEPT ![cur] = @ \ {<<"dest", "new">>}]}
                                         ELSE {})
  <2>1. lost' \in BOOLEAN
    BY <1>2, Zenon DEF Typed, FlagTypes
  <2>2. /\ VaultTypes' /\ \A i \in Files \ {cur} : vault'[i] = vault[i]
        /\ \/ vault'[cur] = vault[cur]
           \/ mayRemove /\ vault'[cur] = vault[cur] \ {<<"dest", "new">>}
    BY <1>2 DEF Typed, VaultTypes, ControlTypes, Size
  <2> QED
    BY <1>2, <2>1, <2>2
<1> QED
  BY <1>1, <1>2 DEF FinishClaim

\* An exception before the boundary starts the rollback with all that was established.
LEMMA FailKeeps ==
  ASSUME Size, IndInv, NEW kind \in {"plain", "indeterminate"}, Fail(kind),
         pc \in Starting \cup Installing, Still, item' = item
  PROVE  IndInv'
<1> USE DEF IndInv, Size, Fail, Still
<1>1. Typed'
  <2>1. FlagTypes'
    BY Zenon DEF Typed, FlagTypes
  <2>2. DiskTypes'
    BY DEF Typed, DiskTypes, ControlTypes, Contents
  <2>3. VaultTypes' /\ ItemTypes'
    BY DEF Typed, DiskTypes, VaultTypes, ItemTypes, ControlTypes, Slots, Contents, Items
  <2>4. ControlTypes'
    BY DEF Typed, ControlTypes
  <2>5. NoteTypes'
    BY DEF Typed, NoteTypes, ControlTypes, Contents, Slots
  <2> QED
    BY <2>1, <2>2, <2>3, <2>4, <2>5 DEF Typed
<1>2. PhaseInv'
  BY DEF PhaseInv
<1>3. ItemInv'
  BY DEF Typed, DiskTypes, ItemTypes, ControlTypes, NoteTypes, PhaseInv, ItemInv, ItemHolds, ForwardInv, ForwardHolds
<1>4. ForwardInv'
  BY DEF Typed, DiskTypes, ItemTypes, ControlTypes, NoteTypes, PhaseInv, ItemInv, ItemHolds, ForwardInv, ForwardHolds
<1>5. OldInv'
  BY DEF Typed, DiskTypes, ItemTypes, ControlTypes, NoteTypes, PhaseInv, ItemInv, ItemHolds, ForwardInv, ForwardHolds, OldInv, BackupOutlivesFailure, OldBytesReachable
<1>6. RollbackInv'
  BY DEF Typed, DiskTypes, ItemTypes, ControlTypes, NoteTypes, VaultTypes, PhaseInv, ItemInv, ItemHolds, ForwardInv, ForwardHolds, RollbackInv, RollbackHolds, Claimed, Unchanged, Restored, Contents, Slots
<1>7. Conclusion'
  BY DEF Typed, DiskTypes, ItemTypes, ControlTypes, NoteTypes, PhaseInv, ItemInv, ItemHolds, ForwardInv, ForwardHolds, RollbackInv, RollbackHolds, Claimed, Unchanged, Restored, Conclusion, SuccessIsClean, PlainFailureIsClean, KeptIsListed
<1> QED
  BY <1>1, <1>2, <1>3, <1>4, <1>5, <1>6, <1>7

\* The collision probe touches no file.
LEMMA PreflightKeeps ==
  ASSUME Size, IndInv, Preflight
  PROVE  IndInv'
<1>1. CASE \E kind \in {"plain", "indeterminate"} : Fail(kind)
  BY <1>1, FailKeeps DEF Preflight
<1>2. CASE Go("observe")
  <2> USE <1>2 DEF IndInv, Size, Preflight, Go, Still
  <2>1. Typed'
    <3>1. FlagTypes'
      BY Zenon DEF Typed, FlagTypes
    <3>2. DiskTypes'
      BY DEF Typed, DiskTypes, ControlTypes, Contents
    <3>3. VaultTypes' /\ ItemTypes'
      BY DEF Typed, DiskTypes, VaultTypes, ItemTypes, ControlTypes, Slots, Contents, Items
    <3>4. ControlTypes'
      BY DEF Typed, ControlTypes
    <3>5. NoteTypes'
      BY DEF Typed, NoteTypes, ControlTypes, Contents, Slots
    <3> QED
      BY <3>1, <3>2, <3>3, <3>4, <3>5 DEF Typed
  <2>2. PhaseInv'
    BY DEF PhaseInv
  <2>3. ItemInv'
    BY DEF Typed, DiskTypes, ItemTypes, ControlTypes, NoteTypes, PhaseInv, ItemInv, ItemHolds, ForwardInv, ForwardHolds
  <2>4. ForwardInv'
    BY DEF Typed, DiskTypes, ItemTypes, ControlTypes, NoteTypes, PhaseInv, ItemInv, ItemHolds, ForwardInv, ForwardHolds
  <2>5. OldInv'
    BY DEF Typed, DiskTypes, ItemTypes, ControlTypes, NoteTypes, PhaseInv, ItemInv, ItemHolds, ForwardInv, ForwardHolds, OldInv, BackupOutlivesFailure, OldBytesReachable
  <2>6. RollbackInv'
    BY DEF Typed, DiskTypes, ItemTypes, ControlTypes, NoteTypes, VaultTypes, PhaseInv, ItemInv, ItemHolds, ForwardInv, ForwardHolds, RollbackInv, RollbackHolds, Claimed, Unchanged, Restored, Contents, Slots
  <2>7. Conclusion'
    BY DEF Typed, DiskTypes, ItemTypes, ControlTypes, NoteTypes, PhaseInv, ItemInv, ItemHolds, ForwardInv, ForwardHolds, RollbackInv, RollbackHolds, Claimed, Unchanged, Restored, Conclusion, SuccessIsClean, PlainFailureIsClean, KeptIsListed
  <2> QED
    BY <2>1, <2>2, <2>3, <2>4, <2>5, <2>6, <2>7
<1> QED
  BY <1>1, <1>2 DEF Preflight

\* Observing a destination records whether there was one.
LEMMA ObserveKeeps ==
  ASSUME Size, IndInv, Observe
  PROVE  IndInv'
<1>1. CASE Fail("plain") /\ UNCHANGED item
  BY <1>1, FailKeeps DEF Observe
<1>2. CASE Advance("observe", "stage") /\ item' = [item EXCEPT ![cur].original = dest[cur] # None]
  <2>a. /\ ItemTypes' /\ \A i \in Files \ {cur} : item'[i] = item[i]
        /\ item'[cur].original <=> dest[cur] # None
        /\ item'[cur].stage = item[cur].stage
        /\ item'[cur].backup = item[cur].backup /\ item'[cur].committed = item[cur].committed
    <3>1. (dest[cur] # None) \in BOOLEAN /\ Typed /\ Size
      BY DEF IndInv
    <3>2. /\ ItemTypes' /\ \A i \in Files \ {cur} : item'[i] = item[i]
          /\ item'[cur].original = (dest[cur] # None) /\ item'[cur].stage = item[cur].stage
          /\ item'[cur].backup = item[cur].backup /\ item'[cur].committed = item[cur].committed
      BY <1>2, <3>1, SetOriginal
    <3> QED
      BY <3>2, Zenon
  <2>b. pc = "observe" /\ Still /\ Advance("observe", "stage") /\ cur \in Files
    BY <1>2 DEF Observe, IndInv, Typed, ControlTypes, Size
  <2> USE <2>a, <2>b DEF IndInv, Size, Advance, Still
  <2>1. Typed'
    <3>1. FlagTypes'
      BY Zenon DEF Typed, FlagTypes
    <3>2. DiskTypes'
      BY DEF Typed, DiskTypes, ControlTypes, Contents
    <3>3. VaultTypes' /\ ItemTypes'
      BY DEF Typed, DiskTypes, VaultTypes, ItemTypes, ControlTypes, Slots, Contents, Items
    <3>4. ControlTypes'
      BY DEF Typed, ControlTypes
    <3>5. NoteTypes'
      BY DEF Typed, NoteTypes, ControlTypes, Contents, Slots
    <3> QED
      BY <3>1, <3>2, <3>3, <3>4, <3>5 DEF Typed
  <2>2. PhaseInv'
    BY DEF PhaseInv
  <2>3. ItemInv'
    <3> SUFFICES ASSUME NEW i \in Files PROVE ItemHolds(i)'
      BY DEF ItemInv
    <3>1. CASE i = cur
      BY <3>1 DEF Typed, DiskTypes, ItemTypes, ControlTypes, NoteTypes, PhaseInv, ItemInv, ItemHolds, ForwardInv, ForwardHolds
    <3>2. CASE i # cur
      BY <3>2 DEF Typed, DiskTypes, ItemTypes, ControlTypes, NoteTypes, PhaseInv, ItemInv, ItemHolds, ForwardInv, ForwardHolds
    <3> QED
      BY <3>1, <3>2
  <2>4. ForwardInv'
    <3> SUFFICES ASSUME NEW i \in Files PROVE ForwardHolds(i)'
      BY DEF ForwardInv
    <3>1. CASE i = cur
      BY <3>1 DEF Typed, DiskTypes, ItemTypes, ControlTypes, NoteTypes, PhaseInv, ItemInv, ItemHolds, ForwardInv, ForwardHolds
    <3>2. CASE i # cur
      BY <3>2 DEF Typed, DiskTypes, ItemTypes, ControlTypes, NoteTypes, PhaseInv, ItemInv, ItemHolds, ForwardInv, ForwardHolds
    <3> QED
      BY <3>1, <3>2
  <2>5. OldInv'
    <3> SUFFICES ASSUME NEW i \in Files, ~complete', i \notin meddled'
                 PROVE  /\ HasBackup(i)' => backup'[i] = "copy"
                        /\ item'[i].original /\ i \notin touched'
                             => dest'[i] \in {"old", "copy"} \/ backup'[i] = "copy"
      BY DEF OldInv, BackupOutlivesFailure, OldBytesReachable
    <3>1. CASE i = cur
      BY <3>1 DEF Typed, DiskTypes, ItemTypes, ControlTypes, NoteTypes, PhaseInv, ItemInv, ItemHolds, ForwardInv, ForwardHolds, OldInv, BackupOutlivesFailure, OldBytesReachable
    <3>2. CASE i # cur
      BY <3>2 DEF Typed, DiskTypes, ItemTypes, ControlTypes, NoteTypes, PhaseInv, ItemInv, ItemHolds, ForwardInv, ForwardHolds, OldInv, BackupOutlivesFailure, OldBytesReachable
    <3> QED
      BY <3>1, <3>2
  <2>6. RollbackInv'
    BY DEF Typed, DiskTypes, ItemTypes, ControlTypes, NoteTypes, VaultTypes, PhaseInv, ItemInv, ItemHolds, ForwardInv, ForwardHolds, RollbackInv, RollbackHolds, Claimed, Unchanged, Restored, Contents, Slots
  <2>7. Conclusion'
    BY DEF Typed, DiskTypes, ItemTypes, ControlTypes, NoteTypes, PhaseInv, ItemInv, ItemHolds, ForwardInv, ForwardHolds, RollbackInv, RollbackHolds, Claimed, Unchanged, Restored, Conclusion, SuccessIsClean, PlainFailureIsClean, KeptIsListed
  <2> QED
    BY <2>1, <2>2, <2>3, <2>4, <2>5, <2>6, <2>7
<1> QED
  BY <1>1, <1>2 DEF Observe

\* A stage is made where nothing was, and is as ready as the step says.
LEMMA PrepareStageKeeps ==
  ASSUME Size, IndInv, PrepareStage
  PROVE  IndInv'
<1> PICK state \in ItemStages :
      /\ item' = [item EXCEPT ![cur].stage = state]
      /\ stage' = [stage EXCEPT ![cur] = IF state = "none" THEN None ELSE "new"]
      /\ \/ state = "ready" /\ Advance("stage", "backup")
         \/ state \in {"stray", "uncertain"} /\ Fail("indeterminate")
         \/ state \in {"none", "open"} /\ Fail("plain")
  BY DEF PrepareStage, ItemStages
<1>a. /\ ItemTypes' /\ \A i \in Files \ {cur} : item'[i] = item[i]
      /\ item'[cur].original = item[cur].original /\ item'[cur].stage = state
      /\ item'[cur].backup = item[cur].backup /\ item'[cur].committed = item[cur].committed
  BY SetStage DEF IndInv
<1>b. /\ pc = "stage" /\ cur \in Files /\ state \in ItemStages
      /\ UNCHANGED <<dest, backup, vault, newDir, history, complete, issue, lost, named, listed, result, paths>>
      /\ \/ state = "ready" /\ cur < Last /\ pc' = "stage" /\ cur' = cur + 1 /\ cause' = cause
         \/ state = "ready" /\ cur = Last /\ pc' = "backup" /\ cur' = 1 /\ cause' = cause
         \/ /\ state # "ready" /\ pc' = "rollback" /\ cur' = Last
            /\ cause' \in {"plain", "indeterminate"}
            /\ state = "stray" => cause' = "indeterminate"
      /\ stage'[cur] = (IF state = "none" THEN None ELSE "new")
      /\ \A i \in Files \ {cur} : stage'[i] = stage[i]
      /\ DiskTypes'
  BY DEF PrepareStage, Advance, Fail, IndInv, Typed, ControlTypes, DiskTypes, Contents, Size
<1> HIDE DEF PrepareStage
<1> USE <1>a, <1>b DEF IndInv, Size, ItemStages
<1>1. Typed'
  <2>1. FlagTypes'
    BY Zenon DEF Typed, FlagTypes
  <2>2. DiskTypes'
    BY DEF Typed, DiskTypes, ControlTypes, Contents
  <2>3. VaultTypes' /\ ItemTypes'
    BY DEF Typed, DiskTypes, VaultTypes, ItemTypes, ControlTypes, Slots, Contents, Items
  <2>4. ControlTypes'
    BY DEF Typed, ControlTypes
  <2>5. NoteTypes'
    BY DEF Typed, NoteTypes, ControlTypes, Contents, Slots
  <2> QED
    BY <2>1, <2>2, <2>3, <2>4, <2>5 DEF Typed
<1>2. PhaseInv'
  BY DEF PhaseInv
<1>3. ItemInv'
  BY DEF Typed, DiskTypes, ItemTypes, ControlTypes, NoteTypes, PhaseInv, ItemInv, ItemHolds, ForwardInv, ForwardHolds
<1>4. ForwardInv'
  <2> SUFFICES ASSUME NEW i \in Files PROVE ForwardHolds(i)'
    BY DEF ForwardInv
  <2>1. CASE i = cur
    BY <2>1 DEF Typed, DiskTypes, ItemTypes, ControlTypes, NoteTypes, PhaseInv, ItemInv, ItemHolds, ForwardInv, ForwardHolds
  <2>2. CASE i # cur
    BY <2>2 DEF Typed, DiskTypes, ItemTypes, ControlTypes, NoteTypes, PhaseInv, ItemInv, ItemHolds, ForwardInv, ForwardHolds
  <2> QED
    BY <2>1, <2>2
<1>5. OldInv'
  BY DEF Typed, DiskTypes, ItemTypes, ControlTypes, NoteTypes, PhaseInv, ItemInv, ItemHolds, ForwardInv, ForwardHolds, OldInv, BackupOutlivesFailure, OldBytesReachable
<1>6. RollbackInv'
  BY DEF Typed, DiskTypes, ItemTypes, ControlTypes, NoteTypes, VaultTypes, PhaseInv, ItemInv, ItemHolds, ForwardInv, ForwardHolds, RollbackInv, RollbackHolds, Claimed, Unchanged, Restored, Contents, Slots
<1>7. Conclusion'
  BY DEF Typed, DiskTypes, ItemTypes, ControlTypes, NoteTypes, PhaseInv, ItemInv, ItemHolds, ForwardInv, ForwardHolds, RollbackInv, RollbackHolds, Claimed, Unchanged, Restored, Conclusion, SuccessIsClean, PlainFailureIsClean, KeptIsListed
<1> QED
  BY <1>1, <1>2, <1>3, <1>4, <1>5, <1>6, <1>7

\* A backup is made from the old bytes only, and kept when its close is uncertain.
LEMMA PrepareBackupKeeps ==
  ASSUME Size, IndInv, PrepareBackup
  PROVE  IndInv'
<1>1. CASE ~item[cur].original /\ Advance("backup", "parents") /\ Still /\ UNCHANGED item
  <2> USE <1>1 DEF IndInv, Size, PrepareBackup, Advance, Still
  <2>1. Typed'
    <3>1. FlagTypes'
      BY Zenon DEF Typed, FlagTypes
    <3>2. DiskTypes'
      BY DEF Typed, DiskTypes, ControlTypes, Contents
    <3>3. VaultTypes' /\ ItemTypes'
      BY DEF Typed, DiskTypes, VaultTypes, ItemTypes, ControlTypes, Slots, Contents, Items
    <3>4. ControlTypes'
      BY DEF Typed, ControlTypes
    <3>5. NoteTypes'
      BY DEF Typed, NoteTypes, ControlTypes, Contents, Slots
    <3> QED
      BY <3>1, <3>2, <3>3, <3>4, <3>5 DEF Typed
  <2>2. PhaseInv'
    BY DEF PhaseInv
  <2>3. ItemInv'
    BY DEF Typed, DiskTypes, ItemTypes, ControlTypes, NoteTypes, PhaseInv, ItemInv, ItemHolds, ForwardInv, ForwardHolds
  <2>4. ForwardInv'
    BY DEF Typed, DiskTypes, ItemTypes, ControlTypes, NoteTypes, PhaseInv, ItemInv, ItemHolds, ForwardInv, ForwardHolds
  <2>5. OldInv'
    BY DEF Typed, DiskTypes, ItemTypes, ControlTypes, NoteTypes, PhaseInv, ItemInv, ItemHolds, ForwardInv, ForwardHolds, OldInv, BackupOutlivesFailure, OldBytesReachable
  <2>6. RollbackInv'
    BY DEF Typed, DiskTypes, ItemTypes, ControlTypes, NoteTypes, VaultTypes, PhaseInv, ItemInv, ItemHolds, ForwardInv, ForwardHolds, RollbackInv, RollbackHolds, Claimed, Unchanged, Restored, Contents, Slots
  <2>7. Conclusion'
    BY DEF Typed, DiskTypes, ItemTypes, ControlTypes, NoteTypes, PhaseInv, ItemInv, ItemHolds, ForwardInv, ForwardHolds, RollbackInv, RollbackHolds, Claimed, Unchanged, Restored, Conclusion, SuccessIsClean, PlainFailureIsClean, KeptIsListed
  <2> QED
    BY <2>1, <2>2, <2>3, <2>4, <2>5, <2>6, <2>7
<1>2. CASE Fail("plain") /\ Still /\ UNCHANGED item
  BY <1>2, FailKeeps DEF PrepareBackup
<1>3. CASE ~(Fail("plain") /\ Still /\ UNCHANGED item) /\ item[cur].original /\ dest[cur] = "old"
  <2> PICK state \in {"stray", "partial", "private", "verified"}, closed \in BOOLEAN :
        /\ item' = [item EXCEPT ![cur].backup =
                      IF ~closed /\ state = "private" THEN "partial" ELSE state]
        /\ backup' = [backup EXCEPT ![cur] =
                        IF state \in {"stray", "partial"} THEN "part" ELSE "copy"]
        /\ \/ state = "stray" /\ Fail("indeterminate")
           \/ /\ state # "stray" /\ ~closed /\ pc' = "rollback" /\ cur' = Last /\ cause' = "indeterminate"
              /\ listed' = listed \cup {<<cur, "backup">>}
              /\ UNCHANGED <<complete, issue, lost, named, result, paths>>
           \/ closed /\ state = "verified" /\ Advance("backup", "parents")
           \/ closed /\ state \in {"partial", "private"} /\ Fail("plain")
        /\ pc = "backup" /\ UNCHANGED <<dest, stage, vault, newDir, history>>
    BY <1>3 DEF PrepareBackup
  <2> DEFINE left == IF ~closed /\ state = "private" THEN "partial" ELSE state
  <2>a. /\ ItemTypes' /\ \A i \in Files \ {cur} : item'[i] = item[i]
        /\ item'[cur].original = item[cur].original /\ item'[cur].stage = item[cur].stage
        /\ item'[cur].backup = left /\ item'[cur].committed = item[cur].committed
    <3>1. left \in ItemBackups
      BY DEF ItemBackups
    <3> QED
      BY <3>1, SetBackup DEF IndInv
  <2>b. /\ pc = "backup" /\ cur \in Files /\ item[cur].original /\ dest[cur] = "old"
        /\ UNCHANGED <<dest, stage, vault, newDir, history, complete, issue, lost, named, result, paths>>
        /\ \/ /\ state = "verified" /\ cause' = cause /\ listed' = listed
              /\ \/ cur < Last /\ pc' = "backup" /\ cur' = cur + 1
                 \/ cur = Last /\ pc' = "parents" /\ cur' = 1
           \/ /\ pc' = "rollback" /\ cur' = Last /\ cause' \in {"plain", "indeterminate"}
              /\ listed' \in {listed, listed \cup {<<cur, "backup">>}}
              /\ state = "stray" => cause' = "indeterminate"
        /\ left \in {state, "partial"} /\ (left = "verified" <=> state = "verified")
        /\ left = "stray" => state = "stray"
    <3>1. CASE state # "stray" /\ ~closed
      BY <1>3, <3>1 DEF IndInv, Typed, ControlTypes, Size
    <3>2. CASE closed /\ state = "verified"
      BY <1>3, <3>2 DEF Advance, IndInv, Typed, ControlTypes, Size
    <3>3. CASE state = "stray" \/ (closed /\ state # "verified")
      BY <1>3, <3>3 DEF Fail, IndInv, Typed, ControlTypes, Size
    <3> QED
      BY <3>1, <3>2, <3>3
  <2>c. /\ backup'[cur] = (IF state \in {"stray", "partial"} THEN "part" ELSE "copy")
        /\ \A i \in Files \ {cur} : backup'[i] = backup[i]
        /\ DiskTypes'
    BY <2>b DEF IndInv, Typed, DiskTypes, Contents
  <2> HIDE DEF left
  <2> USE <2>a, <2>b, <2>c DEF IndInv, Size
  <2>1. Typed'
    <3>1. FlagTypes'
      BY Zenon DEF Typed, FlagTypes
    <3>2. DiskTypes'
      BY DEF Typed, DiskTypes, ControlTypes, Contents
    <3>3. VaultTypes' /\ ItemTypes'
      BY DEF Typed, DiskTypes, VaultTypes, ItemTypes, ControlTypes, Slots, Contents, Items
    <3>4. ControlTypes'
      BY DEF Typed, ControlTypes
    <3>5. NoteTypes'
      BY DEF Typed, NoteTypes, ControlTypes, Contents, Slots
    <3> QED
      BY <3>1, <3>2, <3>3, <3>4, <3>5 DEF Typed
  <2>2. PhaseInv'
    BY DEF PhaseInv
  <2>3. ItemInv'
    <3> SUFFICES ASSUME NEW i \in Files PROVE ItemHolds(i)'
      BY DEF ItemInv
    <3>1. CASE i = cur
      BY <3>1 DEF Typed, DiskTypes, ItemTypes, ControlTypes, NoteTypes, PhaseInv, ItemInv, ItemHolds, ForwardInv, ForwardHolds
    <3>2. CASE i # cur
      BY <3>2 DEF Typed, DiskTypes, ItemTypes, ControlTypes, NoteTypes, PhaseInv, ItemInv, ItemHolds, ForwardInv, ForwardHolds
    <3> QED
      BY <3>1, <3>2
  <2>4. ForwardInv'
    <3> SUFFICES ASSUME NEW i \in Files PROVE ForwardHolds(i)'
      BY DEF ForwardInv
    <3>1. CASE i = cur
      BY <3>1 DEF Typed, DiskTypes, ItemTypes, ControlTypes, NoteTypes, PhaseInv, ItemInv, ItemHolds, ForwardInv, ForwardHolds
    <3>2. CASE i # cur
      BY <3>2 DEF Typed, DiskTypes, ItemTypes, ControlTypes, NoteTypes, PhaseInv, ItemInv, ItemHolds, ForwardInv, ForwardHolds
    <3> QED
      BY <3>1, <3>2
  <2>5. OldInv'
    <3> SUFFICES ASSUME NEW i \in Files, ~complete', i \notin meddled'
                 PROVE  /\ HasBackup(i)' => backup'[i] = "copy"
                        /\ item'[i].original /\ i \notin touched'
                             => dest'[i] \in {"old", "copy"} \/ backup'[i] = "copy"
      BY DEF OldInv, BackupOutlivesFailure, OldBytesReachable
    <3>1. CASE i = cur
      BY <3>1 DEF Typed, DiskTypes, ItemTypes, ControlTypes, NoteTypes, PhaseInv, ItemInv, ItemHolds, ForwardInv, ForwardHolds, OldInv, BackupOutlivesFailure, OldBytesReachable
    <3>2. CASE i # cur
      BY <3>2 DEF Typed, DiskTypes, ItemTypes, ControlTypes, NoteTypes, PhaseInv, ItemInv, ItemHolds, ForwardInv, ForwardHolds, OldInv, BackupOutlivesFailure, OldBytesReachable
    <3> QED
      BY <3>1, <3>2
  <2>6. RollbackInv'
    BY DEF Typed, DiskTypes, ItemTypes, ControlTypes, NoteTypes, VaultTypes, PhaseInv, ItemInv, ItemHolds, ForwardInv, ForwardHolds, RollbackInv, RollbackHolds, Claimed, Unchanged, Restored, Contents, Slots
  <2>7. Conclusion'
    BY DEF Typed, DiskTypes, ItemTypes, ControlTypes, NoteTypes, PhaseInv, ItemInv, ItemHolds, ForwardInv, ForwardHolds, RollbackInv, RollbackHolds, Claimed, Unchanged, Restored, Conclusion, SuccessIsClean, PlainFailureIsClean, KeptIsListed
  <2> QED
    BY <2>1, <2>2, <2>3, <2>4, <2>5, <2>6, <2>7
<1> QED
  BY <1>1, <1>2, <1>3 DEF PrepareBackup

\* The parents are verified twice; nothing changes.
LEMMA VerifyParentsKeeps ==
  ASSUME Size, IndInv, VerifyParents
  PROVE  IndInv'
<1> USE DEF IndInv, Size, VerifyParents, Fail, Go, Still
<1>1. Typed'
  <2>1. FlagTypes'
    BY Zenon DEF Typed, FlagTypes
  <2>2. DiskTypes'
    BY DEF Typed, DiskTypes, ControlTypes, Contents
  <2>3. VaultTypes' /\ ItemTypes'
    BY DEF Typed, DiskTypes, VaultTypes, ItemTypes, ControlTypes, Slots, Contents, Items
  <2>4. ControlTypes'
    BY DEF Typed, ControlTypes
  <2>5. NoteTypes'
    BY DEF Typed, NoteTypes, ControlTypes, Contents, Slots
  <2> QED
    BY <2>1, <2>2, <2>3, <2>4, <2>5 DEF Typed
<1>2. PhaseInv'
  BY DEF PhaseInv
<1>3. ItemInv'
  BY DEF Typed, DiskTypes, ItemTypes, ControlTypes, NoteTypes, PhaseInv, ItemInv, ItemHolds, ForwardInv, ForwardHolds
<1>4. ForwardInv'
  BY DEF Typed, DiskTypes, ItemTypes, ControlTypes, NoteTypes, PhaseInv, ItemInv, ItemHolds, ForwardInv, ForwardHolds
<1>5. OldInv'
  BY DEF Typed, DiskTypes, ItemTypes, ControlTypes, NoteTypes, PhaseInv, ItemInv, ItemHolds, ForwardInv, ForwardHolds, OldInv, BackupOutlivesFailure, OldBytesReachable
<1>6. RollbackInv'
  BY DEF Typed, DiskTypes, ItemTypes, ControlTypes, NoteTypes, VaultTypes, PhaseInv, ItemInv, ItemHolds, ForwardInv, ForwardHolds, RollbackInv, RollbackHolds, Claimed, Unchanged, Restored, Contents, Slots
<1>7. Conclusion'
  BY DEF Typed, DiskTypes, ItemTypes, ControlTypes, NoteTypes, PhaseInv, ItemInv, ItemHolds, ForwardInv, ForwardHolds, RollbackInv, RollbackHolds, Claimed, Unchanged, Restored, Conclusion, SuccessIsClean, PlainFailureIsClean, KeptIsListed
<1> QED
  BY <1>1, <1>2, <1>3, <1>4, <1>5, <1>6, <1>7

\* The last look before the renames changes nothing.
LEMMA VerifyPrecommitKeeps ==
  ASSUME Size, IndInv, VerifyPrecommit
  PROVE  IndInv'
<1> USE DEF IndInv, Size, VerifyPrecommit, Fail, Advance, Still, precommitHolds
<1>1. Typed'
  <2>1. FlagTypes'
    BY Zenon DEF Typed, FlagTypes
  <2>2. DiskTypes'
    BY DEF Typed, DiskTypes, ControlTypes, Contents
  <2>3. VaultTypes' /\ ItemTypes'
    BY DEF Typed, DiskTypes, VaultTypes, ItemTypes, ControlTypes, Slots, Contents, Items
  <2>4. ControlTypes'
    BY DEF Typed, ControlTypes
  <2>5. NoteTypes'
    BY DEF Typed, NoteTypes, ControlTypes, Contents, Slots
  <2> QED
    BY <2>1, <2>2, <2>3, <2>4, <2>5 DEF Typed
<1>2. PhaseInv'
  BY DEF PhaseInv
<1>3. ItemInv'
  BY DEF Typed, DiskTypes, ItemTypes, ControlTypes, NoteTypes, PhaseInv, ItemInv, ItemHolds, ForwardInv, ForwardHolds
<1>4. ForwardInv'
  BY DEF Typed, DiskTypes, ItemTypes, ControlTypes, NoteTypes, PhaseInv, ItemInv, ItemHolds, ForwardInv, ForwardHolds
<1>5. OldInv'
  BY DEF Typed, DiskTypes, ItemTypes, ControlTypes, NoteTypes, PhaseInv, ItemInv, ItemHolds, ForwardInv, ForwardHolds, OldInv, BackupOutlivesFailure, OldBytesReachable
<1>6. RollbackInv'
  BY DEF Typed, DiskTypes, ItemTypes, ControlTypes, NoteTypes, VaultTypes, PhaseInv, ItemInv, ItemHolds, ForwardInv, ForwardHolds, RollbackInv, RollbackHolds, Claimed, Unchanged, Restored, Contents, Slots
<1>7. Conclusion'
  BY DEF Typed, DiskTypes, ItemTypes, ControlTypes, NoteTypes, PhaseInv, ItemInv, ItemHolds, ForwardInv, ForwardHolds, RollbackInv, RollbackHolds, Claimed, Unchanged, Restored, Conclusion, SuccessIsClean, PlainFailureIsClean, KeptIsListed
<1> QED
  BY <1>1, <1>2, <1>3, <1>4, <1>5, <1>6, <1>7

\* Two rounds of verification; the second one ends at the boundary.
LEMMA VerifyPublishedKeeps ==
  ASSUME Size, IndInv, VerifyPublished
  PROVE  IndInv'
<1> USE DEF IndInv, Size, VerifyPublished, Fail, Advance, Still, publishedHolds
<1>1. Typed'
  <2>1. FlagTypes'
    BY Zenon DEF Typed, FlagTypes
  <2>2. DiskTypes'
    BY DEF Typed, DiskTypes, ControlTypes, Contents
  <2>3. VaultTypes' /\ ItemTypes'
    BY DEF Typed, DiskTypes, VaultTypes, ItemTypes, ControlTypes, Slots, Contents, Items
  <2>4. ControlTypes'
    BY DEF Typed, ControlTypes
  <2>5. NoteTypes'
    BY DEF Typed, NoteTypes, ControlTypes, Contents, Slots
  <2> QED
    BY <2>1, <2>2, <2>3, <2>4, <2>5 DEF Typed
<1>2. PhaseInv'
  BY DEF PhaseInv
<1>3. ItemInv'
  BY DEF Typed, DiskTypes, ItemTypes, ControlTypes, NoteTypes, PhaseInv, ItemInv, ItemHolds, ForwardInv, ForwardHolds
<1>4. ForwardInv'
  BY DEF Typed, DiskTypes, ItemTypes, ControlTypes, NoteTypes, PhaseInv, ItemInv, ItemHolds, ForwardInv, ForwardHolds
<1>5. OldInv'
  BY DEF Typed, DiskTypes, ItemTypes, ControlTypes, NoteTypes, PhaseInv, ItemInv, ItemHolds, ForwardInv, ForwardHolds, OldInv, BackupOutlivesFailure, OldBytesReachable
<1>6. RollbackInv'
  BY DEF Typed, DiskTypes, ItemTypes, ControlTypes, NoteTypes, VaultTypes, PhaseInv, ItemInv, ItemHolds, ForwardInv, ForwardHolds, RollbackInv, RollbackHolds, Claimed, Unchanged, Restored, Contents, Slots
<1>7. Conclusion'
  BY DEF Typed, DiskTypes, ItemTypes, ControlTypes, NoteTypes, PhaseInv, ItemInv, ItemHolds, ForwardInv, ForwardHolds, RollbackInv, RollbackHolds, Claimed, Unchanged, Restored, Conclusion, SuccessIsClean, PlainFailureIsClean, KeptIsListed
<1> QED
  BY <1>1, <1>2, <1>3, <1>4, <1>5, <1>6, <1>7

\* A rename that raised is recorded as what the two names show.
LEMMA ReplaceNameKeeps ==
  ASSUME Size, IndInv, ReplaceName
  PROVE  IndInv'
<1> PICK happens \in BOOLEAN, raises \in BOOLEAN :
      /\ happens \/ raises
      /\ happens => stage[cur] # None
      /\ IF happens
           THEN /\ dest' = [dest EXCEPT ![cur] = stage[cur]]
                /\ stage' = [stage EXCEPT ![cur] = None]
           ELSE UNCHANGED <<dest, stage>>
      /\ \E renamed \in SeenAs(dest'[cur]), staged \in SeenAs(stage'[cur]) :
           LET found == IF renamed THEN "yes" ELSE IF staged THEN "no" ELSE "unknown"
           IN item' = [item EXCEPT ![cur].committed = IF raises THEN found ELSE "yes"]
      /\ IF raises THEN Fail("plain") ELSE Advance("commit", "synced")
  BY DEF ReplaceName
<1> PICK renamed \in SeenAs(dest'[cur]), staged \in SeenAs(stage'[cur]) :
      item' = [item EXCEPT ![cur].committed =
                 IF ~raises \/ renamed THEN "yes" ELSE IF staged THEN "no" ELSE "unknown"]
  BY Zenon
<1>s. (renamed => dest'[cur] = "new") /\ (staged => stage'[cur] = "new")
  BY DEF SeenAs
<1>0. pc = "commit" /\ UNCHANGED <<backup, vault, newDir, history>>
  BY DEF ReplaceName
<1> HIDE DEF ReplaceName
<1> DEFINE state == IF ~raises \/ renamed THEN "yes" ELSE IF staged THEN "no" ELSE "unknown"
<1>a. /\ ItemTypes' /\ \A i \in Files \ {cur} : item'[i] = item[i]
      /\ item'[cur].committed = state /\ item'[cur].original = item[cur].original
      /\ item'[cur].stage = item[cur].stage /\ item'[cur].backup = item[cur].backup
  <2>1. item' = [item EXCEPT ![cur].committed = state]
    OBVIOUS
  <2>2. state \in {"no", "yes", "unknown"}
    OBVIOUS
  <2> QED
    BY <2>1, <2>2, SetCommitted DEF IndInv
<1>b. /\ pc = "commit" /\ cur \in Files
      /\ UNCHANGED <<backup, vault, newDir, history, complete, issue, lost, named, listed, result, paths>>
      /\ \/ /\ state = "yes" /\ cause' = cause /\ stage'[cur] = None
            /\ \/ cur < Last /\ pc' = "commit" /\ cur' = cur + 1
               \/ cur = Last /\ pc' = "synced" /\ cur' = 1
         \/ /\ pc' = "rollback" /\ cur' = Last /\ cause' = "plain"
            /\ state = "no" => dest'[cur] = dest[cur]
            /\ state = "yes" => dest'[cur] = "new" /\ (stage'[cur] = None \/ dest[cur] = "new")
      /\ state \in {"no", "yes", "unknown"}
  <2>1. cur \in Files /\ dest \in [Files -> Contents \cup {None}] /\ stage \in [Files -> Contents \cup {None}]
    BY DEF IndInv, Typed, ControlTypes, DiskTypes, Size
  <2>2. CASE ~raises
    BY <1>0, <2>1, <2>2 DEF Advance, Size, IndInv, Typed, ControlTypes
  <2>3. CASE raises
    BY <1>0, <1>s, <2>1, <2>3 DEF Fail
  <2> QED
    BY <2>2, <2>3
<1>e. /\ DiskTypes'
      /\ \A i \in Files \ {cur} : dest'[i] = dest[i] /\ stage'[i] = stage[i]
  BY <1>b DEF IndInv, Typed, DiskTypes, Contents
<1>c. ~issue /\ pc # "end" /\ item[cur].committed = "no"
  BY <1>b DEF IndInv, PhaseInv, ForwardInv, ForwardHolds, Typed, ControlTypes
<1>d. dest[cur] # "new"
  BY <1>b, <1>c DEF IndInv, RollbackInv, RollbackHolds, Unchanged
<1> HIDE DEF state
<1> USE <1>a, <1>b, <1>d, <1>e DEF IndInv, Size
<1>1. Typed'
  <2>1. FlagTypes'
    BY Zenon DEF Typed, FlagTypes
  <2>2. DiskTypes'
    BY DEF Typed, DiskTypes, ControlTypes, Contents
  <2>3. VaultTypes' /\ ItemTypes'
    BY DEF Typed, DiskTypes, VaultTypes, ItemTypes, ControlTypes, Slots, Contents, Items
  <2>4. ControlTypes'
    BY DEF Typed, ControlTypes
  <2>5. NoteTypes'
    BY DEF Typed, NoteTypes, ControlTypes, Contents, Slots
  <2> QED
    BY <2>1, <2>2, <2>3, <2>4, <2>5 DEF Typed
<1>2. PhaseInv'
  BY DEF PhaseInv
<1>3. ItemInv'
  <2> SUFFICES ASSUME NEW i \in Files PROVE ItemHolds(i)'
    BY DEF ItemInv
  <2>1. CASE i = cur
    BY <2>1 DEF Typed, DiskTypes, ItemTypes, ControlTypes, NoteTypes, PhaseInv, ItemInv, ItemHolds, ForwardInv, ForwardHolds
  <2>2. CASE i # cur
    BY <2>2 DEF Typed, DiskTypes, ItemTypes, ControlTypes, NoteTypes, PhaseInv, ItemInv, ItemHolds, ForwardInv, ForwardHolds
  <2> QED
    BY <2>1, <2>2
<1>4. ForwardInv'
  <2> SUFFICES ASSUME NEW i \in Files PROVE ForwardHolds(i)'
    BY DEF ForwardInv
  <2>1. CASE i = cur
    BY <2>1 DEF Typed, DiskTypes, ItemTypes, ControlTypes, NoteTypes, PhaseInv, ItemInv, ItemHolds, ForwardInv, ForwardHolds
  <2>2. CASE i # cur
    BY <2>2 DEF Typed, DiskTypes, ItemTypes, ControlTypes, NoteTypes, PhaseInv, ItemInv, ItemHolds, ForwardInv, ForwardHolds
  <2> QED
    BY <2>1, <2>2
<1>5. OldInv'
  <2> SUFFICES ASSUME NEW i \in Files, ~complete', i \notin meddled'
               PROVE  /\ HasBackup(i)' => backup'[i] = "copy"
                      /\ item'[i].original /\ i \notin touched'
                           => dest'[i] \in {"old", "copy"} \/ backup'[i] = "copy"
    BY DEF OldInv, BackupOutlivesFailure, OldBytesReachable
  <2>1. CASE i = cur
    BY <2>1 DEF Typed, DiskTypes, ItemTypes, ControlTypes, NoteTypes, PhaseInv, ItemInv, ItemHolds, ForwardInv, ForwardHolds, OldInv, BackupOutlivesFailure, OldBytesReachable
  <2>2. CASE i # cur
    BY <2>2 DEF Typed, DiskTypes, ItemTypes, ControlTypes, NoteTypes, PhaseInv, ItemInv, ItemHolds, ForwardInv, ForwardHolds, OldInv, BackupOutlivesFailure, OldBytesReachable
  <2> QED
    BY <2>1, <2>2
<1>6. RollbackInv'
  BY DEF Typed, DiskTypes, ItemTypes, ControlTypes, NoteTypes, VaultTypes, PhaseInv, ItemInv, ItemHolds, ForwardInv, ForwardHolds, RollbackInv, RollbackHolds, Claimed, Unchanged, Restored, Contents, Slots
<1>7. Conclusion'
  BY DEF Typed, DiskTypes, ItemTypes, ControlTypes, NoteTypes, PhaseInv, ItemInv, ItemHolds, ForwardInv, ForwardHolds, RollbackInv, RollbackHolds, Claimed, Unchanged, Restored, Conclusion, SuccessIsClean, PlainFailureIsClean, KeptIsListed
<1> QED
  BY <1>1, <1>2, <1>3, <1>4, <1>5, <1>6, <1>7

\* Past the boundary a failed verification goes to the audit.
LEMMA VerifyBackupsKeeps ==
  ASSUME Size, IndInv, VerifyBackups
  PROVE  IndInv'
<1>1. CASE Advance("verify", "clean")
  <2>a. pc = "verify" /\ Still /\ UNCHANGED item
    BY DEF VerifyBackups
  <2> USE <1>1, <2>a DEF IndInv, Size, Advance, Still
  <2>1. Typed'
    <3>1. FlagTypes'
      BY Zenon DEF Typed, FlagTypes
    <3>2. DiskTypes'
      BY DEF Typed, DiskTypes, ControlTypes, Contents
    <3>3. VaultTypes' /\ ItemTypes'
      BY DEF Typed, DiskTypes, VaultTypes, ItemTypes, ControlTypes, Slots, Contents, Items
    <3>4. ControlTypes'
      BY DEF Typed, ControlTypes
    <3>5. NoteTypes'
      BY DEF Typed, NoteTypes, ControlTypes, Contents, Slots
    <3> QED
      BY <3>1, <3>2, <3>3, <3>4, <3>5 DEF Typed
  <2>2. PhaseInv'
    BY DEF PhaseInv
  <2>3. ItemInv'
    BY DEF Typed, DiskTypes, ItemTypes, ControlTypes, NoteTypes, PhaseInv, ItemInv, ItemHolds, ForwardInv, ForwardHolds
  <2>4. ForwardInv'
    <3> SUFFICES ASSUME NEW i \in Files PROVE ForwardHolds(i)'
      BY DEF ForwardInv
    <3>1. CASE i = cur
      BY <3>1 DEF Typed, DiskTypes, ItemTypes, ControlTypes, NoteTypes, PhaseInv, ItemInv, ItemHolds, ForwardInv, ForwardHolds
    <3>2. CASE i # cur
      BY <3>2 DEF Typed, DiskTypes, ItemTypes, ControlTypes, NoteTypes, PhaseInv, ItemInv, ItemHolds, ForwardInv, ForwardHolds
    <3> QED
      BY <3>1, <3>2
  <2>5. OldInv'
    BY DEF Typed, DiskTypes, ItemTypes, ControlTypes, NoteTypes, PhaseInv, ItemInv, ItemHolds, ForwardInv, ForwardHolds, OldInv, BackupOutlivesFailure, OldBytesReachable
  <2>6. RollbackInv'
    BY DEF Typed, DiskTypes, ItemTypes, ControlTypes, NoteTypes, VaultTypes, PhaseInv, ItemInv, ItemHolds, ForwardInv, ForwardHolds, RollbackInv, RollbackHolds, Claimed, Unchanged, Restored, Contents, Slots
  <2>7. Conclusion'
    BY DEF Typed, DiskTypes, ItemTypes, ControlTypes, NoteTypes, PhaseInv, ItemInv, ItemHolds, ForwardInv, ForwardHolds, RollbackInv, RollbackHolds, Claimed, Unchanged, Restored, Conclusion, SuccessIsClean, PlainFailureIsClean, KeptIsListed
  <2> QED
    BY <2>1, <2>2, <2>3, <2>4, <2>5, <2>6, <2>7
<1>2. CASE pc' = "audit" /\ issue' = TRUE /\ UNCHANGED <<cur, lost>> /\ CompletePlain
  <2>a. pc = "verify" /\ Still /\ UNCHANGED item
    BY DEF VerifyBackups
  <2> USE <1>2, <2>a DEF IndInv, Size, Still, CompletePlain
  <2>1. Typed'
    <3>1. FlagTypes'
      BY Zenon DEF Typed, FlagTypes
    <3>2. DiskTypes'
      BY DEF Typed, DiskTypes, ControlTypes, Contents
    <3>3. VaultTypes' /\ ItemTypes'
      BY DEF Typed, DiskTypes, VaultTypes, ItemTypes, ControlTypes, Slots, Contents, Items
    <3>4. ControlTypes'
      BY DEF Typed, ControlTypes
    <3>5. NoteTypes'
      BY DEF Typed, NoteTypes, ControlTypes, Contents, Slots
    <3> QED
      BY <3>1, <3>2, <3>3, <3>4, <3>5 DEF Typed
  <2>2. PhaseInv'
    BY DEF PhaseInv
  <2>3. ItemInv'
    BY DEF Typed, DiskTypes, ItemTypes, ControlTypes, NoteTypes, PhaseInv, ItemInv, ItemHolds, ForwardInv, ForwardHolds
  <2>4. ForwardInv'
    BY DEF Typed, DiskTypes, ItemTypes, ControlTypes, NoteTypes, PhaseInv, ItemInv, ItemHolds, ForwardInv, ForwardHolds
  <2>5. OldInv'
    BY DEF Typed, DiskTypes, ItemTypes, ControlTypes, NoteTypes, PhaseInv, ItemInv, ItemHolds, ForwardInv, ForwardHolds, OldInv, BackupOutlivesFailure, OldBytesReachable
  <2>6. RollbackInv'
    BY DEF Typed, DiskTypes, ItemTypes, ControlTypes, NoteTypes, VaultTypes, PhaseInv, ItemInv, ItemHolds, ForwardInv, ForwardHolds, RollbackInv, RollbackHolds, Claimed, Unchanged, Restored, Contents, Slots
  <2>7. Conclusion'
    BY DEF Typed, DiskTypes, ItemTypes, ControlTypes, NoteTypes, PhaseInv, ItemInv, ItemHolds, ForwardInv, ForwardHolds, RollbackInv, RollbackHolds, Claimed, Unchanged, Restored, Conclusion, SuccessIsClean, PlainFailureIsClean, KeptIsListed
  <2> QED
    BY <2>1, <2>2, <2>3, <2>4, <2>5, <2>6, <2>7
<1> QED
  BY <1>1, <1>2 DEF VerifyBackups

\* A backup is dropped only when the generation is complete.
LEMMA CleanBackupKeeps ==
  ASSUME Size, IndInv, CleanBackup
  PROVE  IndInv'
<1>1. CASE ~HasBackup(cur) /\ Advance("clean", "cleansync") /\ Still /\ UNCHANGED item
  <2>a. pc = "clean"
    BY DEF CleanBackup
  <2> USE <1>1, <2>a DEF IndInv, Size, Advance, Still
  <2>1. Typed'
    <3>1. FlagTypes'
      BY Zenon DEF Typed, FlagTypes
    <3>2. DiskTypes'
      BY DEF Typed, DiskTypes, ControlTypes, Contents
    <3>3. VaultTypes' /\ ItemTypes'
      BY DEF Typed, DiskTypes, VaultTypes, ItemTypes, ControlTypes, Slots, Contents, Items
    <3>4. ControlTypes'
      BY DEF Typed, ControlTypes
    <3>5. NoteTypes'
      BY DEF Typed, NoteTypes, ControlTypes, Contents, Slots
    <3> QED
      BY <3>1, <3>2, <3>3, <3>4, <3>5 DEF Typed
  <2>2. PhaseInv'
    BY DEF PhaseInv
  <2>3. ItemInv'
    BY DEF Typed, DiskTypes, ItemTypes, ControlTypes, NoteTypes, PhaseInv, ItemInv, ItemHolds, ForwardInv, ForwardHolds
  <2>4. ForwardInv'
    <3> SUFFICES ASSUME NEW i \in Files PROVE ForwardHolds(i)'
      BY DEF ForwardInv
    <3>1. CASE i = cur
      BY <3>1 DEF Typed, DiskTypes, ItemTypes, ControlTypes, NoteTypes, PhaseInv, ItemInv, ItemHolds, ForwardInv, ForwardHolds
    <3>2. CASE i # cur
      BY <3>2 DEF Typed, DiskTypes, ItemTypes, ControlTypes, NoteTypes, PhaseInv, ItemInv, ItemHolds, ForwardInv, ForwardHolds
    <3> QED
      BY <3>1, <3>2
  <2>5. OldInv'
    BY DEF Typed, DiskTypes, ItemTypes, ControlTypes, NoteTypes, PhaseInv, ItemInv, ItemHolds, ForwardInv, ForwardHolds, OldInv, BackupOutlivesFailure, OldBytesReachable
  <2>6. RollbackInv'
    BY DEF Typed, DiskTypes, ItemTypes, ControlTypes, NoteTypes, VaultTypes, PhaseInv, ItemInv, ItemHolds, ForwardInv, ForwardHolds, RollbackInv, RollbackHolds, Claimed, Unchanged, Restored, Contents, Slots
  <2>7. Conclusion'
    BY DEF Typed, DiskTypes, ItemTypes, ControlTypes, NoteTypes, PhaseInv, ItemInv, ItemHolds, ForwardInv, ForwardHolds, RollbackInv, RollbackHolds, Claimed, Unchanged, Restored, Conclusion, SuccessIsClean, PlainFailureIsClean, KeptIsListed
  <2> QED
    BY <2>1, <2>2, <2>3, <2>4, <2>5, <2>6, <2>7
<1>2. CASE HasBackup(cur)
  <2> PICK r \in Removal("copy", backup[cur]), verified \in BOOLEAN :
        /\ backup' = [backup EXCEPT ![cur] = r.name]
        /\ Keep(cur, "backup", r)
        /\ issue' = (issue \/ Unfinished(r) \/ ~verified)
        /\ lost' = (lost \/ r.lost)
    BY <1>2 DEF CleanBackup
  <2>a. /\ r.name \in {backup[cur], None} /\ r.kept \in {backup[cur], None} /\ r.lost \in BOOLEAN
        /\ ~Unfinished(r) => r.name = None /\ r.kept = None
        /\ r.kept # None => r.name = None
    BY Removing
  <2>b. cur \in Files /\ backup[cur] \in Contents \cup {None}
    BY DEF IndInv, Typed, ControlTypes, DiskTypes, Size
  <2>c. /\ VaultTypes' /\ \A i \in Files \ {cur} : vault'[i] = vault[i]
        /\ r.kept = None => vault'[cur] = vault[cur]
        /\ r.kept # None => vault'[cur] = vault[cur] \cup {<<"backup", r.kept>>}
    BY <2>a, <2>b, Keeping DEF IndInv, Slots
  <2>f. /\ pc = "clean" /\ HasBackup(cur) /\ CompletePlain
        /\ UNCHANGED <<dest, stage, newDir, history, item>>
        /\ \/ cur < Last /\ pc' = "clean" /\ cur' = cur + 1
           \/ cur = Last /\ pc' = "cleansync" /\ cur' = 1
    BY <1>2 DEF CleanBackup, IndInv, Typed, ControlTypes, Size
  <2>d. /\ DiskTypes' /\ backup'[cur] = r.name
        /\ \A i \in Files \ {cur} : backup'[i] = backup[i]
    BY <2>a, <2>b, <2>f DEF IndInv, Typed, DiskTypes
  <2>e. /\ issue' \in BOOLEAN /\ lost' \in BOOLEAN
        /\ ~issue' => ~issue /\ ~Unfinished(r)
    BY <2>a, Zenon DEF IndInv, Typed, FlagTypes
  <2> USE <2>a, <2>b, <2>c, <2>d, <2>e, <2>f DEF IndInv, Size, CompletePlain
  <2>1. Typed'
    <3>1. FlagTypes'
      BY Zenon DEF Typed, FlagTypes
    <3>2. DiskTypes'
      BY DEF Typed, DiskTypes, ControlTypes, Contents
    <3>3. VaultTypes' /\ ItemTypes'
      BY DEF Typed, DiskTypes, VaultTypes, ItemTypes, ControlTypes, Slots, Contents, Items
    <3>4. ControlTypes'
      BY DEF Typed, ControlTypes
    <3>5. NoteTypes'
      BY DEF Typed, NoteTypes, ControlTypes, Contents, Slots
    <3> QED
      BY <3>1, <3>2, <3>3, <3>4, <3>5 DEF Typed
  <2>2. PhaseInv'
    BY DEF PhaseInv
  <2>3. ItemInv'
    <3> SUFFICES ASSUME NEW i \in Files PROVE ItemHolds(i)'
      BY DEF ItemInv
    <3>1. CASE i = cur
      BY <3>1 DEF Typed, DiskTypes, ItemTypes, ControlTypes, NoteTypes, PhaseInv, ItemInv, ItemHolds, ForwardInv, ForwardHolds
    <3>2. CASE i # cur
      BY <3>2 DEF Typed, DiskTypes, ItemTypes, ControlTypes, NoteTypes, PhaseInv, ItemInv, ItemHolds, ForwardInv, ForwardHolds
    <3> QED
      BY <3>1, <3>2
  <2>4. ForwardInv'
    <3> SUFFICES ASSUME NEW i \in Files PROVE ForwardHolds(i)'
      BY DEF ForwardInv
    <3>1. CASE i = cur
      BY <3>1 DEF Typed, DiskTypes, ItemTypes, ControlTypes, NoteTypes, PhaseInv, ItemInv, ItemHolds, ForwardInv, ForwardHolds
    <3>2. CASE i # cur
      BY <3>2 DEF Typed, DiskTypes, ItemTypes, ControlTypes, NoteTypes, PhaseInv, ItemInv, ItemHolds, ForwardInv, ForwardHolds
    <3> QED
      BY <3>1, <3>2
  <2>5. OldInv'
    <3> SUFFICES ASSUME NEW i \in Files, ~complete', i \notin meddled'
                 PROVE  /\ HasBackup(i)' => backup'[i] = "copy"
                        /\ item'[i].original /\ i \notin touched'
                             => dest'[i] \in {"old", "copy"} \/ backup'[i] = "copy"
      BY DEF OldInv, BackupOutlivesFailure, OldBytesReachable
    <3>1. CASE i = cur
      BY <3>1 DEF Typed, DiskTypes, ItemTypes, ControlTypes, NoteTypes, PhaseInv, ItemInv, ItemHolds, ForwardInv, ForwardHolds, OldInv, BackupOutlivesFailure, OldBytesReachable
    <3>2. CASE i # cur
      BY <3>2 DEF Typed, DiskTypes, ItemTypes, ControlTypes, NoteTypes, PhaseInv, ItemInv, ItemHolds, ForwardInv, ForwardHolds, OldInv, BackupOutlivesFailure, OldBytesReachable
    <3> QED
      BY <3>1, <3>2
  <2>6. RollbackInv'
    BY DEF Typed, DiskTypes, ItemTypes, ControlTypes, NoteTypes, VaultTypes, PhaseInv, ItemInv, ItemHolds, ForwardInv, ForwardHolds, RollbackInv, RollbackHolds, Claimed, Unchanged, Restored, Contents, Slots
  <2>7. Conclusion'
    BY DEF Typed, DiskTypes, ItemTypes, ControlTypes, NoteTypes, PhaseInv, ItemInv, ItemHolds, ForwardInv, ForwardHolds, RollbackInv, RollbackHolds, Claimed, Unchanged, Restored, Conclusion, SuccessIsClean, PlainFailureIsClean, KeptIsListed
  <2> QED
    BY <2>1, <2>2, <2>3, <2>4, <2>5, <2>6, <2>7
<1> QED
  BY <1>1, <1>2 DEF CleanBackup

\* Success is reported only when no cleanup left an issue.
LEMMA CleanSyncKeeps ==
  ASSUME Size, IndInv, CleanSync
  PROVE  IndInv'
<1>1. CASE ~issue /\ pc' = "end" /\ result' = "ok" /\ UNCHANGED <<cur, complete, cause, issue, lost, named, listed, paths>>
  <2>a. pc = "cleansync" /\ Still /\ UNCHANGED item
    BY DEF CleanSync
  <2> USE <1>1, <2>a DEF IndInv, Size, Still
  <2>1. Typed'
    <3>1. FlagTypes'
      BY Zenon DEF Typed, FlagTypes
    <3>2. DiskTypes'
      BY DEF Typed, DiskTypes, ControlTypes, Contents
    <3>3. VaultTypes' /\ ItemTypes'
      BY DEF Typed, DiskTypes, VaultTypes, ItemTypes, ControlTypes, Slots, Contents, Items
    <3>4. ControlTypes'
      BY DEF Typed, ControlTypes
    <3>5. NoteTypes'
      BY DEF Typed, NoteTypes, ControlTypes, Contents, Slots
    <3> QED
      BY <3>1, <3>2, <3>3, <3>4, <3>5 DEF Typed
  <2>2. PhaseInv'
    BY DEF PhaseInv
  <2>3. ItemInv'
    BY DEF Typed, DiskTypes, ItemTypes, ControlTypes, NoteTypes, PhaseInv, ItemInv, ItemHolds, ForwardInv, ForwardHolds
  <2>4. ForwardInv'
    BY DEF Typed, DiskTypes, ItemTypes, ControlTypes, NoteTypes, PhaseInv, ItemInv, ItemHolds, ForwardInv, ForwardHolds
  <2>5. OldInv'
    BY DEF Typed, DiskTypes, ItemTypes, ControlTypes, NoteTypes, PhaseInv, ItemInv, ItemHolds, ForwardInv, ForwardHolds, OldInv, BackupOutlivesFailure, OldBytesReachable
  <2>6. RollbackInv'
    BY DEF Typed, DiskTypes, ItemTypes, ControlTypes, NoteTypes, VaultTypes, PhaseInv, ItemInv, ItemHolds, ForwardInv, ForwardHolds, RollbackInv, RollbackHolds, Claimed, Unchanged, Restored, Contents, Slots
  <2>7. Conclusion'
    BY DEF Typed, DiskTypes, ItemTypes, ControlTypes, NoteTypes, PhaseInv, ItemInv, ItemHolds, ForwardInv, ForwardHolds, RollbackInv, RollbackHolds, Claimed, Unchanged, Restored, Conclusion, SuccessIsClean, PlainFailureIsClean, KeptIsListed
  <2> QED
    BY <2>1, <2>2, <2>3, <2>4, <2>5, <2>6, <2>7
<1>2. CASE pc' = "audit" /\ issue' = TRUE /\ UNCHANGED <<cur, lost>> /\ CompletePlain
  <2>a. pc = "cleansync" /\ Still /\ UNCHANGED item
    BY DEF CleanSync
  <2> USE <1>2, <2>a DEF IndInv, Size, Still, CompletePlain
  <2>1. Typed'
    <3>1. FlagTypes'
      BY Zenon DEF Typed, FlagTypes
    <3>2. DiskTypes'
      BY DEF Typed, DiskTypes, ControlTypes, Contents
    <3>3. VaultTypes' /\ ItemTypes'
      BY DEF Typed, DiskTypes, VaultTypes, ItemTypes, ControlTypes, Slots, Contents, Items
    <3>4. ControlTypes'
      BY DEF Typed, ControlTypes
    <3>5. NoteTypes'
      BY DEF Typed, NoteTypes, ControlTypes, Contents, Slots
    <3> QED
      BY <3>1, <3>2, <3>3, <3>4, <3>5 DEF Typed
  <2>2. PhaseInv'
    BY DEF PhaseInv
  <2>3. ItemInv'
    BY DEF Typed, DiskTypes, ItemTypes, ControlTypes, NoteTypes, PhaseInv, ItemInv, ItemHolds, ForwardInv, ForwardHolds
  <2>4. ForwardInv'
    BY DEF Typed, DiskTypes, ItemTypes, ControlTypes, NoteTypes, PhaseInv, ItemInv, ItemHolds, ForwardInv, ForwardHolds
  <2>5. OldInv'
    BY DEF Typed, DiskTypes, ItemTypes, ControlTypes, NoteTypes, PhaseInv, ItemInv, ItemHolds, ForwardInv, ForwardHolds, OldInv, BackupOutlivesFailure, OldBytesReachable
  <2>6. RollbackInv'
    BY DEF Typed, DiskTypes, ItemTypes, ControlTypes, NoteTypes, VaultTypes, PhaseInv, ItemInv, ItemHolds, ForwardInv, ForwardHolds, RollbackInv, RollbackHolds, Claimed, Unchanged, Restored, Contents, Slots
  <2>7. Conclusion'
    BY DEF Typed, DiskTypes, ItemTypes, ControlTypes, NoteTypes, PhaseInv, ItemInv, ItemHolds, ForwardInv, ForwardHolds, RollbackInv, RollbackHolds, Claimed, Unchanged, Restored, Conclusion, SuccessIsClean, PlainFailureIsClean, KeptIsListed
  <2> QED
    BY <2>1, <2>2, <2>3, <2>4, <2>5, <2>6, <2>7
<1> QED
  BY <1>1, <1>2 DEF CleanSync

\* The audit lists every quarantine and backup that is still there.
LEMMA AuditBackupsKeeps ==
  ASSUME Size, IndInv, AuditBackups
  PROVE  IndInv'
<1> USE DEF IndInv, Size, Still
<1> PICK seen \in SUBSET { i \in Files : HasBackup(i) /\ backup[i] = "copy" }, unbound \in BOOLEAN :
      /\ lost' = (lost \/ unbound)
      /\ paths' = IF lost' THEN {} ELSE Vaulted \cup (seen \X {"backup"})
  BY DEF AuditBackups
<1>a. /\ pc = "audit" /\ pc' = "end" /\ result' = "cleanup"
      /\ UNCHANGED <<cur, complete, cause, issue, named, listed>> /\ Still /\ UNCHANGED item
  BY DEF AuditBackups
<1>b. lost' \in BOOLEAN
  BY Zenon DEF Typed, FlagTypes
<1>c. paths' \subseteq Files \X Slots
  BY DEF Vaulted, Slots
<1> USE <1>a, <1>b, <1>c
<1>1. Typed'
  <2>1. FlagTypes'
    BY Zenon DEF Typed, FlagTypes
  <2>2. DiskTypes'
    BY DEF Typed, DiskTypes, ControlTypes, Contents
  <2>3. VaultTypes' /\ ItemTypes'
    BY DEF Typed, DiskTypes, VaultTypes, ItemTypes, ControlTypes, Slots, Contents, Items
  <2>4. ControlTypes'
    BY DEF Typed, ControlTypes
  <2>5. NoteTypes'
    BY DEF Typed, NoteTypes, ControlTypes, Contents, Slots
  <2> QED
    BY <2>1, <2>2, <2>3, <2>4, <2>5 DEF Typed
<1>2. PhaseInv'
  BY DEF PhaseInv
<1>3. ItemInv'
  BY DEF Typed, DiskTypes, ItemTypes, ControlTypes, NoteTypes, PhaseInv, ItemInv, ItemHolds, ForwardInv, ForwardHolds
<1>4. ForwardInv'
  BY DEF Typed, DiskTypes, ItemTypes, ControlTypes, NoteTypes, PhaseInv, ItemInv, ItemHolds, ForwardInv, ForwardHolds
<1>5. OldInv'
  BY DEF Typed, DiskTypes, ItemTypes, ControlTypes, NoteTypes, PhaseInv, ItemInv, ItemHolds, ForwardInv, ForwardHolds, OldInv, BackupOutlivesFailure, OldBytesReachable
<1>6. RollbackInv'
  BY DEF Typed, DiskTypes, ItemTypes, ControlTypes, NoteTypes, VaultTypes, PhaseInv, ItemInv, ItemHolds, ForwardInv, ForwardHolds, RollbackInv, RollbackHolds, Claimed, Unchanged, Restored, Contents, Slots
<1>7. Conclusion'
  BY DEF Typed, DiskTypes, ItemTypes, ControlTypes, NoteTypes, PhaseInv, ItemInv, ItemHolds, ForwardInv, ForwardHolds, RollbackInv, RollbackHolds, Claimed, Unchanged, Restored, Conclusion, SuccessIsClean, PlainFailureIsClean, KeptIsListed
<1> QED
  BY <1>1, <1>2, <1>3, <1>4, <1>5, <1>6, <1>7

\* A file without a stage has nothing to undo.
LEMMA SkipUnstagedKeeps ==
  ASSUME Size, IndInv, SkipUnstaged
  PROVE  IndInv'
<1> USE DEF IndInv, Size, SkipUnstaged, Down, Quiet, Still
<1>1. Typed'
  <2>1. FlagTypes'
    BY Zenon DEF Typed, FlagTypes
  <2>2. DiskTypes'
    BY DEF Typed, DiskTypes, ControlTypes, Contents
  <2>3. VaultTypes' /\ ItemTypes'
    BY DEF Typed, DiskTypes, VaultTypes, ItemTypes, ControlTypes, Slots, Contents, Items
  <2>4. ControlTypes'
    BY DEF Typed, ControlTypes
  <2>5. NoteTypes'
    BY DEF Typed, NoteTypes, ControlTypes, Contents, Slots
  <2> QED
    BY <2>1, <2>2, <2>3, <2>4, <2>5 DEF Typed
<1>2. PhaseInv'
  BY DEF PhaseInv
<1>3. ItemInv'
  BY DEF Typed, DiskTypes, ItemTypes, ControlTypes, NoteTypes, PhaseInv, ItemInv, ItemHolds, ForwardInv, ForwardHolds
<1>4. ForwardInv'
  BY DEF Typed, DiskTypes, ItemTypes, ControlTypes, NoteTypes, PhaseInv, ItemInv, ItemHolds, ForwardInv, ForwardHolds
<1>5. OldInv'
  BY DEF Typed, DiskTypes, ItemTypes, ControlTypes, NoteTypes, PhaseInv, ItemInv, ItemHolds, ForwardInv, ForwardHolds, OldInv, BackupOutlivesFailure, OldBytesReachable
<1>6. RollbackInv'
  BY DEF Typed, DiskTypes, ItemTypes, ControlTypes, NoteTypes, VaultTypes, PhaseInv, ItemInv, ItemHolds, ForwardInv, ForwardHolds, RollbackInv, RollbackHolds, Claimed, Unchanged, Restored, Contents, Slots
<1>7. Conclusion'
  BY DEF Typed, DiskTypes, ItemTypes, ControlTypes, NoteTypes, PhaseInv, ItemInv, ItemHolds, ForwardInv, ForwardHolds, RollbackInv, RollbackHolds, Claimed, Unchanged, Restored, Conclusion, SuccessIsClean, PlainFailureIsClean, KeptIsListed
<1> QED
  BY <1>1, <1>2, <1>3, <1>4, <1>5, <1>6, <1>7

\* A stage whose close was uncertain stays, and that is an issue.
LEMMA KeepUncertainKeeps ==
  ASSUME Size, IndInv, KeepUncertain
  PROVE  IndInv'
<1> USE DEF IndInv, Size, KeepUncertain, Down, Quiet, Still
<1>1. Typed'
  <2>1. FlagTypes'
    BY Zenon DEF Typed, FlagTypes
  <2>2. DiskTypes'
    BY DEF Typed, DiskTypes, ControlTypes, Contents
  <2>3. VaultTypes' /\ ItemTypes'
    BY DEF Typed, DiskTypes, VaultTypes, ItemTypes, ControlTypes, Slots, Contents, Items
  <2>4. ControlTypes'
    BY DEF Typed, ControlTypes
  <2>5. NoteTypes'
    BY DEF Typed, NoteTypes, ControlTypes, Contents, Slots
  <2> QED
    BY <2>1, <2>2, <2>3, <2>4, <2>5 DEF Typed
<1>2. PhaseInv'
  BY DEF PhaseInv
<1>3. ItemInv'
  BY DEF Typed, DiskTypes, ItemTypes, ControlTypes, NoteTypes, PhaseInv, ItemInv, ItemHolds, ForwardInv, ForwardHolds
<1>4. ForwardInv'
  BY DEF Typed, DiskTypes, ItemTypes, ControlTypes, NoteTypes, PhaseInv, ItemInv, ItemHolds, ForwardInv, ForwardHolds
<1>5. OldInv'
  BY DEF Typed, DiskTypes, ItemTypes, ControlTypes, NoteTypes, PhaseInv, ItemInv, ItemHolds, ForwardInv, ForwardHolds, OldInv, BackupOutlivesFailure, OldBytesReachable
<1>6. RollbackInv'
  BY DEF Typed, DiskTypes, ItemTypes, ControlTypes, NoteTypes, VaultTypes, PhaseInv, ItemInv, ItemHolds, ForwardInv, ForwardHolds, RollbackInv, RollbackHolds, Claimed, Unchanged, Restored, Contents, Slots
<1>7. Conclusion'
  BY DEF Typed, DiskTypes, ItemTypes, ControlTypes, NoteTypes, PhaseInv, ItemInv, ItemHolds, ForwardInv, ForwardHolds, RollbackInv, RollbackHolds, Claimed, Unchanged, Restored, Conclusion, SuccessIsClean, PlainFailureIsClean, KeptIsListed
<1> QED
  BY <1>1, <1>2, <1>3, <1>4, <1>5, <1>6, <1>7

\* The stage of a file that was not committed is removed, or that is an issue.
LEMMA RollbackStageKeeps ==
  ASSUME Size, IndInv, RollbackStage
  PROVE  IndInv'
<1> PICK r \in Removal("new", stage[cur]), synced \in BOOLEAN :
      /\ stage' = [stage EXCEPT ![cur] = r.name]
      /\ Keep(cur, "stage", r)
      /\ issue' = (issue \/ item[cur].committed = "unknown" \/ Unfinished(r) \/ ~synced)
      /\ lost' = (lost \/ r.lost)
      /\ IF r.answer = "kept" THEN Down ELSE pc' = "restore" /\ UNCHANGED cur
  BY DEF RollbackStage
<1>a. /\ r.name \in {stage[cur], None} /\ r.kept \in {stage[cur], None} /\ r.lost \in BOOLEAN
      /\ ~Unfinished(r) => r.name = None /\ r.kept = None
      /\ r.kept # None => r.name = None
  BY Removing
<1>b. cur \in Files /\ stage[cur] \in Contents \cup {None}
  BY DEF IndInv, Typed, ControlTypes, DiskTypes, Size
<1>c. /\ VaultTypes' /\ \A i \in Files \ {cur} : vault'[i] = vault[i]
      /\ r.kept = None => vault'[cur] = vault[cur]
      /\ r.kept # None => vault'[cur] = vault[cur] \cup {<<"stage", r.kept>>}
  BY <1>a, <1>b, Keeping DEF IndInv, Slots
<1>f. /\ pc = "rollback" /\ Quiet /\ UNCHANGED <<named, listed, item, dest, backup, newDir, history>>
      /\ item[cur].stage \in {"open", "ready"} /\ item[cur].committed # "yes"
      /\ \/ pc' = "restore" /\ cur' = cur
         \/ r.answer = "kept" /\ cur > 1 /\ pc' = "rollback" /\ cur' = cur - 1
         \/ r.answer = "kept" /\ cur = 1 /\ pc' = "directory" /\ cur' = 1
  BY DEF RollbackStage, IndInv, Typed, ControlTypes, Size, Down
<1>d. /\ DiskTypes' /\ stage'[cur] = r.name
      /\ \A i \in Files \ {cur} : stage'[i] = stage[i]
  BY <1>a, <1>b, <1>f DEF IndInv, Typed, DiskTypes
<1>e. /\ issue' \in BOOLEAN /\ lost' \in BOOLEAN
      /\ ~issue' => ~issue /\ ~Unfinished(r) /\ item[cur].committed # "unknown"
  BY <1>a, Zenon DEF IndInv, Typed, FlagTypes
<1>g. ~issue' => /\ pc' = "restore" /\ cur' = cur /\ vault' = vault
                /\ stage'[cur] = None /\ item[cur].committed = "no"
  <2>1. item[cur] \in Items
    BY <1>b DEF IndInv, Typed, ItemTypes
  <2> QED
    BY <1>a, <1>d, <1>e, <1>f, <2>1 DEF Unfinished, Keep, Items
<1> USE <1>a, <1>b, <1>c, <1>d, <1>e, <1>f, <1>g DEF IndInv, Size, Quiet
<1>1. Typed'
  <2>1. FlagTypes'
    BY Zenon DEF Typed, FlagTypes
  <2>2. DiskTypes'
    BY DEF Typed, DiskTypes, ControlTypes, Contents
  <2>3. VaultTypes' /\ ItemTypes'
    BY DEF Typed, DiskTypes, VaultTypes, ItemTypes, ControlTypes, Slots, Contents, Items
  <2>4. ControlTypes'
    BY DEF Typed, ControlTypes
  <2>5. NoteTypes'
    BY DEF Typed, NoteTypes, ControlTypes, Contents, Slots
  <2> QED
    BY <2>1, <2>2, <2>3, <2>4, <2>5 DEF Typed
<1>2. PhaseInv'
  BY DEF PhaseInv
<1>3. ItemInv'
  <2> SUFFICES ASSUME NEW i \in Files PROVE ItemHolds(i)'
    BY DEF ItemInv
  <2>1. CASE i = cur
    BY <2>1 DEF Typed, DiskTypes, ItemTypes, ControlTypes, NoteTypes, PhaseInv, ItemInv, ItemHolds, ForwardInv, ForwardHolds
  <2>2. CASE i # cur
    BY <2>2 DEF Typed, DiskTypes, ItemTypes, ControlTypes, NoteTypes, PhaseInv, ItemInv, ItemHolds, ForwardInv, ForwardHolds
  <2> QED
    BY <2>1, <2>2
<1>4. ForwardInv'
  <2> SUFFICES ASSUME NEW i \in Files PROVE ForwardHolds(i)'
    BY DEF ForwardInv
  <2>1. CASE i = cur
    BY <2>1 DEF Typed, DiskTypes, ItemTypes, ControlTypes, NoteTypes, PhaseInv, ItemInv, ItemHolds, ForwardInv, ForwardHolds
  <2>2. CASE i # cur
    BY <2>2 DEF Typed, DiskTypes, ItemTypes, ControlTypes, NoteTypes, PhaseInv, ItemInv, ItemHolds, ForwardInv, ForwardHolds
  <2> QED
    BY <2>1, <2>2
<1>5. OldInv'
  <2> SUFFICES ASSUME NEW i \in Files, ~complete', i \notin meddled'
               PROVE  /\ HasBackup(i)' => backup'[i] = "copy"
                      /\ item'[i].original /\ i \notin touched'
                           => dest'[i] \in {"old", "copy"} \/ backup'[i] = "copy"
    BY DEF OldInv, BackupOutlivesFailure, OldBytesReachable
  <2>1. CASE i = cur
    BY <2>1 DEF Typed, DiskTypes, ItemTypes, ControlTypes, NoteTypes, PhaseInv, ItemInv, ItemHolds, ForwardInv, ForwardHolds, OldInv, BackupOutlivesFailure, OldBytesReachable
  <2>2. CASE i # cur
    BY <2>2 DEF Typed, DiskTypes, ItemTypes, ControlTypes, NoteTypes, PhaseInv, ItemInv, ItemHolds, ForwardInv, ForwardHolds, OldInv, BackupOutlivesFailure, OldBytesReachable
  <2> QED
    BY <2>1, <2>2
<1>6. RollbackInv'
  <2>1. ASSUME ~issue', pc' # "end", NEW i \in Files PROVE RollbackHolds(i)'
    <3>1. RollbackHolds(i) /\ ItemHolds(i) /\ ForwardHolds(i) /\ ~issue /\ pc # "end"
      BY <2>1 DEF RollbackInv, ItemInv, ForwardInv, PhaseInv
    <3>2. CASE i = cur
      BY <2>1, <3>1, <3>2 DEF Typed, DiskTypes, ItemTypes, ControlTypes, NoteTypes, VaultTypes, PhaseInv, ItemInv, ItemHolds, ForwardInv, ForwardHolds, RollbackInv, RollbackHolds, Claimed, Unchanged, Restored, Contents, Slots
    <3>3. CASE i # cur
      BY <2>1, <3>1, <3>3 DEF Typed, DiskTypes, ItemTypes, ControlTypes, NoteTypes, VaultTypes, PhaseInv, ItemInv, ItemHolds, ForwardInv, ForwardHolds, RollbackInv, RollbackHolds, Claimed, Unchanged, Restored, Contents, Slots
    <3> QED
      BY <3>2, <3>3
  <2>2. /\ pc' \in {"claimed", "restored"} => item'[cur'].committed = "yes"
        /\ pc' \in {"restored"} => item'[cur'].original
        /\ pc' = "report" /\ ~issue' => newDir' \in {"none", "gone"}
    BY DEF RollbackInv, PhaseInv, Typed, ControlTypes
  <2> QED
    BY <2>1, <2>2 DEF RollbackInv
<1>7. Conclusion'
  BY DEF Typed, DiskTypes, ItemTypes, ControlTypes, NoteTypes, PhaseInv, ItemInv, ItemHolds, ForwardInv, ForwardHolds, RollbackInv, RollbackHolds, Claimed, Unchanged, Restored, Conclusion, SuccessIsClean, PlainFailureIsClean, KeptIsListed
<1> QED
  BY <1>1, <1>2, <1>3, <1>4, <1>5, <1>6, <1>7

\* The rollback goes to the file before, or to the created directory.
LEMMA GoingDown ==
  ASSUME Typed, Size, Down
  PROVE  \/ cur > 1 /\ pc' = "rollback" /\ cur' = cur - 1
         \/ cur = 1 /\ pc' = "directory" /\ cur' = 1
  BY DEF Typed, ControlTypes, Size, Down

\* A verified backup is never removed by the rollback; a private one may be.
LEMMA RollbackBackupKeeps ==
  ASSUME Size, IndInv, RollbackBackup
  PROVE  IndInv'
<1>1. CASE item[cur].backup \in {"none", "stray"} /\ UNCHANGED <<issue, lost, named, listed>> /\ Still
  <2>a. pc = "restore" /\ item[cur].committed # "yes" /\ Quiet /\ UNCHANGED item /\ Down
    BY DEF RollbackBackup
  <2>b. \/ cur > 1 /\ pc' = "rollback" /\ cur' = cur - 1
        \/ cur = 1 /\ pc' = "directory" /\ cur' = 1
    BY <2>a, GoingDown DEF IndInv
  <2> USE <1>1, <2>a, <2>b DEF IndInv, Size, Still, Quiet
  <2>1. Typed'
    <3>1. FlagTypes'
      BY Zenon DEF Typed, FlagTypes
    <3>2. DiskTypes'
      BY DEF Typed, DiskTypes, ControlTypes, Contents
    <3>3. VaultTypes' /\ ItemTypes'
      BY DEF Typed, DiskTypes, VaultTypes, ItemTypes, ControlTypes, Slots, Contents, Items
    <3>4. ControlTypes'
      BY DEF Typed, ControlTypes
    <3>5. NoteTypes'
      BY DEF Typed, NoteTypes, ControlTypes, Contents, Slots
    <3> QED
      BY <3>1, <3>2, <3>3, <3>4, <3>5 DEF Typed
  <2>2. PhaseInv'
    BY DEF PhaseInv
  <2>3. ItemInv'
    BY DEF Typed, DiskTypes, ItemTypes, ControlTypes, NoteTypes, PhaseInv, ItemInv, ItemHolds, ForwardInv, ForwardHolds
  <2>4. ForwardInv'
    BY DEF Typed, DiskTypes, ItemTypes, ControlTypes, NoteTypes, PhaseInv, ItemInv, ItemHolds, ForwardInv, ForwardHolds
  <2>5. OldInv'
    BY DEF Typed, DiskTypes, ItemTypes, ControlTypes, NoteTypes, PhaseInv, ItemInv, ItemHolds, ForwardInv, ForwardHolds, OldInv, BackupOutlivesFailure, OldBytesReachable
  <2>6. RollbackInv'
    <3>1. ASSUME ~issue', pc' # "end", NEW i \in Files PROVE RollbackHolds(i)'
      <4>1. RollbackHolds(i) /\ ItemHolds(i) /\ ForwardHolds(i) /\ ~issue /\ pc # "end"
        BY <3>1 DEF RollbackInv, ItemInv, ForwardInv, PhaseInv
      <4>2. CASE i = cur
        BY <3>1, <4>1, <4>2 DEF Typed, DiskTypes, ItemTypes, ControlTypes, NoteTypes, VaultTypes, PhaseInv, ItemInv, ItemHolds, ForwardInv, ForwardHolds, RollbackInv, RollbackHolds, Claimed, Unchanged, Restored, Contents, Slots
      <4>3. CASE i # cur
        BY <3>1, <4>1, <4>3 DEF Typed, DiskTypes, ItemTypes, ControlTypes, NoteTypes, VaultTypes, PhaseInv, ItemInv, ItemHolds, ForwardInv, ForwardHolds, RollbackInv, RollbackHolds, Claimed, Unchanged, Restored, Contents, Slots
      <4> QED
        BY <4>2, <4>3
    <3>2. /\ pc' \in {"claimed", "restored"} => item'[cur'].committed = "yes"
          /\ pc' \in {"restored"} => item'[cur'].original
          /\ pc' = "report" /\ ~issue' => newDir' \in {"none", "gone"}
      BY DEF RollbackInv, PhaseInv, Typed, ControlTypes
    <3> QED
      BY <3>1, <3>2 DEF RollbackInv
  <2>7. Conclusion'
    BY DEF Typed, DiskTypes, ItemTypes, ControlTypes, NoteTypes, PhaseInv, ItemInv, ItemHolds, ForwardInv, ForwardHolds, RollbackInv, RollbackHolds, Claimed, Unchanged, Restored, Conclusion, SuccessIsClean, PlainFailureIsClean, KeptIsListed
  <2> QED
    BY <2>1, <2>2, <2>3, <2>4, <2>5, <2>6, <2>7
<1>2. CASE /\ issue' = TRUE /\ lost' = lost /\ named' = named \cup {cur}
            /\ listed' \in {listed, listed \cup {<<cur, "backup">>}} /\ Still
  <2>a. pc = "restore" /\ item[cur].committed # "yes" /\ Quiet /\ UNCHANGED item /\ Down
    BY DEF RollbackBackup
  <2>b. \/ cur > 1 /\ pc' = "rollback" /\ cur' = cur - 1
        \/ cur = 1 /\ pc' = "directory" /\ cur' = 1
    BY <2>a, GoingDown DEF IndInv
  <2> USE <1>2, <2>a, <2>b DEF IndInv, Size, Still, Quiet
  <2>1. Typed'
    <3>1. FlagTypes'
      BY Zenon DEF Typed, FlagTypes
    <3>2. DiskTypes'
      BY DEF Typed, DiskTypes, ControlTypes, Contents
    <3>3. VaultTypes' /\ ItemTypes'
      BY DEF Typed, DiskTypes, VaultTypes, ItemTypes, ControlTypes, Slots, Contents, Items
    <3>4. ControlTypes'
      BY DEF Typed, ControlTypes
    <3>5. NoteTypes'
      BY DEF Typed, NoteTypes, ControlTypes, Contents, Slots
    <3> QED
      BY <3>1, <3>2, <3>3, <3>4, <3>5 DEF Typed
  <2>2. PhaseInv'
    BY DEF PhaseInv
  <2>3. ItemInv'
    BY DEF Typed, DiskTypes, ItemTypes, ControlTypes, NoteTypes, PhaseInv, ItemInv, ItemHolds, ForwardInv, ForwardHolds
  <2>4. ForwardInv'
    BY DEF Typed, DiskTypes, ItemTypes, ControlTypes, NoteTypes, PhaseInv, ItemInv, ItemHolds, ForwardInv, ForwardHolds
  <2>5. OldInv'
    BY DEF Typed, DiskTypes, ItemTypes, ControlTypes, NoteTypes, PhaseInv, ItemInv, ItemHolds, ForwardInv, ForwardHolds, OldInv, BackupOutlivesFailure, OldBytesReachable
  <2>6. RollbackInv'
    BY DEF Typed, DiskTypes, ItemTypes, ControlTypes, NoteTypes, VaultTypes, PhaseInv, ItemInv, ItemHolds, ForwardInv, ForwardHolds, RollbackInv, RollbackHolds, Claimed, Unchanged, Restored, Contents, Slots
  <2>7. Conclusion'
    BY DEF Typed, DiskTypes, ItemTypes, ControlTypes, NoteTypes, PhaseInv, ItemInv, ItemHolds, ForwardInv, ForwardHolds, RollbackInv, RollbackHolds, Claimed, Unchanged, Restored, Conclusion, SuccessIsClean, PlainFailureIsClean, KeptIsListed
  <2> QED
    BY <2>1, <2>2, <2>3, <2>4, <2>5, <2>6, <2>7
<1>3. CASE /\ item[cur].backup = "private" /\ dest[cur] = "old"
            /\ \E r \in Removal("copy", backup[cur]), synced \in BOOLEAN :
                 /\ backup' = [backup EXCEPT ![cur] = r.name]
                 /\ Keep(cur, "backup", r)
                 /\ issue' = (issue \/ Unfinished(r) \/ ~synced)
                 /\ lost' = (lost \/ r.lost)
            /\ UNCHANGED <<named, listed, dest, stage, newDir, history>>
  <2> PICK r \in Removal("copy", backup[cur]), synced \in BOOLEAN :
        /\ backup' = [backup EXCEPT ![cur] = r.name]
        /\ Keep(cur, "backup", r)
        /\ issue' = (issue \/ Unfinished(r) \/ ~synced)
        /\ lost' = (lost \/ r.lost)
    BY <1>3
  <2>a. /\ r.name \in {backup[cur], None} /\ r.kept \in {backup[cur], None} /\ r.lost \in BOOLEAN
        /\ ~Unfinished(r) => r.name = None /\ r.kept = None
        /\ r.kept # None => r.name = None
    BY Removing
  <2>b. cur \in Files /\ backup[cur] \in Contents \cup {None}
    BY DEF IndInv, Typed, ControlTypes, DiskTypes, Size
  <2>c. /\ VaultTypes' /\ \A i \in Files \ {cur} : vault'[i] = vault[i]
        /\ r.kept = None => vault'[cur] = vault[cur]
        /\ r.kept # None => vault'[cur] = vault[cur] \cup {<<"backup", r.kept>>}
    BY <2>a, <2>b, Keeping DEF IndInv, Slots
  <2>e. /\ issue' \in BOOLEAN /\ lost' \in BOOLEAN
        /\ ~issue' => ~issue /\ ~Unfinished(r)
    BY <2>a, Zenon DEF IndInv, Typed, FlagTypes
  <2>f. /\ pc = "restore" /\ item[cur].committed # "yes" /\ Quiet /\ UNCHANGED item
        /\ UNCHANGED <<named, listed, dest, stage, newDir, history>>
        /\ item[cur].backup = "private" /\ dest[cur] = "old"
    BY <1>3 DEF RollbackBackup
  <2>g. \/ cur > 1 /\ pc' = "rollback" /\ cur' = cur - 1
        \/ cur = 1 /\ pc' = "directory" /\ cur' = 1
    BY GoingDown DEF IndInv, RollbackBackup
  <2>d. /\ DiskTypes' /\ backup'[cur] = r.name
        /\ \A i \in Files \ {cur} : backup'[i] = backup[i]
    BY <2>a, <2>b, <2>f DEF IndInv, Typed, DiskTypes
  <2>h. ~issue' => vault' = vault /\ backup'[cur] = None
    BY <2>a, <2>d, <2>e DEF Keep
  <2> USE <2>a, <2>b, <2>c, <2>d, <2>e, <2>f, <2>g, <2>h DEF IndInv, Size, Quiet
  <2>1. Typed'
    <3>1. FlagTypes'
      BY Zenon DEF Typed, FlagTypes
    <3>2. DiskTypes'
      BY DEF Typed, DiskTypes, ControlTypes, Contents
    <3>3. VaultTypes' /\ ItemTypes'
      BY DEF Typed, DiskTypes, VaultTypes, ItemTypes, ControlTypes, Slots, Contents, Items
    <3>4. ControlTypes'
      BY DEF Typed, ControlTypes
    <3>5. NoteTypes'
      BY DEF Typed, NoteTypes, ControlTypes, Contents, Slots
    <3> QED
      BY <3>1, <3>2, <3>3, <3>4, <3>5 DEF Typed
  <2>2. PhaseInv'
    BY DEF PhaseInv
  <2>3. ItemInv'
    <3> SUFFICES ASSUME NEW i \in Files PROVE ItemHolds(i)'
      BY DEF ItemInv
    <3>1. CASE i = cur
      BY <3>1 DEF Typed, DiskTypes, ItemTypes, ControlTypes, NoteTypes, PhaseInv, ItemInv, ItemHolds, ForwardInv, ForwardHolds
    <3>2. CASE i # cur
      BY <3>2 DEF Typed, DiskTypes, ItemTypes, ControlTypes, NoteTypes, PhaseInv, ItemInv, ItemHolds, ForwardInv, ForwardHolds
    <3> QED
      BY <3>1, <3>2
  <2>4. ForwardInv'
    <3> SUFFICES ASSUME NEW i \in Files PROVE ForwardHolds(i)'
      BY DEF ForwardInv
    <3>1. CASE i = cur
      BY <3>1 DEF Typed, DiskTypes, ItemTypes, ControlTypes, NoteTypes, PhaseInv, ItemInv, ItemHolds, ForwardInv, ForwardHolds
    <3>2. CASE i # cur
      BY <3>2 DEF Typed, DiskTypes, ItemTypes, ControlTypes, NoteTypes, PhaseInv, ItemInv, ItemHolds, ForwardInv, ForwardHolds
    <3> QED
      BY <3>1, <3>2
  <2>5. OldInv'
    <3> SUFFICES ASSUME NEW i \in Files, ~complete', i \notin meddled'
                 PROVE  /\ HasBackup(i)' => backup'[i] = "copy"
                        /\ item'[i].original /\ i \notin touched'
                             => dest'[i] \in {"old", "copy"} \/ backup'[i] = "copy"
      BY DEF OldInv, BackupOutlivesFailure, OldBytesReachable
    <3>1. CASE i = cur
      BY <3>1 DEF Typed, DiskTypes, ItemTypes, ControlTypes, NoteTypes, PhaseInv, ItemInv, ItemHolds, ForwardInv, ForwardHolds, OldInv, BackupOutlivesFailure, OldBytesReachable
    <3>2. CASE i # cur
      BY <3>2 DEF Typed, DiskTypes, ItemTypes, ControlTypes, NoteTypes, PhaseInv, ItemInv, ItemHolds, ForwardInv, ForwardHolds, OldInv, BackupOutlivesFailure, OldBytesReachable
    <3> QED
      BY <3>1, <3>2
  <2>6. RollbackInv'
    <3>1. ASSUME ~issue', pc' # "end", NEW i \in Files PROVE RollbackHolds(i)'
      <4>1. RollbackHolds(i) /\ ItemHolds(i) /\ ForwardHolds(i) /\ ~issue /\ pc # "end"
        BY <3>1 DEF RollbackInv, ItemInv, ForwardInv, PhaseInv
      <4>2. CASE i = cur
        BY <3>1, <4>1, <4>2 DEF Typed, DiskTypes, ItemTypes, ControlTypes, NoteTypes, VaultTypes, PhaseInv, ItemInv, ItemHolds, ForwardInv, ForwardHolds, RollbackInv, RollbackHolds, Claimed, Unchanged, Restored, Contents, Slots
      <4>3. CASE i # cur
        BY <3>1, <4>1, <4>3 DEF Typed, DiskTypes, ItemTypes, ControlTypes, NoteTypes, VaultTypes, PhaseInv, ItemInv, ItemHolds, ForwardInv, ForwardHolds, RollbackInv, RollbackHolds, Claimed, Unchanged, Restored, Contents, Slots
      <4> QED
        BY <4>2, <4>3
    <3>2. /\ pc' \in {"claimed", "restored"} => item'[cur'].committed = "yes"
          /\ pc' \in {"restored"} => item'[cur'].original
          /\ pc' = "report" /\ ~issue' => newDir' \in {"none", "gone"}
      BY DEF RollbackInv, PhaseInv, Typed, ControlTypes
    <3> QED
      BY <3>1, <3>2 DEF RollbackInv
  <2>7. Conclusion'
    BY DEF Typed, DiskTypes, ItemTypes, ControlTypes, NoteTypes, PhaseInv, ItemInv, ItemHolds, ForwardInv, ForwardHolds, RollbackInv, RollbackHolds, Claimed, Unchanged, Restored, Conclusion, SuccessIsClean, PlainFailureIsClean, KeptIsListed
  <2> QED
    BY <2>1, <2>2, <2>3, <2>4, <2>5, <2>6, <2>7
<1> QED
  BY <1>1, <1>2, <1>3 DEF RollbackBackup

\* A published file is taken into a quarantine, whatever it is by now.
LEMMA ClaimCommittedKeeps ==
  ASSUME Size, IndInv, ClaimCommitted
  PROVE  IndInv'
<1>1. CASE \E r \in Removal("nobody", dest[cur]) :
              /\ dest' = [dest EXCEPT ![cur] = r.name]
              /\ Keep(cur, "dest", r)
              /\ issue' = TRUE /\ lost' = (lost \/ r.lost)
              /\ Down
  <2> PICK r \in Removal("nobody", dest[cur]) :
        /\ dest' = [dest EXCEPT ![cur] = r.name]
        /\ Keep(cur, "dest", r)
        /\ issue' = TRUE /\ lost' = (lost \/ r.lost)
        /\ Down
    BY <1>1
  <2>a. /\ r.name \in {dest[cur], None} /\ r.kept \in {dest[cur], None} /\ r.lost \in BOOLEAN
        /\ ~Unfinished(r) => r.name = None /\ r.kept = None
        /\ r.kept # None => r.name = None
    BY Removing
  <2>b. cur \in Files /\ dest[cur] \in Contents \cup {None}
    BY DEF IndInv, Typed, ControlTypes, DiskTypes, Size
  <2>c. /\ VaultTypes' /\ \A i \in Files \ {cur} : vault'[i] = vault[i]
        /\ r.kept = None => vault'[cur] = vault[cur]
        /\ r.kept # None => vault'[cur] = vault[cur] \cup {<<"dest", r.kept>>}
    BY <2>a, <2>b, Keeping DEF IndInv, Slots
  <2>e. lost' \in BOOLEAN
    BY <2>a, Zenon DEF IndInv, Typed, FlagTypes
  <2>f. /\ pc = "rollback" /\ item[cur].committed = "yes"
        /\ Quiet /\ UNCHANGED <<named, listed, item, stage, backup, newDir, history>>
    BY DEF ClaimCommitted
  <2>g. \/ cur > 1 /\ pc' = "rollback" /\ cur' = cur - 1
        \/ cur = 1 /\ pc' = "directory" /\ cur' = 1
    BY GoingDown DEF IndInv
  <2>d. /\ DiskTypes' /\ dest'[cur] = r.name
        /\ \A i \in Files \ {cur} : dest'[i] = dest[i]
    BY <2>a, <2>b, <2>f DEF IndInv, Typed, DiskTypes
  <2> USE <2>a, <2>b, <2>c, <2>d, <2>e, <2>f, <2>g DEF IndInv, Size, Quiet
  <2>1. Typed'
    <3>1. FlagTypes'
      BY Zenon DEF Typed, FlagTypes
    <3>2. DiskTypes'
      BY DEF Typed, DiskTypes, ControlTypes, Contents
    <3>3. VaultTypes' /\ ItemTypes'
      BY DEF Typed, DiskTypes, VaultTypes, ItemTypes, ControlTypes, Slots, Contents, Items
    <3>4. ControlTypes'
      BY DEF Typed, ControlTypes
    <3>5. NoteTypes'
      BY DEF Typed, NoteTypes, ControlTypes, Contents, Slots
    <3> QED
      BY <3>1, <3>2, <3>3, <3>4, <3>5 DEF Typed
  <2>2. PhaseInv'
    BY DEF PhaseInv
  <2>3. ItemInv'
    <3> SUFFICES ASSUME NEW i \in Files PROVE ItemHolds(i)'
      BY DEF ItemInv
    <3>1. CASE i = cur
      BY <3>1 DEF Typed, DiskTypes, ItemTypes, ControlTypes, NoteTypes, PhaseInv, ItemInv, ItemHolds, ForwardInv, ForwardHolds
    <3>2. CASE i # cur
      BY <3>2 DEF Typed, DiskTypes, ItemTypes, ControlTypes, NoteTypes, PhaseInv, ItemInv, ItemHolds, ForwardInv, ForwardHolds
    <3> QED
      BY <3>1, <3>2
  <2>4. ForwardInv'
    <3> SUFFICES ASSUME NEW i \in Files PROVE ForwardHolds(i)'
      BY DEF ForwardInv
    <3>1. CASE i = cur
      BY <3>1 DEF Typed, DiskTypes, ItemTypes, ControlTypes, NoteTypes, PhaseInv, ItemInv, ItemHolds, ForwardInv, ForwardHolds
    <3>2. CASE i # cur
      BY <3>2 DEF Typed, DiskTypes, ItemTypes, ControlTypes, NoteTypes, PhaseInv, ItemInv, ItemHolds, ForwardInv, ForwardHolds
    <3> QED
      BY <3>1, <3>2
  <2>5. OldInv'
    <3> SUFFICES ASSUME NEW i \in Files, ~complete', i \notin meddled'
                 PROVE  /\ HasBackup(i)' => backup'[i] = "copy"
                        /\ item'[i].original /\ i \notin touched'
                             => dest'[i] \in {"old", "copy"} \/ backup'[i] = "copy"
      BY DEF OldInv, BackupOutlivesFailure, OldBytesReachable
    <3>1. CASE i = cur
      BY <3>1 DEF Typed, DiskTypes, ItemTypes, ControlTypes, NoteTypes, PhaseInv, ItemInv, ItemHolds, ForwardInv, ForwardHolds, OldInv, BackupOutlivesFailure, OldBytesReachable
    <3>2. CASE i # cur
      BY <3>2 DEF Typed, DiskTypes, ItemTypes, ControlTypes, NoteTypes, PhaseInv, ItemInv, ItemHolds, ForwardInv, ForwardHolds, OldInv, BackupOutlivesFailure, OldBytesReachable
    <3> QED
      BY <3>1, <3>2
  <2>6. RollbackInv'
    BY DEF Typed, DiskTypes, ItemTypes, ControlTypes, NoteTypes, VaultTypes, PhaseInv, ItemInv, ItemHolds, ForwardInv, ForwardHolds, RollbackInv, RollbackHolds, Claimed, Unchanged, Restored, Contents, Slots
  <2>7. Conclusion'
    BY DEF Typed, DiskTypes, ItemTypes, ControlTypes, NoteTypes, PhaseInv, ItemInv, ItemHolds, ForwardInv, ForwardHolds, RollbackInv, RollbackHolds, Claimed, Unchanged, Restored, Conclusion, SuccessIsClean, PlainFailureIsClean, KeptIsListed
  <2> QED
    BY <2>1, <2>2, <2>3, <2>4, <2>5, <2>6, <2>7
<1>2. CASE /\ dest[cur] # None
            /\ dest' = [dest EXCEPT ![cur] = None]
            /\ vault' = [vault EXCEPT ![cur] = @ \cup {<<"dest", dest[cur]>>}]
            /\ pc' = "claimed"
            /\ UNCHANGED <<cur, issue, lost>>
  <2>a. cur \in Files /\ dest[cur] \in Contents
    BY <1>2 DEF IndInv, Typed, ControlTypes, DiskTypes, Size
  <2>b. /\ pc = "rollback" /\ item[cur].committed = "yes" /\ pc' = "claimed"
        /\ UNCHANGED <<cur, issue, lost>>
        /\ Quiet /\ UNCHANGED <<named, listed, item, stage, backup, newDir, history>>
    BY <1>2 DEF ClaimCommitted
  <2>c. /\ VaultTypes' /\ \A i \in Files \ {cur} : vault'[i] = vault[i]
        /\ vault'[cur] = vault[cur] \cup {<<"dest", dest[cur]>>}
    BY <1>2, <2>a DEF IndInv, Typed, VaultTypes, Slots
  <2>d. /\ DiskTypes' /\ dest'[cur] = None
        /\ \A i \in Files \ {cur} : dest'[i] = dest[i]
    BY <1>2, <2>a, <2>b DEF IndInv, Typed, DiskTypes
  <2> USE <2>a, <2>b, <2>c, <2>d DEF IndInv, Size, Quiet
  <2>1. Typed'
    <3>1. FlagTypes'
      BY Zenon DEF Typed, FlagTypes
    <3>2. DiskTypes'
      BY DEF Typed, DiskTypes, ControlTypes, Contents
    <3>3. VaultTypes' /\ ItemTypes'
      BY DEF Typed, DiskTypes, VaultTypes, ItemTypes, ControlTypes, Slots, Contents, Items
    <3>4. ControlTypes'
      BY DEF Typed, ControlTypes
    <3>5. NoteTypes'
      BY DEF Typed, NoteTypes, ControlTypes, Contents, Slots
    <3> QED
      BY <3>1, <3>2, <3>3, <3>4, <3>5 DEF Typed
  <2>2. PhaseInv'
    BY DEF PhaseInv
  <2>3. ItemInv'
    <3> SUFFICES ASSUME NEW i \in Files PROVE ItemHolds(i)'
      BY DEF ItemInv
    <3>1. CASE i = cur
      BY <3>1 DEF Typed, DiskTypes, ItemTypes, ControlTypes, NoteTypes, PhaseInv, ItemInv, ItemHolds, ForwardInv, ForwardHolds
    <3>2. CASE i # cur
      BY <3>2 DEF Typed, DiskTypes, ItemTypes, ControlTypes, NoteTypes, PhaseInv, ItemInv, ItemHolds, ForwardInv, ForwardHolds
    <3> QED
      BY <3>1, <3>2
  <2>4. ForwardInv'
    <3> SUFFICES ASSUME NEW i \in Files PROVE ForwardHolds(i)'
      BY DEF ForwardInv
    <3>1. CASE i = cur
      BY <3>1 DEF Typed, DiskTypes, ItemTypes, ControlTypes, NoteTypes, PhaseInv, ItemInv, ItemHolds, ForwardInv, ForwardHolds
    <3>2. CASE i # cur
      BY <3>2 DEF Typed, DiskTypes, ItemTypes, ControlTypes, NoteTypes, PhaseInv, ItemInv, ItemHolds, ForwardInv, ForwardHolds
    <3> QED
      BY <3>1, <3>2
  <2>5. OldInv'
    <3> SUFFICES ASSUME NEW i \in Files, ~complete', i \notin meddled'
                 PROVE  /\ HasBackup(i)' => backup'[i] = "copy"
                        /\ item'[i].original /\ i \notin touched'
                             => dest'[i] \in {"old", "copy"} \/ backup'[i] = "copy"
      BY DEF OldInv, BackupOutlivesFailure, OldBytesReachable
    <3>1. CASE i = cur
      BY <3>1 DEF Typed, DiskTypes, ItemTypes, ControlTypes, NoteTypes, PhaseInv, ItemInv, ItemHolds, ForwardInv, ForwardHolds, OldInv, BackupOutlivesFailure, OldBytesReachable
    <3>2. CASE i # cur
      BY <3>2 DEF Typed, DiskTypes, ItemTypes, ControlTypes, NoteTypes, PhaseInv, ItemInv, ItemHolds, ForwardInv, ForwardHolds, OldInv, BackupOutlivesFailure, OldBytesReachable
    <3> QED
      BY <3>1, <3>2
  <2>6. RollbackInv'
    <3>1. ASSUME ~issue', pc' # "end", NEW i \in Files PROVE RollbackHolds(i)'
      <4>1. RollbackHolds(i) /\ ItemHolds(i) /\ ForwardHolds(i) /\ ~issue /\ pc # "end"
        BY <3>1 DEF RollbackInv, ItemInv, ForwardInv, PhaseInv
      <4>2. CASE i = cur
        BY <3>1, <4>1, <4>2 DEF Typed, DiskTypes, ItemTypes, ControlTypes, NoteTypes, VaultTypes, PhaseInv, ItemInv, ItemHolds, ForwardInv, ForwardHolds, RollbackInv, RollbackHolds, Claimed, Unchanged, Restored, Contents, Slots
      <4>3. CASE i # cur
        BY <3>1, <4>1, <4>3 DEF Typed, DiskTypes, ItemTypes, ControlTypes, NoteTypes, VaultTypes, PhaseInv, ItemInv, ItemHolds, ForwardInv, ForwardHolds, RollbackInv, RollbackHolds, Claimed, Unchanged, Restored, Contents, Slots
      <4> QED
        BY <4>2, <4>3
    <3>2. /\ pc' \in {"claimed", "restored"} => item'[cur'].committed = "yes"
          /\ pc' \in {"restored"} => item'[cur'].original
          /\ pc' = "report" /\ ~issue' => newDir' \in {"none", "gone"}
      BY DEF RollbackInv, PhaseInv, Typed, ControlTypes
    <3> QED
      BY <3>1, <3>2 DEF RollbackInv
  <2>7. Conclusion'
    BY DEF Typed, DiskTypes, ItemTypes, ControlTypes, NoteTypes, PhaseInv, ItemInv, ItemHolds, ForwardInv, ForwardHolds, RollbackInv, RollbackHolds, Claimed, Unchanged, Restored, Conclusion, SuccessIsClean, PlainFailureIsClean, KeptIsListed
  <2> QED
    BY <2>1, <2>2, <2>3, <2>4, <2>5, <2>6, <2>7
<1> QED
  BY <1>1, <1>2 DEF ClaimCommitted

\* Only the supplied report goes on to be undone.
LEMMA VerifyCommittedKeeps ==
  ASSUME Size, IndInv, VerifyCommitted
  PROVE  IndInv'
<1>1. CASE /\ dest[cur] = None /\ <<"dest", "new">> \in vault[cur]
            /\ pc' = "restore" /\ UNCHANGED <<cur, issue, lost>>
  <2>a. pc = "claimed" /\ Quiet /\ UNCHANGED <<named, listed, item>> /\ Still
    BY DEF VerifyCommitted
  <2> USE <1>1, <2>a DEF IndInv, Size, Quiet, Still
  <2>1. Typed'
    <3>1. FlagTypes'
      BY Zenon DEF Typed, FlagTypes
    <3>2. DiskTypes'
      BY DEF Typed, DiskTypes, ControlTypes, Contents
    <3>3. VaultTypes' /\ ItemTypes'
      BY DEF Typed, DiskTypes, VaultTypes, ItemTypes, ControlTypes, Slots, Contents, Items
    <3>4. ControlTypes'
      BY DEF Typed, ControlTypes
    <3>5. NoteTypes'
      BY DEF Typed, NoteTypes, ControlTypes, Contents, Slots
    <3> QED
      BY <3>1, <3>2, <3>3, <3>4, <3>5 DEF Typed
  <2>2. PhaseInv'
    BY DEF PhaseInv
  <2>3. ItemInv'
    BY DEF Typed, DiskTypes, ItemTypes, ControlTypes, NoteTypes, PhaseInv, ItemInv, ItemHolds, ForwardInv, ForwardHolds
  <2>4. ForwardInv'
    BY DEF Typed, DiskTypes, ItemTypes, ControlTypes, NoteTypes, PhaseInv, ItemInv, ItemHolds, ForwardInv, ForwardHolds
  <2>5. OldInv'
    BY DEF Typed, DiskTypes, ItemTypes, ControlTypes, NoteTypes, PhaseInv, ItemInv, ItemHolds, ForwardInv, ForwardHolds, OldInv, BackupOutlivesFailure, OldBytesReachable
  <2>6. RollbackInv'
    <3>1. ASSUME ~issue', pc' # "end", NEW i \in Files PROVE RollbackHolds(i)'
      <4>1. RollbackHolds(i) /\ ItemHolds(i) /\ ForwardHolds(i) /\ ~issue /\ pc # "end"
        BY <3>1 DEF RollbackInv, ItemInv, ForwardInv, PhaseInv
      <4>2. CASE i = cur
        BY <3>1, <4>1, <4>2 DEF Typed, DiskTypes, ItemTypes, ControlTypes, NoteTypes, VaultTypes, PhaseInv, ItemInv, ItemHolds, ForwardInv, ForwardHolds, RollbackInv, RollbackHolds, Claimed, Unchanged, Restored, Contents, Slots
      <4>3. CASE i # cur
        BY <3>1, <4>1, <4>3 DEF Typed, DiskTypes, ItemTypes, ControlTypes, NoteTypes, VaultTypes, PhaseInv, ItemInv, ItemHolds, ForwardInv, ForwardHolds, RollbackInv, RollbackHolds, Claimed, Unchanged, Restored, Contents, Slots
      <4> QED
        BY <4>2, <4>3
    <3>2. /\ pc' \in {"claimed", "restored"} => item'[cur'].committed = "yes"
          /\ pc' \in {"restored"} => item'[cur'].original
          /\ pc' = "report" /\ ~issue' => newDir' \in {"none", "gone"}
      BY DEF RollbackInv, PhaseInv, Typed, ControlTypes
    <3> QED
      BY <3>1, <3>2 DEF RollbackInv
  <2>7. Conclusion'
    BY DEF Typed, DiskTypes, ItemTypes, ControlTypes, NoteTypes, PhaseInv, ItemInv, ItemHolds, ForwardInv, ForwardHolds, RollbackInv, RollbackHolds, Claimed, Unchanged, Restored, Conclusion, SuccessIsClean, PlainFailureIsClean, KeptIsListed
  <2> QED
    BY <2>1, <2>2, <2>3, <2>4, <2>5, <2>6, <2>7
<1>2. CASE issue' = TRUE /\ lost' \in {lost, TRUE} /\ Down
  <2>a. pc = "claimed" /\ Quiet /\ UNCHANGED <<named, listed, item>> /\ Still
    BY DEF VerifyCommitted
  <2>b. lost' \in BOOLEAN
    BY <1>2, Zenon DEF IndInv, Typed, FlagTypes
  <2>c. \/ cur > 1 /\ pc' = "rollback" /\ cur' = cur - 1
        \/ cur = 1 /\ pc' = "directory" /\ cur' = 1
    BY <1>2, GoingDown DEF IndInv
  <2> USE <1>2, <2>a, <2>b, <2>c DEF IndInv, Size, Quiet, Still
  <2>1. Typed'
    <3>1. FlagTypes'
      BY Zenon DEF Typed, FlagTypes
    <3>2. DiskTypes'
      BY DEF Typed, DiskTypes, ControlTypes, Contents
    <3>3. VaultTypes' /\ ItemTypes'
      BY DEF Typed, DiskTypes, VaultTypes, ItemTypes, ControlTypes, Slots, Contents, Items
    <3>4. ControlTypes'
      BY DEF Typed, ControlTypes
    <3>5. NoteTypes'
      BY DEF Typed, NoteTypes, ControlTypes, Contents, Slots
    <3> QED
      BY <3>1, <3>2, <3>3, <3>4, <3>5 DEF Typed
  <2>2. PhaseInv'
    BY DEF PhaseInv
  <2>3. ItemInv'
    BY DEF Typed, DiskTypes, ItemTypes, ControlTypes, NoteTypes, PhaseInv, ItemInv, ItemHolds, ForwardInv, ForwardHolds
  <2>4. ForwardInv'
    BY DEF Typed, DiskTypes, ItemTypes, ControlTypes, NoteTypes, PhaseInv, ItemInv, ItemHolds, ForwardInv, ForwardHolds
  <2>5. OldInv'
    BY DEF Typed, DiskTypes, ItemTypes, ControlTypes, NoteTypes, PhaseInv, ItemInv, ItemHolds, ForwardInv, ForwardHolds, OldInv, BackupOutlivesFailure, OldBytesReachable
  <2>6. RollbackInv'
    BY DEF Typed, DiskTypes, ItemTypes, ControlTypes, NoteTypes, VaultTypes, PhaseInv, ItemInv, ItemHolds, ForwardInv, ForwardHolds, RollbackInv, RollbackHolds, Claimed, Unchanged, Restored, Contents, Slots
  <2>7. Conclusion'
    BY DEF Typed, DiskTypes, ItemTypes, ControlTypes, NoteTypes, PhaseInv, ItemInv, ItemHolds, ForwardInv, ForwardHolds, RollbackInv, RollbackHolds, Claimed, Unchanged, Restored, Conclusion, SuccessIsClean, PlainFailureIsClean, KeptIsListed
  <2> QED
    BY <2>1, <2>2, <2>3, <2>4, <2>5, <2>6, <2>7
<1> QED
  BY <1>1, <1>2 DEF VerifyCommitted

\* Where there was no file the claimed report goes and nothing is put back.
LEMMA RemoveNewKeeps ==
  ASSUME Size, IndInv, RemoveNew
  PROVE  IndInv'
<1>a. /\ pc = "restore" /\ item[cur].committed = "yes" /\ ~item[cur].original
      /\ Quiet /\ UNCHANGED <<named, listed, names, newDir, history>> /\ cur \in Files
      /\ Typed /\ Size
  BY DEF RemoveNew, IndInv, Typed, ControlTypes, Size
<1>b. /\ VaultTypes' /\ \A i \in Files \ {cur} : vault'[i] = vault[i]
      /\ issue' \in BOOLEAN /\ lost' \in BOOLEAN
      /\ ~issue' => /\ ~issue /\ dest[cur] = None
                    /\ vault'[cur] = vault[cur] \ {<<"dest", "new">>}
  <2>1. PICK synced \in BOOLEAN : FinishClaim(dest[cur] = None, synced)
    BY DEF RemoveNew
  <2>2. (dest[cur] = None) \in BOOLEAN
    OBVIOUS
  <2> QED
    BY <1>a, <2>1, <2>2, Finishing, Zenon
<1>c. /\ ItemTypes' /\ \A i \in Files \ {cur} : item'[i] = item[i]
      /\ item'[cur].committed \in {"yes", "no"} /\ item'[cur].original = item[cur].original
      /\ item'[cur].stage = item[cur].stage /\ item'[cur].backup = item[cur].backup
  <2>1. CASE item' = item
    BY <1>a, <2>1 DEF Typed, ItemTypes
  <2>2. CASE item' = [item EXCEPT ![cur].committed = "no"]
    BY <1>a, <2>2, SetCommitted
  <2> QED
    BY <2>1, <2>2 DEF RemoveNew
<1>d. \/ cur > 1 /\ pc' = "rollback" /\ cur' = cur - 1
      \/ cur = 1 /\ pc' = "directory" /\ cur' = 1
  BY <1>a, GoingDown DEF RemoveNew
<1>e. ~issue' => vault'[cur] = {}
  BY <1>a, <1>b DEF IndInv, RollbackInv, RollbackHolds, Claimed
<1> USE <1>a, <1>b, <1>c, <1>d, <1>e DEF IndInv, Size, Quiet
<1>1. Typed'
  <2>1. FlagTypes'
    BY Zenon DEF Typed, FlagTypes
  <2>2. DiskTypes'
    BY DEF Typed, DiskTypes, ControlTypes, Contents
  <2>3. VaultTypes' /\ ItemTypes'
    BY DEF Typed, DiskTypes, VaultTypes, ItemTypes, ControlTypes, Slots, Contents, Items
  <2>4. ControlTypes'
    BY DEF Typed, ControlTypes
  <2>5. NoteTypes'
    BY DEF Typed, NoteTypes, ControlTypes, Contents, Slots
  <2> QED
    BY <2>1, <2>2, <2>3, <2>4, <2>5 DEF Typed
<1>2. PhaseInv'
  BY DEF PhaseInv
<1>3. ItemInv'
  <2> SUFFICES ASSUME NEW i \in Files PROVE ItemHolds(i)'
    BY DEF ItemInv
  <2>1. CASE i = cur
    BY <2>1 DEF Typed, DiskTypes, ItemTypes, ControlTypes, NoteTypes, PhaseInv, ItemInv, ItemHolds, ForwardInv, ForwardHolds
  <2>2. CASE i # cur
    BY <2>2 DEF Typed, DiskTypes, ItemTypes, ControlTypes, NoteTypes, PhaseInv, ItemInv, ItemHolds, ForwardInv, ForwardHolds
  <2> QED
    BY <2>1, <2>2
<1>4. ForwardInv'
  <2> SUFFICES ASSUME NEW i \in Files PROVE ForwardHolds(i)'
    BY DEF ForwardInv
  <2>1. CASE i = cur
    BY <2>1 DEF Typed, DiskTypes, ItemTypes, ControlTypes, NoteTypes, PhaseInv, ItemInv, ItemHolds, ForwardInv, ForwardHolds
  <2>2. CASE i # cur
    BY <2>2 DEF Typed, DiskTypes, ItemTypes, ControlTypes, NoteTypes, PhaseInv, ItemInv, ItemHolds, ForwardInv, ForwardHolds
  <2> QED
    BY <2>1, <2>2
<1>5. OldInv'
  <2> SUFFICES ASSUME NEW i \in Files, ~complete', i \notin meddled'
               PROVE  /\ HasBackup(i)' => backup'[i] = "copy"
                      /\ item'[i].original /\ i \notin touched'
                           => dest'[i] \in {"old", "copy"} \/ backup'[i] = "copy"
    BY DEF OldInv, BackupOutlivesFailure, OldBytesReachable
  <2>1. CASE i = cur
    BY <2>1 DEF Typed, DiskTypes, ItemTypes, ControlTypes, NoteTypes, PhaseInv, ItemInv, ItemHolds, ForwardInv, ForwardHolds, OldInv, BackupOutlivesFailure, OldBytesReachable
  <2>2. CASE i # cur
    BY <2>2 DEF Typed, DiskTypes, ItemTypes, ControlTypes, NoteTypes, PhaseInv, ItemInv, ItemHolds, ForwardInv, ForwardHolds, OldInv, BackupOutlivesFailure, OldBytesReachable
  <2> QED
    BY <2>1, <2>2
<1>6. RollbackInv'
  <2>1. ASSUME ~issue', pc' # "end", NEW i \in Files PROVE RollbackHolds(i)'
    <3>1. RollbackHolds(i) /\ ItemHolds(i) /\ ForwardHolds(i) /\ ~issue /\ pc # "end"
      BY <2>1 DEF RollbackInv, ItemInv, ForwardInv, PhaseInv
    <3>2. CASE i = cur
      BY <2>1, <3>1, <3>2 DEF Typed, DiskTypes, ItemTypes, ControlTypes, NoteTypes, VaultTypes, PhaseInv, ItemInv, ItemHolds, ForwardInv, ForwardHolds, RollbackInv, RollbackHolds, Claimed, Unchanged, Restored, Contents, Slots
    <3>3. CASE i # cur
      BY <2>1, <3>1, <3>3 DEF Typed, DiskTypes, ItemTypes, ControlTypes, NoteTypes, VaultTypes, PhaseInv, ItemInv, ItemHolds, ForwardInv, ForwardHolds, RollbackInv, RollbackHolds, Claimed, Unchanged, Restored, Contents, Slots
    <3> QED
      BY <3>2, <3>3
  <2>2. /\ pc' \in {"claimed", "restored"} => item'[cur'].committed = "yes"
        /\ pc' \in {"restored"} => item'[cur'].original
        /\ pc' = "report" /\ ~issue' => newDir' \in {"none", "gone"}
    BY DEF RollbackInv, PhaseInv, Typed, ControlTypes
  <2> QED
    BY <2>1, <2>2 DEF RollbackInv
<1>7. Conclusion'
  BY DEF Typed, DiskTypes, ItemTypes, ControlTypes, NoteTypes, PhaseInv, ItemInv, ItemHolds, ForwardInv, ForwardHolds, RollbackInv, RollbackHolds, Claimed, Unchanged, Restored, Conclusion, SuccessIsClean, PlainFailureIsClean, KeptIsListed
<1> QED
  BY <1>1, <1>2, <1>3, <1>4, <1>5, <1>6, <1>7

\* The backup is linked back where nothing is in the way.
LEMMA RestoreOriginalKeeps ==
  ASSUME Size, IndInv, RestoreOriginal
  PROVE  IndInv'
<1>1. CASE /\ backup[cur] = "copy" /\ dest[cur] = None
            /\ dest' = [dest EXCEPT ![cur] = "copy"]
            /\ pc' = "restored"
            /\ UNCHANGED <<cur, issue, lost, named, vault>>
  <2>a. /\ pc = "restore" /\ item[cur].committed = "yes" /\ item[cur].original /\ Quiet
        /\ UNCHANGED <<listed, item, stage, backup, newDir, history>> /\ cur \in Files
        /\ Typed /\ Size
    BY DEF RestoreOriginal, IndInv, Typed, ControlTypes, Size
  <2>b. /\ DiskTypes' /\ dest'[cur] = "copy"
        /\ \A i \in Files \ {cur} : dest'[i] = dest[i]
    BY <1>1, <2>a DEF Typed, DiskTypes, Contents
  <2> USE <1>1, <2>a, <2>b DEF IndInv, Size, Quiet
  <2>1. Typed'
    <3>1. FlagTypes'
      BY Zenon DEF Typed, FlagTypes
    <3>2. DiskTypes'
      BY DEF Typed, DiskTypes, ControlTypes, Contents
    <3>3. VaultTypes' /\ ItemTypes'
      BY DEF Typed, DiskTypes, VaultTypes, ItemTypes, ControlTypes, Slots, Contents, Items
    <3>4. ControlTypes'
      BY DEF Typed, ControlTypes
    <3>5. NoteTypes'
      BY DEF Typed, NoteTypes, ControlTypes, Contents, Slots
    <3> QED
      BY <3>1, <3>2, <3>3, <3>4, <3>5 DEF Typed
  <2>2. PhaseInv'
    BY DEF PhaseInv
  <2>3. ItemInv'
    <3> SUFFICES ASSUME NEW i \in Files PROVE ItemHolds(i)'
      BY DEF ItemInv
    <3>1. CASE i = cur
      BY <3>1 DEF Typed, DiskTypes, ItemTypes, ControlTypes, NoteTypes, PhaseInv, ItemInv, ItemHolds, ForwardInv, ForwardHolds
    <3>2. CASE i # cur
      BY <3>2 DEF Typed, DiskTypes, ItemTypes, ControlTypes, NoteTypes, PhaseInv, ItemInv, ItemHolds, ForwardInv, ForwardHolds
    <3> QED
      BY <3>1, <3>2
  <2>4. ForwardInv'
    <3> SUFFICES ASSUME NEW i \in Files PROVE ForwardHolds(i)'
      BY DEF ForwardInv
    <3>1. CASE i = cur
      BY <3>1 DEF Typed, DiskTypes, ItemTypes, ControlTypes, NoteTypes, PhaseInv, ItemInv, ItemHolds, ForwardInv, ForwardHolds
    <3>2. CASE i # cur
      BY <3>2 DEF Typed, DiskTypes, ItemTypes, ControlTypes, NoteTypes, PhaseInv, ItemInv, ItemHolds, ForwardInv, ForwardHolds
    <3> QED
      BY <3>1, <3>2
  <2>5. OldInv'
    <3> SUFFICES ASSUME NEW i \in Files, ~complete', i \notin meddled'
                 PROVE  /\ HasBackup(i)' => backup'[i] = "copy"
                        /\ item'[i].original /\ i \notin touched'
                             => dest'[i] \in {"old", "copy"} \/ backup'[i] = "copy"
      BY DEF OldInv, BackupOutlivesFailure, OldBytesReachable
    <3>1. CASE i = cur
      BY <3>1 DEF Typed, DiskTypes, ItemTypes, ControlTypes, NoteTypes, PhaseInv, ItemInv, ItemHolds, ForwardInv, ForwardHolds, OldInv, BackupOutlivesFailure, OldBytesReachable
    <3>2. CASE i # cur
      BY <3>2 DEF Typed, DiskTypes, ItemTypes, ControlTypes, NoteTypes, PhaseInv, ItemInv, ItemHolds, ForwardInv, ForwardHolds, OldInv, BackupOutlivesFailure, OldBytesReachable
    <3> QED
      BY <3>1, <3>2
  <2>6. RollbackInv'
    <3>1. ASSUME ~issue', pc' # "end", NEW i \in Files PROVE RollbackHolds(i)'
      <4>1. RollbackHolds(i) /\ ItemHolds(i) /\ ForwardHolds(i) /\ ~issue /\ pc # "end"
        BY <3>1 DEF RollbackInv, ItemInv, ForwardInv, PhaseInv
      <4>2. CASE i = cur
        BY <3>1, <4>1, <4>2 DEF Typed, DiskTypes, ItemTypes, ControlTypes, NoteTypes, VaultTypes, PhaseInv, ItemInv, ItemHolds, ForwardInv, ForwardHolds, RollbackInv, RollbackHolds, Claimed, Unchanged, Restored, Contents, Slots
      <4>3. CASE i # cur
        BY <3>1, <4>1, <4>3 DEF Typed, DiskTypes, ItemTypes, ControlTypes, NoteTypes, VaultTypes, PhaseInv, ItemInv, ItemHolds, ForwardInv, ForwardHolds, RollbackInv, RollbackHolds, Claimed, Unchanged, Restored, Contents, Slots
      <4> QED
        BY <4>2, <4>3
    <3>2. /\ pc' \in {"claimed", "restored"} => item'[cur'].committed = "yes"
          /\ pc' \in {"restored"} => item'[cur'].original
          /\ pc' = "report" /\ ~issue' => newDir' \in {"none", "gone"}
      BY DEF RollbackInv, PhaseInv, Typed, ControlTypes
    <3> QED
      BY <3>1, <3>2 DEF RollbackInv
  <2>7. Conclusion'
    BY DEF Typed, DiskTypes, ItemTypes, ControlTypes, NoteTypes, PhaseInv, ItemInv, ItemHolds, ForwardInv, ForwardHolds, RollbackInv, RollbackHolds, Claimed, Unchanged, Restored, Conclusion, SuccessIsClean, PlainFailureIsClean, KeptIsListed
  <2> QED
    BY <2>1, <2>2, <2>3, <2>4, <2>5, <2>6, <2>7
<1>2. CASE FinishClaim(FALSE, FALSE) /\ named' \in {named, named \cup {cur}} /\ Down /\ UNCHANGED dest
  <2>a. /\ pc = "restore" /\ item[cur].committed = "yes" /\ item[cur].original /\ Quiet
        /\ UNCHANGED <<listed, item, stage, backup, newDir, history>> /\ cur \in Files
        /\ Typed /\ Size
    BY DEF RestoreOriginal, IndInv, Typed, ControlTypes, Size
  <2>b. /\ VaultTypes' /\ \A i \in Files \ {cur} : vault'[i] = vault[i]
        /\ lost' \in BOOLEAN /\ issue' = TRUE
    BY <1>2, <2>a, Finishing DEF FinishClaim
  <2>c. \/ cur > 1 /\ pc' = "rollback" /\ cur' = cur - 1
        \/ cur = 1 /\ pc' = "directory" /\ cur' = 1
    BY <1>2, <2>a, GoingDown
  <2>d. UNCHANGED dest /\ named' \in {named, named \cup {cur}}
    BY <1>2
  <2> USE <2>a, <2>b, <2>c, <2>d DEF IndInv, Size, Quiet
  <2>1. Typed'
    <3>1. FlagTypes'
      BY Zenon DEF Typed, FlagTypes
    <3>2. DiskTypes'
      BY DEF Typed, DiskTypes, ControlTypes, Contents
    <3>3. VaultTypes' /\ ItemTypes'
      BY DEF Typed, DiskTypes, VaultTypes, ItemTypes, ControlTypes, Slots, Contents, Items
    <3>4. ControlTypes'
      BY DEF Typed, ControlTypes
    <3>5. NoteTypes'
      BY DEF Typed, NoteTypes, ControlTypes, Contents, Slots
    <3> QED
      BY <3>1, <3>2, <3>3, <3>4, <3>5 DEF Typed
  <2>2. PhaseInv'
    BY DEF PhaseInv
  <2>3. ItemInv'
    BY DEF Typed, DiskTypes, ItemTypes, ControlTypes, NoteTypes, PhaseInv, ItemInv, ItemHolds, ForwardInv, ForwardHolds
  <2>4. ForwardInv'
    <3> SUFFICES ASSUME NEW i \in Files PROVE ForwardHolds(i)'
      BY DEF ForwardInv
    <3>1. CASE i = cur
      BY <3>1 DEF Typed, DiskTypes, ItemTypes, ControlTypes, NoteTypes, PhaseInv, ItemInv, ItemHolds, ForwardInv, ForwardHolds
    <3>2. CASE i # cur
      BY <3>2 DEF Typed, DiskTypes, ItemTypes, ControlTypes, NoteTypes, PhaseInv, ItemInv, ItemHolds, ForwardInv, ForwardHolds
    <3> QED
      BY <3>1, <3>2
  <2>5. OldInv'
    <3> SUFFICES ASSUME NEW i \in Files, ~complete', i \notin meddled'
                 PROVE  /\ HasBackup(i)' => backup'[i] = "copy"
                        /\ item'[i].original /\ i \notin touched'
                             => dest'[i] \in {"old", "copy"} \/ backup'[i] = "copy"
      BY DEF OldInv, BackupOutlivesFailure, OldBytesReachable
    <3>1. CASE i = cur
      BY <3>1 DEF Typed, DiskTypes, ItemTypes, ControlTypes, NoteTypes, PhaseInv, ItemInv, ItemHolds, ForwardInv, ForwardHolds, OldInv, BackupOutlivesFailure, OldBytesReachable
    <3>2. CASE i # cur
      BY <3>2 DEF Typed, DiskTypes, ItemTypes, ControlTypes, NoteTypes, PhaseInv, ItemInv, ItemHolds, ForwardInv, ForwardHolds, OldInv, BackupOutlivesFailure, OldBytesReachable
    <3> QED
      BY <3>1, <3>2
  <2>6. RollbackInv'
    BY DEF Typed, DiskTypes, ItemTypes, ControlTypes, NoteTypes, VaultTypes, PhaseInv, ItemInv, ItemHolds, ForwardInv, ForwardHolds, RollbackInv, RollbackHolds, Claimed, Unchanged, Restored, Contents, Slots
  <2>7. Conclusion'
    BY DEF Typed, DiskTypes, ItemTypes, ControlTypes, NoteTypes, PhaseInv, ItemInv, ItemHolds, ForwardInv, ForwardHolds, RollbackInv, RollbackHolds, Claimed, Unchanged, Restored, Conclusion, SuccessIsClean, PlainFailureIsClean, KeptIsListed
  <2> QED
    BY <2>1, <2>2, <2>3, <2>4, <2>5, <2>6, <2>7
<1> QED
  BY <1>1, <1>2 DEF RestoreOriginal

\* After the restoration the backup stays and is named.
LEMMA RetainBackupKeeps ==
  ASSUME Size, IndInv, RetainBackup
  PROVE  IndInv'
<1>a. /\ pc = "restored" /\ Quiet /\ UNCHANGED <<listed, names, newDir, history>> /\ cur \in Files
      /\ item[cur].committed = "yes" /\ Typed /\ Size
  BY DEF RetainBackup, IndInv, Typed, ControlTypes, Size, RollbackInv
<1>b. /\ VaultTypes' /\ \A i \in Files \ {cur} : vault'[i] = vault[i]
      /\ lost' \in BOOLEAN /\ issue' = TRUE
  <2>1. PICK may \in BOOLEAN : FinishClaim(may, FALSE)
    <3>1. (dest[cur] = "copy") \in BOOLEAN
      OBVIOUS
    <3> QED
      BY <3>1, Zenon DEF RetainBackup
  <2> QED
    BY <1>a, <2>1, Finishing DEF FinishClaim
<1>c. /\ ItemTypes' /\ \A i \in Files \ {cur} : item'[i] = item[i]
      /\ item'[cur].committed \in {"yes", "no"} /\ item'[cur].original = item[cur].original
      /\ item'[cur].stage = item[cur].stage /\ item'[cur].backup = item[cur].backup
  <2>1. CASE item' = item
    BY <1>a, <2>1 DEF Typed, ItemTypes
  <2>2. CASE item' = [item EXCEPT ![cur].committed = "no"]
    BY <1>a, <2>2, SetCommitted
  <2> QED
    BY <2>1, <2>2 DEF RetainBackup, Uncommit
<1>d. /\ \/ cur > 1 /\ pc' = "rollback" /\ cur' = cur - 1
         \/ cur = 1 /\ pc' = "directory" /\ cur' = 1
      /\ named' \in {named, named \cup {cur}}
  BY <1>a, GoingDown DEF RetainBackup
<1> USE <1>a, <1>b, <1>c, <1>d DEF IndInv, Size, Quiet
<1>1. Typed'
  <2>1. FlagTypes'
    BY Zenon DEF Typed, FlagTypes
  <2>2. DiskTypes'
    BY DEF Typed, DiskTypes, ControlTypes, Contents
  <2>3. VaultTypes' /\ ItemTypes'
    BY DEF Typed, DiskTypes, VaultTypes, ItemTypes, ControlTypes, Slots, Contents, Items
  <2>4. ControlTypes'
    BY DEF Typed, ControlTypes
  <2>5. NoteTypes'
    BY DEF Typed, NoteTypes, ControlTypes, Contents, Slots
  <2> QED
    BY <2>1, <2>2, <2>3, <2>4, <2>5 DEF Typed
<1>2. PhaseInv'
  BY DEF PhaseInv
<1>3. ItemInv'
  <2> SUFFICES ASSUME NEW i \in Files PROVE ItemHolds(i)'
    BY DEF ItemInv
  <2>1. CASE i = cur
    BY <2>1 DEF Typed, DiskTypes, ItemTypes, ControlTypes, NoteTypes, PhaseInv, ItemInv, ItemHolds, ForwardInv, ForwardHolds
  <2>2. CASE i # cur
    BY <2>2 DEF Typed, DiskTypes, ItemTypes, ControlTypes, NoteTypes, PhaseInv, ItemInv, ItemHolds, ForwardInv, ForwardHolds
  <2> QED
    BY <2>1, <2>2
<1>4. ForwardInv'
  <2> SUFFICES ASSUME NEW i \in Files PROVE ForwardHolds(i)'
    BY DEF ForwardInv
  <2>1. CASE i = cur
    BY <2>1 DEF Typed, DiskTypes, ItemTypes, ControlTypes, NoteTypes, PhaseInv, ItemInv, ItemHolds, ForwardInv, ForwardHolds
  <2>2. CASE i # cur
    BY <2>2 DEF Typed, DiskTypes, ItemTypes, ControlTypes, NoteTypes, PhaseInv, ItemInv, ItemHolds, ForwardInv, ForwardHolds
  <2> QED
    BY <2>1, <2>2
<1>5. OldInv'
  <2> SUFFICES ASSUME NEW i \in Files, ~complete', i \notin meddled'
               PROVE  /\ HasBackup(i)' => backup'[i] = "copy"
                      /\ item'[i].original /\ i \notin touched'
                           => dest'[i] \in {"old", "copy"} \/ backup'[i] = "copy"
    BY DEF OldInv, BackupOutlivesFailure, OldBytesReachable
  <2>1. CASE i = cur
    BY <2>1 DEF Typed, DiskTypes, ItemTypes, ControlTypes, NoteTypes, PhaseInv, ItemInv, ItemHolds, ForwardInv, ForwardHolds, OldInv, BackupOutlivesFailure, OldBytesReachable
  <2>2. CASE i # cur
    BY <2>2 DEF Typed, DiskTypes, ItemTypes, ControlTypes, NoteTypes, PhaseInv, ItemInv, ItemHolds, ForwardInv, ForwardHolds, OldInv, BackupOutlivesFailure, OldBytesReachable
  <2> QED
    BY <2>1, <2>2
<1>6. RollbackInv'
  BY DEF Typed, DiskTypes, ItemTypes, ControlTypes, NoteTypes, VaultTypes, PhaseInv, ItemInv, ItemHolds, ForwardInv, ForwardHolds, RollbackInv, RollbackHolds, Claimed, Unchanged, Restored, Contents, Slots
<1>7. Conclusion'
  BY DEF Typed, DiskTypes, ItemTypes, ControlTypes, NoteTypes, PhaseInv, ItemInv, ItemHolds, ForwardInv, ForwardHolds, RollbackInv, RollbackHolds, Claimed, Unchanged, Restored, Conclusion, SuccessIsClean, PlainFailureIsClean, KeptIsListed
<1> QED
  BY <1>1, <1>2, <1>3, <1>4, <1>5, <1>6, <1>7

\* The created branch goes only when it is empty.
LEMMA RemoveNewDirectoryKeeps ==
  ASSUME Size, IndInv, RemoveNewDirectory
  PROVE  IndInv'
<1>a. /\ pc = "directory" /\ pc' = "report"
      /\ Quiet /\ UNCHANGED <<cur, named, listed, item, names, vault, history>>
  BY DEF RemoveNewDirectory
<1>b. /\ issue' \in BOOLEAN /\ lost' \in BOOLEAN
      /\ newDir' \in {"none", "public", "kept", "gone"}
      /\ ~issue' => ~issue /\ newDir' \in {"none", "gone"}
  <2>1. CASE newDir = "none" /\ UNCHANGED <<newDir, issue, lost>>
    BY <2>1, Zenon DEF IndInv, Typed, FlagTypes
  <2>2. CASE newDir = "public" /\ newDir' \in {"public", "kept"} /\ issue' = TRUE /\ lost' \in {lost, TRUE}
    BY <2>2, Zenon DEF IndInv, Typed, FlagTypes
  <2>3. CASE newDir = "public" /\ newDir' = "gone" /\ UNCHANGED <<issue, lost>>
    BY <2>3, Zenon DEF IndInv, Typed, FlagTypes
  <2> QED
    BY <2>1, <2>2, <2>3 DEF RemoveNewDirectory
<1> USE <1>a, <1>b DEF IndInv, Size, Quiet
<1>1. Typed'
  <2>1. FlagTypes'
    BY Zenon DEF Typed, FlagTypes
  <2>2. DiskTypes'
    BY DEF Typed, DiskTypes, ControlTypes, Contents
  <2>3. VaultTypes' /\ ItemTypes'
    BY DEF Typed, DiskTypes, VaultTypes, ItemTypes, ControlTypes, Slots, Contents, Items
  <2>4. ControlTypes'
    BY DEF Typed, ControlTypes
  <2>5. NoteTypes'
    BY DEF Typed, NoteTypes, ControlTypes, Contents, Slots
  <2> QED
    BY <2>1, <2>2, <2>3, <2>4, <2>5 DEF Typed
<1>2. PhaseInv'
  BY DEF PhaseInv
<1>3. ItemInv'
  BY DEF Typed, DiskTypes, ItemTypes, ControlTypes, NoteTypes, PhaseInv, ItemInv, ItemHolds, ForwardInv, ForwardHolds
<1>4. ForwardInv'
  BY DEF Typed, DiskTypes, ItemTypes, ControlTypes, NoteTypes, PhaseInv, ItemInv, ItemHolds, ForwardInv, ForwardHolds
<1>5. OldInv'
  BY DEF Typed, DiskTypes, ItemTypes, ControlTypes, NoteTypes, PhaseInv, ItemInv, ItemHolds, ForwardInv, ForwardHolds, OldInv, BackupOutlivesFailure, OldBytesReachable
<1>6. RollbackInv'
  <2>1. ASSUME ~issue', pc' # "end", NEW i \in Files PROVE RollbackHolds(i)'
    <3>1. RollbackHolds(i) /\ ItemHolds(i) /\ ForwardHolds(i) /\ ~issue /\ pc # "end"
      BY <2>1 DEF RollbackInv, ItemInv, ForwardInv, PhaseInv
    <3>2. CASE i = cur
      BY <2>1, <3>1, <3>2 DEF Typed, DiskTypes, ItemTypes, ControlTypes, NoteTypes, VaultTypes, PhaseInv, ItemInv, ItemHolds, ForwardInv, ForwardHolds, RollbackInv, RollbackHolds, Claimed, Unchanged, Restored, Contents, Slots
    <3>3. CASE i # cur
      BY <2>1, <3>1, <3>3 DEF Typed, DiskTypes, ItemTypes, ControlTypes, NoteTypes, VaultTypes, PhaseInv, ItemInv, ItemHolds, ForwardInv, ForwardHolds, RollbackInv, RollbackHolds, Claimed, Unchanged, Restored, Contents, Slots
    <3> QED
      BY <3>2, <3>3
  <2>2. /\ pc' \in {"claimed", "restored"} => item'[cur'].committed = "yes"
        /\ pc' \in {"restored"} => item'[cur'].original
        /\ pc' = "report" /\ ~issue' => newDir' \in {"none", "gone"}
    BY DEF RollbackInv, PhaseInv, Typed, ControlTypes
  <2> QED
    BY <2>1, <2>2 DEF RollbackInv
<1>7. Conclusion'
  BY DEF Typed, DiskTypes, ItemTypes, ControlTypes, NoteTypes, PhaseInv, ItemInv, ItemHolds, ForwardInv, ForwardHolds, RollbackInv, RollbackHolds, Claimed, Unchanged, Restored, Conclusion, SuccessIsClean, PlainFailureIsClean, KeptIsListed
<1> QED
  BY <1>1, <1>2, <1>3, <1>4, <1>5, <1>6, <1>7

\* The failure lists what the rollback kept.
LEMMA ReportKeeps ==
  ASSUME Size, IndInv, Report
  PROVE  IndInv'
<1>a. /\ pc = "report" /\ pc' = "end"
      /\ UNCHANGED <<cur, complete, cause, issue, lost, named, listed>> /\ Still /\ UNCHANGED item
  BY DEF Report
<1>b. \/ /\ issue /\ result' = "indeterminate" /\ (lost => paths' = {})
         /\ ~lost => \E doubtful \in SUBSET (Recorded \cap Stale) : paths' = RecoveryPaths \cup doubtful
      \/ /\ ~issue /\ paths' = listed
         /\ result' = IF cause = "indeterminate" THEN "indeterminate" ELSE "raised"
  BY DEF Report
<1>c. /\ Recorded \subseteq (Files \X Slots) \cup {Directory}
      /\ listed \subseteq (Files \X Slots) \cup {Directory}
  <2>1. Vaulted \subseteq Files \X Slots
    BY Zenon DEF Vaulted
  <2>2. { i \in Files : HasBackup(i) } \X {"backup"} \subseteq Files \X Slots
    BY DEF Slots
  <2>3. listed \subseteq Files \X Slots
    BY Zenon DEF IndInv, Typed, NoteTypes
  <2>4. { d \in {Directory} : newDir = "kept" } \subseteq {Directory}
    BY Zenon
  <2> QED
    BY <2>1, <2>2, <2>3, <2>4, Zenon DEF Recorded
<1>g. /\ issue /\ ~lost => RecoveryPaths \subseteq paths'
      /\ paths' \subseteq (Files \X Slots) \cup {Directory}
  <2>1. CASE lost /\ issue
    BY <1>b, <2>1, Zenon
  <2>2. CASE ~lost /\ issue
    <3> PICK doubtful \in SUBSET (Recorded \cap Stale) : paths' = RecoveryPaths \cup doubtful
      BY <1>b, <2>2, Zenon
    <3> QED
      BY <1>c, Zenon DEF RecoveryPaths
  <2>3. CASE ~issue
    BY <1>b, <1>c, <2>3, Zenon
  <2> QED
    BY <2>1, <2>2, <2>3, Zenon
<1>d. /\ newDir = "kept" => Directory \in RecoveryPaths
      /\ \A v \in Vaulted : v \in RecoveryPaths \/ BelowKept(v[1])
      /\ \A i \in Files : HasBackup(i) /\ backup[i] = "copy"
                              => <<i, "backup">> \in RecoveryPaths \/ BelowKept(i)
  <2>1. newDir = "kept" => Directory \in RecoveryPaths
    <3>1. Directory \notin Files \X Slots
      BY DEF Directory, Slots
    <3> QED
      BY <3>1, Zenon DEF RecoveryPaths, Recorded, Stale
  <2>2. ASSUME NEW v \in Vaulted, ~BelowKept(v[1]) PROVE v \in RecoveryPaths
    BY <2>2, Zenon DEF RecoveryPaths, Recorded, Stale
  <2>3. ASSUME NEW i \in Files, HasBackup(i), backup[i] = "copy", ~BelowKept(i)
        PROVE  <<i, "backup">> \in RecoveryPaths
    <3> DEFINE v == <<i, "backup">>
    <3>1. v \in { j \in Files : HasBackup(j) } \X {"backup"}
      BY <2>3
    <3>2. v \notin Stale
      BY <2>3 DEF Stale
    <3> QED
      BY <3>1, <3>2, Zenon DEF RecoveryPaths, Recorded
  <2> QED
    BY <2>1, <2>2, <2>3, Zenon
<1>e. ~issue => /\ Vaulted = {} /\ newDir \in {"none", "gone"}
                /\ \A i \in Files : Restored(i) /\ vault[i] = {}
  BY <1>a DEF IndInv, RollbackInv, RollbackHolds, Claimed, Vaulted
<1>f. Vaulted' = Vaulted
  BY <1>a DEF Vaulted, Still
<1>h. \A i : BelowKept(i)' <=> BelowKept(i)
  BY <1>a DEF BelowKept, Still
<1> USE <1>a, <1>e, <1>f DEF IndInv, Size, Still
<1>1. Typed'
  <2>1. FlagTypes'
    BY Zenon DEF Typed, FlagTypes
  <2>2. DiskTypes'
    BY DEF Typed, DiskTypes, ControlTypes, Contents
  <2>3. VaultTypes' /\ ItemTypes'
    BY DEF Typed, DiskTypes, VaultTypes, ItemTypes, ControlTypes, Slots, Contents, Items
  <2>4. ControlTypes'
    BY <1>b DEF Typed, ControlTypes
  <2>5. NoteTypes'
    BY <1>b, <1>g, Zenon DEF Typed, NoteTypes
  <2> QED
    BY <2>1, <2>2, <2>3, <2>4, <2>5 DEF Typed
<1>2. PhaseInv'
  BY <1>b DEF PhaseInv
<1>3. ItemInv'
  BY DEF Typed, DiskTypes, ItemTypes, ControlTypes, NoteTypes, PhaseInv, ItemInv, ItemHolds, ForwardInv, ForwardHolds
<1>4. ForwardInv'
  BY DEF Typed, DiskTypes, ItemTypes, ControlTypes, NoteTypes, PhaseInv, ItemInv, ItemHolds, ForwardInv, ForwardHolds
<1>5. OldInv'
  BY DEF Typed, DiskTypes, ItemTypes, ControlTypes, NoteTypes, PhaseInv, ItemInv, ItemHolds, ForwardInv, ForwardHolds, OldInv, BackupOutlivesFailure, OldBytesReachable
<1>6. RollbackInv'
  BY DEF Typed, DiskTypes, ItemTypes, ControlTypes, NoteTypes, VaultTypes, PhaseInv, ItemInv, ItemHolds, ForwardInv, ForwardHolds, RollbackInv, RollbackHolds, Claimed, Unchanged, Restored, Contents, Slots
<1>7. Conclusion'
  <2>1. SuccessIsClean'
    BY <1>b DEF SuccessIsClean
  <2>2. PlainFailureIsClean'
    <3>1. SUFFICES ASSUME ~issue, cause # "indeterminate" PROVE PlainFailureIsClean'
      BY <1>b DEF PlainFailureIsClean
    <3>2. \A i \in Files : "stray" \notin {item[i].stage, item[i].backup}
      BY <3>1, Zenon DEF ItemInv, ItemHolds
    <3> QED
      BY <3>1, <3>2 DEF PlainFailureIsClean, Restored
  <2>3. KeptIsListed'
    <3>1. CASE issue
      BY <1>d, <1>g, <1>h, <3>1, Zenon DEF KeptIsListed
    <3>2. CASE ~issue
      BY <3>2 DEF KeptIsListed, Restored
    <3> QED
      BY <3>1, <3>2
  <2> QED
    BY <2>1, <2>2, <2>3 DEF Conclusion
<1> QED
  BY <1>1, <1>2, <1>3, <1>4, <1>5, <1>6, <1>7

\* Others write a destination that was observed.
LEMMA OthersWriteDestinationKeeps ==
  ASSUME Size, IndInv, OthersWriteDestination
  PROVE  IndInv'
<1> PICK w \in Files :
      /\ Observed(w)
      /\ \E c \in {"other", None} \ {dest[w]} : dest' = [dest EXCEPT ![w] = c]
      /\ touched' = touched \cup {w}
  BY DEF OthersWriteDestination
<1>a. /\ pc # "end" /\ outside' = outside + 1 /\ outside < MaxOutside
      /\ UNCHANGED <<stage, backup, vault, newDir, item, control, meddled, before>>
  BY DEF OthersWriteDestination
<1>b. /\ dest'[w] \in {"other", None} /\ \A i \in Files \ {w} : dest'[i] = dest[i]
      /\ DiskTypes'
  BY <1>a DEF IndInv, Typed, DiskTypes, Contents
<1>c. pc # "preflight" /\ (pc = "observe" => w < cur) /\ touched' = touched \cup {w}
  BY DEF Observed
<1> USE <1>a, <1>b, <1>c DEF IndInv, Size
<1>1. Typed'
  <2>1. FlagTypes'
    BY Zenon DEF Typed, FlagTypes
  <2>2. DiskTypes'
    BY DEF Typed, DiskTypes, ControlTypes, Contents
  <2>3. VaultTypes' /\ ItemTypes'
    BY DEF Typed, DiskTypes, VaultTypes, ItemTypes, ControlTypes, Slots, Contents, Items
  <2>4. ControlTypes'
    BY DEF Typed, ControlTypes
  <2>5. NoteTypes'
    <3>1. outside' \in 0 .. MaxOutside
      BY DEF Typed, NoteTypes
    <3> QED
      BY <3>1, Zenon DEF Typed, NoteTypes
  <2> QED
    BY <2>1, <2>2, <2>3, <2>4, <2>5 DEF Typed
<1>2. PhaseInv'
  BY DEF PhaseInv
<1>3. ItemInv'
  <2> SUFFICES ASSUME NEW i \in Files PROVE ItemHolds(i)'
    BY DEF ItemInv
  <2>1. CASE i = w
    BY <2>1 DEF Typed, DiskTypes, ItemTypes, ControlTypes, NoteTypes, PhaseInv, ItemInv, ItemHolds, ForwardInv, ForwardHolds
  <2>2. CASE i # w
    BY <2>2 DEF Typed, DiskTypes, ItemTypes, ControlTypes, NoteTypes, PhaseInv, ItemInv, ItemHolds, ForwardInv, ForwardHolds
  <2> QED
    BY <2>1, <2>2
<1>4. ForwardInv'
  <2> SUFFICES ASSUME NEW i \in Files PROVE ForwardHolds(i)'
    BY DEF ForwardInv
  <2>1. CASE i = w
    BY <2>1 DEF Typed, DiskTypes, ItemTypes, ControlTypes, NoteTypes, PhaseInv, ItemInv, ItemHolds, ForwardInv, ForwardHolds
  <2>2. CASE i # w
    BY <2>2 DEF Typed, DiskTypes, ItemTypes, ControlTypes, NoteTypes, PhaseInv, ItemInv, ItemHolds, ForwardInv, ForwardHolds
  <2> QED
    BY <2>1, <2>2
<1>5. OldInv'
  <2> SUFFICES ASSUME NEW i \in Files, ~complete', i \notin meddled'
               PROVE  /\ HasBackup(i)' => backup'[i] = "copy"
                      /\ item'[i].original /\ i \notin touched'
                           => dest'[i] \in {"old", "copy"} \/ backup'[i] = "copy"
    BY DEF OldInv, BackupOutlivesFailure, OldBytesReachable
  <2>1. CASE i = w
    BY <2>1 DEF Typed, DiskTypes, ItemTypes, ControlTypes, NoteTypes, PhaseInv, ItemInv, ItemHolds, ForwardInv, ForwardHolds, OldInv, BackupOutlivesFailure, OldBytesReachable
  <2>2. CASE i # w
    BY <2>2 DEF Typed, DiskTypes, ItemTypes, ControlTypes, NoteTypes, PhaseInv, ItemInv, ItemHolds, ForwardInv, ForwardHolds, OldInv, BackupOutlivesFailure, OldBytesReachable
  <2> QED
    BY <2>1, <2>2
<1>6. RollbackInv'
  <2>1. ASSUME ~issue', pc' # "end", NEW i \in Files PROVE RollbackHolds(i)'
    <3>1. RollbackHolds(i) /\ ItemHolds(i) /\ ForwardHolds(i) /\ ~issue /\ pc # "end"
      BY <2>1 DEF RollbackInv, ItemInv, ForwardInv, PhaseInv
    <3>2. CASE i = w
      BY <2>1, <3>1, <3>2 DEF Typed, DiskTypes, ItemTypes, ControlTypes, NoteTypes, VaultTypes, PhaseInv, ItemInv, ItemHolds, ForwardInv, ForwardHolds, RollbackInv, RollbackHolds, Claimed, Unchanged, Restored, Contents, Slots
    <3>3. CASE i # w
      BY <2>1, <3>1, <3>3 DEF Typed, DiskTypes, ItemTypes, ControlTypes, NoteTypes, VaultTypes, PhaseInv, ItemInv, ItemHolds, ForwardInv, ForwardHolds, RollbackInv, RollbackHolds, Claimed, Unchanged, Restored, Contents, Slots
    <3> QED
      BY <3>2, <3>3
  <2>2. /\ pc' \in {"claimed", "restored"} => item'[cur'].committed = "yes"
        /\ pc' \in {"restored"} => item'[cur'].original
        /\ pc' = "report" /\ ~issue' => newDir' \in {"none", "gone"}
    BY DEF RollbackInv, PhaseInv, Typed, ControlTypes
  <2> QED
    BY <2>1, <2>2 DEF RollbackInv
<1>7. Conclusion'
  BY DEF Typed, DiskTypes, ItemTypes, ControlTypes, NoteTypes, PhaseInv, ItemInv, ItemHolds, ForwardInv, ForwardHolds, RollbackInv, RollbackHolds, Claimed, Unchanged, Restored, Conclusion, SuccessIsClean, PlainFailureIsClean, KeptIsListed
<1> QED
  BY <1>1, <1>2, <1>3, <1>4, <1>5, <1>6, <1>7

\* Others write the temporary names.
LEMMA OthersTouchSidecarsKeeps ==
  ASSUME Size, IndInv, OthersTouchSidecars
  PROVE  IndInv'
<1> PICK w \in Files :
      /\ meddled' = meddled \cup {w}
      /\ \/ /\ stage[w] # None
            /\ \E c \in {"other", None} \ {stage[w]} : stage' = [stage EXCEPT ![w] = c]
            /\ UNCHANGED backup
         \/ /\ backup[w] # None
            /\ \E c \in {"other", None} \ {backup[w]} : backup' = [backup EXCEPT ![w] = c]
            /\ UNCHANGED stage
  BY DEF OthersTouchSidecars
<1>a. /\ pc # "end" /\ outside' = outside + 1 /\ outside < MaxOutside
      /\ UNCHANGED <<dest, vault, newDir, item, control, touched, before>>
  BY DEF OthersTouchSidecars
<1>b. /\ stage[w] = None => stage'[w] = None
      /\ backup[w] = None => backup'[w] = None
      /\ stage'[w] \in {stage[w], "other", None} /\ backup'[w] \in {backup[w], "other", None}
      /\ \A i \in Files \ {w} : stage'[i] = stage[i] /\ backup'[i] = backup[i]
      /\ DiskTypes'
  <2>1. CASE UNCHANGED backup
    BY <1>a, <2>1 DEF IndInv, Typed, DiskTypes, Contents
  <2>2. CASE UNCHANGED stage
    BY <1>a, <2>2 DEF IndInv, Typed, DiskTypes, Contents
  <2> QED
    BY <2>1, <2>2
<1>c. meddled' = meddled \cup {w}
  OBVIOUS
<1> USE <1>a, <1>b, <1>c DEF IndInv, Size
<1>1. Typed'
  <2>1. FlagTypes'
    BY Zenon DEF Typed, FlagTypes
  <2>2. DiskTypes'
    BY DEF Typed, DiskTypes, ControlTypes, Contents
  <2>3. VaultTypes' /\ ItemTypes'
    BY DEF Typed, DiskTypes, VaultTypes, ItemTypes, ControlTypes, Slots, Contents, Items
  <2>4. ControlTypes'
    BY DEF Typed, ControlTypes
  <2>5. NoteTypes'
    <3>1. outside' \in 0 .. MaxOutside
      BY DEF Typed, NoteTypes
    <3> QED
      BY <3>1, Zenon DEF Typed, NoteTypes
  <2> QED
    BY <2>1, <2>2, <2>3, <2>4, <2>5 DEF Typed
<1>2. PhaseInv'
  BY DEF PhaseInv
<1>3. ItemInv'
  <2> SUFFICES ASSUME NEW i \in Files PROVE ItemHolds(i)'
    BY DEF ItemInv
  <2>1. CASE i = w
    BY <2>1 DEF Typed, DiskTypes, ItemTypes, ControlTypes, NoteTypes, PhaseInv, ItemInv, ItemHolds, ForwardInv, ForwardHolds
  <2>2. CASE i # w
    BY <2>2 DEF Typed, DiskTypes, ItemTypes, ControlTypes, NoteTypes, PhaseInv, ItemInv, ItemHolds, ForwardInv, ForwardHolds
  <2> QED
    BY <2>1, <2>2
<1>4. ForwardInv'
  <2> SUFFICES ASSUME NEW i \in Files PROVE ForwardHolds(i)'
    BY DEF ForwardInv
  <2>1. CASE i = w
    BY <2>1 DEF Typed, DiskTypes, ItemTypes, ControlTypes, NoteTypes, PhaseInv, ItemInv, ItemHolds, ForwardInv, ForwardHolds
  <2>2. CASE i # w
    BY <2>2 DEF Typed, DiskTypes, ItemTypes, ControlTypes, NoteTypes, PhaseInv, ItemInv, ItemHolds, ForwardInv, ForwardHolds
  <2> QED
    BY <2>1, <2>2
<1>5. OldInv'
  <2> SUFFICES ASSUME NEW i \in Files, ~complete', i \notin meddled'
               PROVE  /\ HasBackup(i)' => backup'[i] = "copy"
                      /\ item'[i].original /\ i \notin touched'
                           => dest'[i] \in {"old", "copy"} \/ backup'[i] = "copy"
    BY DEF OldInv, BackupOutlivesFailure, OldBytesReachable
  <2>1. CASE i = w
    BY <2>1 DEF Typed, DiskTypes, ItemTypes, ControlTypes, NoteTypes, PhaseInv, ItemInv, ItemHolds, ForwardInv, ForwardHolds, OldInv, BackupOutlivesFailure, OldBytesReachable
  <2>2. CASE i # w
    BY <2>2 DEF Typed, DiskTypes, ItemTypes, ControlTypes, NoteTypes, PhaseInv, ItemInv, ItemHolds, ForwardInv, ForwardHolds, OldInv, BackupOutlivesFailure, OldBytesReachable
  <2> QED
    BY <2>1, <2>2
<1>6. RollbackInv'
  <2>1. ASSUME ~issue', pc' # "end", NEW i \in Files PROVE RollbackHolds(i)'
    <3>1. RollbackHolds(i) /\ ItemHolds(i) /\ ForwardHolds(i) /\ ~issue /\ pc # "end"
      BY <2>1 DEF RollbackInv, ItemInv, ForwardInv, PhaseInv
    <3>2. CASE i = w
      BY <2>1, <3>1, <3>2 DEF Typed, DiskTypes, ItemTypes, ControlTypes, NoteTypes, VaultTypes, PhaseInv, ItemInv, ItemHolds, ForwardInv, ForwardHolds, RollbackInv, RollbackHolds, Claimed, Unchanged, Restored, Contents, Slots
    <3>3. CASE i # w
      BY <2>1, <3>1, <3>3 DEF Typed, DiskTypes, ItemTypes, ControlTypes, NoteTypes, VaultTypes, PhaseInv, ItemInv, ItemHolds, ForwardInv, ForwardHolds, RollbackInv, RollbackHolds, Claimed, Unchanged, Restored, Contents, Slots
    <3> QED
      BY <3>2, <3>3
  <2>2. /\ pc' \in {"claimed", "restored"} => item'[cur'].committed = "yes"
        /\ pc' \in {"restored"} => item'[cur'].original
        /\ pc' = "report" /\ ~issue' => newDir' \in {"none", "gone"}
    BY DEF RollbackInv, PhaseInv, Typed, ControlTypes
  <2> QED
    BY <2>1, <2>2 DEF RollbackInv
<1>7. Conclusion'
  BY DEF Typed, DiskTypes, ItemTypes, ControlTypes, NoteTypes, PhaseInv, ItemInv, ItemHolds, ForwardInv, ForwardHolds, RollbackInv, RollbackHolds, Claimed, Unchanged, Restored, Conclusion, SuccessIsClean, PlainFailureIsClean, KeptIsListed
<1> QED
  BY <1>1, <1>2, <1>3, <1>4, <1>5, <1>6, <1>7

\* A kill leaves everything as it is.
LEMMA DieKeeps ==
  ASSUME Size, IndInv, Die
  PROVE  IndInv'
<1> USE DEF IndInv, Size, Die, Still
<1>1. Typed'
  <2>1. FlagTypes'
    BY Zenon DEF Typed, FlagTypes
  <2>2. DiskTypes'
    BY DEF Typed, DiskTypes, ControlTypes, Contents
  <2>3. VaultTypes' /\ ItemTypes'
    BY DEF Typed, DiskTypes, VaultTypes, ItemTypes, ControlTypes, Slots, Contents, Items
  <2>4. ControlTypes'
    BY DEF Typed, ControlTypes
  <2>5. NoteTypes'
    BY DEF Typed, NoteTypes, ControlTypes, Contents, Slots
  <2> QED
    BY <2>1, <2>2, <2>3, <2>4, <2>5 DEF Typed
<1>2. PhaseInv'
  BY DEF PhaseInv
<1>3. ItemInv'
  BY DEF Typed, DiskTypes, ItemTypes, ControlTypes, NoteTypes, PhaseInv, ItemInv, ItemHolds, ForwardInv, ForwardHolds
<1>4. ForwardInv'
  BY DEF Typed, DiskTypes, ItemTypes, ControlTypes, NoteTypes, PhaseInv, ItemInv, ItemHolds, ForwardInv, ForwardHolds
<1>5. OldInv'
  BY DEF Typed, DiskTypes, ItemTypes, ControlTypes, NoteTypes, PhaseInv, ItemInv, ItemHolds, ForwardInv, ForwardHolds, OldInv, BackupOutlivesFailure, OldBytesReachable
<1>6. RollbackInv'
  BY DEF Typed, DiskTypes, ItemTypes, ControlTypes, NoteTypes, VaultTypes, PhaseInv, ItemInv, ItemHolds, ForwardInv, ForwardHolds, RollbackInv, RollbackHolds, Claimed, Unchanged, Restored, Contents, Slots
<1>7. Conclusion'
  BY DEF Typed, DiskTypes, ItemTypes, ControlTypes, NoteTypes, PhaseInv, ItemInv, ItemHolds, ForwardInv, ForwardHolds, RollbackInv, RollbackHolds, Claimed, Unchanged, Restored, Conclusion, SuccessIsClean, PlainFailureIsClean, KeptIsListed
<1> QED
  BY <1>1, <1>2, <1>3, <1>4, <1>5, <1>6, <1>7

\* A stuttering step.
LEMMA NothingHappens ==
  ASSUME Size, IndInv, UNCHANGED vars
  PROVE  IndInv'
<1> USE DEF IndInv, Size, vars
<1>a. Vaulted' = Vaulted
  BY DEF Vaulted
<1> USE <1>a
<1>1. Typed'
  <2>1. FlagTypes'
    BY Zenon DEF Typed, FlagTypes
  <2>2. DiskTypes'
    BY DEF Typed, DiskTypes, ControlTypes, Contents
  <2>3. VaultTypes' /\ ItemTypes'
    BY DEF Typed, DiskTypes, VaultTypes, ItemTypes, ControlTypes, Slots, Contents, Items
  <2>4. ControlTypes'
    BY DEF Typed, ControlTypes
  <2>5. NoteTypes'
    BY DEF Typed, NoteTypes, ControlTypes, Contents, Slots
  <2> QED
    BY <2>1, <2>2, <2>3, <2>4, <2>5 DEF Typed
<1>2. PhaseInv'
  BY DEF PhaseInv
<1>3. ItemInv'
  BY DEF Typed, DiskTypes, ItemTypes, ControlTypes, NoteTypes, PhaseInv, ItemInv, ItemHolds, ForwardInv, ForwardHolds
<1>4. ForwardInv'
  BY DEF Typed, DiskTypes, ItemTypes, ControlTypes, NoteTypes, PhaseInv, ItemInv, ItemHolds, ForwardInv, ForwardHolds
<1>5. OldInv'
  BY DEF Typed, DiskTypes, ItemTypes, ControlTypes, NoteTypes, PhaseInv, ItemInv, ItemHolds, ForwardInv, ForwardHolds, OldInv, BackupOutlivesFailure, OldBytesReachable
<1>6. RollbackInv'
  <2>1. ASSUME ~issue', pc' # "end", NEW i \in Files PROVE RollbackHolds(i)'
    <3>1. RollbackHolds(i) /\ ItemHolds(i) /\ ForwardHolds(i) /\ ~issue /\ pc # "end"
      BY <2>1 DEF RollbackInv, ItemInv, ForwardInv, PhaseInv
    <3>2. CASE i = cur
      BY <2>1, <3>1, <3>2 DEF Typed, DiskTypes, ItemTypes, ControlTypes, NoteTypes, VaultTypes, PhaseInv, ItemInv, ItemHolds, ForwardInv, ForwardHolds, RollbackInv, RollbackHolds, Claimed, Unchanged, Restored, Contents, Slots
    <3>3. CASE i # cur
      BY <2>1, <3>1, <3>3 DEF Typed, DiskTypes, ItemTypes, ControlTypes, NoteTypes, VaultTypes, PhaseInv, ItemInv, ItemHolds, ForwardInv, ForwardHolds, RollbackInv, RollbackHolds, Claimed, Unchanged, Restored, Contents, Slots
    <3> QED
      BY <3>2, <3>3
  <2>2. /\ pc' \in {"claimed", "restored"} => item'[cur'].committed = "yes"
        /\ pc' \in {"restored"} => item'[cur'].original
        /\ pc' = "report" /\ ~issue' => newDir' \in {"none", "gone"}
    BY DEF RollbackInv, PhaseInv, Typed, ControlTypes
  <2> QED
    BY <2>1, <2>2 DEF RollbackInv
<1>7. Conclusion'
  BY DEF Typed, DiskTypes, ItemTypes, ControlTypes, NoteTypes, PhaseInv, ItemInv, ItemHolds, ForwardInv, ForwardHolds, RollbackInv, RollbackHolds, Claimed, Unchanged, Restored, Conclusion, SuccessIsClean, PlainFailureIsClean, KeptIsListed, BelowKept
<1> QED
  BY <1>1, <1>2, <1>3, <1>4, <1>5, <1>6, <1>7

\* The start: nothing made, nothing committed.
LEMMA Initial == ASSUME Size, Init PROVE IndInv
<1>1. Typed
  <2>1. ControlTypes
    BY DEF Init, ControlTypes, Size
  <2>4. FlagTypes
    BY Zenon DEF Init, FlagTypes
  <2>3. ItemTypes
    <3>1. Fresh \in Items
      BY DEF Fresh, Items
    <3> QED
      BY <3>1 DEF Init, ItemTypes
  <2>2. DiskTypes /\ VaultTypes /\ NoteTypes
    BY DEF Init, DiskTypes, VaultTypes, NoteTypes, Contents, Size
  <2> QED
    BY <2>1, <2>2, <2>3, <2>4 DEF Typed
<1>2. PhaseInv /\ ItemInv /\ ForwardInv
  BY <1>1 DEF Init, PhaseInv, ItemInv, ItemHolds, ForwardInv, ForwardHolds, Fresh, Typed, ControlTypes, Size
<1>3. OldInv /\ RollbackInv /\ Conclusion
  BY DEF Init, Fresh, OldInv, BackupOutlivesFailure, OldBytesReachable, RollbackInv, RollbackHolds,
     Claimed, Unchanged, Conclusion, SuccessIsClean, PlainFailureIsClean, KeptIsListed
<1> QED
  BY <1>1, <1>2, <1>3 DEF IndInv

\* The files are numbered in publication order.
LEMMA Sized == ASSUME FilesAssumption PROVE Size
  BY DEF FilesAssumption, Size, Last

\* Every step keeps the invariant.
LEMMA Steps == ASSUME Size, IndInv, [Next]_vars PROVE IndInv'
<1>1. CASE Forward
  BY <1>1, PreflightKeeps, ObserveKeeps, PrepareStageKeeps, PrepareBackupKeeps, VerifyParentsKeeps,
     VerifyPrecommitKeeps, ReplaceNameKeeps, VerifyPublishedKeeps DEF Forward
<1>2. CASE Cleaning
  BY <1>2, VerifyBackupsKeeps, CleanBackupKeeps, CleanSyncKeeps, AuditBackupsKeeps DEF Cleaning
<1>3. CASE Rollback
  BY <1>3, SkipUnstagedKeeps, KeepUncertainKeeps, RollbackStageKeeps, RollbackBackupKeeps,
     ClaimCommittedKeeps, VerifyCommittedKeeps, RemoveNewKeeps, RestoreOriginalKeeps,
     RetainBackupKeeps, RemoveNewDirectoryKeeps, ReportKeeps DEF Rollback
<1>4. CASE Others
  BY <1>4, OthersWriteDestinationKeeps, OthersTouchSidecarsKeeps DEF Others
<1>5. CASE Die
  BY <1>5, DieKeeps
<1>6. CASE UNCHANGED vars
  BY <1>6, NothingHappens
<1> QED
  BY <1>1, <1>2, <1>3, <1>4, <1>5, <1>6 DEF Next

\* After the boundary no step of the publisher touches a destination.
LEMMA CompleteKeeps == ASSUME Size, IndInv, [Next]_vars PROVE CompleteStays
<1> SUFFICES ASSUME complete, outside' = outside PROVE dest' = dest
  BY DEF CompleteStays
<1>1. pc \in Cleaned \cup {"end"}
  BY DEF IndInv, PhaseInv, Typed, ControlTypes
<1>2. CASE Forward
  BY <1>1, <1>2 DEF Forward, Preflight, Observe, PrepareStage, PrepareBackup, VerifyParents,
     VerifyPrecommit, ReplaceName, VerifyPublished
<1>3. CASE Cleaning
  BY <1>3 DEF Cleaning, VerifyBackups, CleanBackup, CleanSync, AuditBackups, Still
<1>4. CASE Rollback
  BY <1>1, <1>4 DEF Rollback, SkipUnstaged, KeepUncertain, RollbackStage, RollbackBackup,
     ClaimCommitted, VerifyCommitted, RemoveNew, RestoreOriginal, RetainBackup, RemoveNewDirectory,
     Report
<1>5. CASE Others
  <2>1. outside' = outside + 1
    BY <1>5 DEF Others, OthersWriteDestination, OthersTouchSidecars
  <2>2. NoteTypes
    BY DEF IndInv, Typed
  <2>3. outside \in Nat
    BY <2>2 DEF NoteTypes, Size
  <2> QED
    BY <2>1, <2>3
<1>6. CASE Die \/ UNCHANGED vars
  BY <1>6 DEF Die, Still, vars
<1> QED
  BY <1>2, <1>3, <1>4, <1>5, <1>6 DEF Next

\* The invariant implies the safety properties.
LEMMA Promises ==
  ASSUME IndInv
  PROVE  /\ TypeOK /\ BackupOutlivesFailure /\ OldBytesReachable
         /\ SuccessIsClean /\ PlainFailureIsClean /\ KeptIsListed
  BY Types DEF IndInv, OldInv, Conclusion

-----------------------------------------------------------------------------
(* Files of others.                                                        *)

\* A quarantine keeps nothing of a file before the steps that claim it: those of the final
\* cleanup claim backups, those of the rollback the stage and the destination first.
VaultHolds(i) ==
    /\ pc \in Starting \cup Installing \cup {"verify"} => vault[i] = {}
    /\ pc = "clean" /\ cur <= i => vault[i] = {}
    /\ pc = "rollback" /\ i <= cur => vault[i] = {}
    /\ pc \in {"claimed", "restore", "restored"} /\ i < cur => vault[i] = {}
    /\ pc \in {"claimed", "restore", "restored"} /\ i = cur
         => \A c \in Contents : <<"backup", c>> \notin vault[i]
VaultInv == \A i \in Files : VaultHolds(i)

\* What goes from one place to another is not lost.
LEMMA NotFewer ==
  ASSUME NEW F, NEW G, IsFiniteSet(F), IsFiniteSet(G),
         F \subseteq G \/ \E s \in F, t \in G \ F : F \ {s} \subseteq G
  PROVE  Cardinality(F) <= Cardinality(G)
<1>1. CASE F \subseteq G
  BY <1>1, FS_Subset
<1>2. ASSUME NEW s \in F, NEW t \in G \ F, F \ {s} \subseteq G PROVE Cardinality(F) <= Cardinality(G)
  <2> DEFINE H == (F \ {s}) \cup {t}
  <2>1. IsFiniteSet(F \ {s}) /\ Cardinality(F \ {s}) = Cardinality(F) - 1
    BY FS_RemoveElement
  <2>2. IsFiniteSet(H) /\ Cardinality(H) = Cardinality(F \ {s}) + 1
    BY <1>2, <2>1, FS_AddElement
  <2>3. H \subseteq G
    BY <1>2
  <2>4. Cardinality(H) <= Cardinality(G)
    BY <2>3, FS_Subset
  <2>5. Cardinality(F) \in Nat
    BY FS_CardinalityType
  <2> HIDE DEF H
  <2> QED
    BY <2>1, <2>2, <2>4, <2>5
<1> QED
  BY <1>1, <1>2

\* A file of others may go from its name n into the quarantine v of the same slot.
LEMMA MovedAside ==
  ASSUME NEW A, IsFiniteSet(A), NEW n, NEW v,
         NEW F \in SUBSET (A \X {n, v}), NEW G \in SUBSET (A \X {n, v}), NEW s \in A,
         \A t \in A \ {s} : <<t, n>> \in F => <<t, n>> \in G,
         \A t \in A : <<t, v>> \in F => <<t, v>> \in G,
         <<s, n>> \in F => \/ <<s, n>> \in G
                           \/ <<s, v>> \notin F /\ <<s, v>> \in G
  PROVE  Cardinality(F) <= Cardinality(G)
<1> DEFINE D == A \X {n, v}
<1>1. IsFiniteSet({n} \cup {v})
  BY FS_Singleton, FS_Union
<1>2. {n, v} = {n} \cup {v}
  OBVIOUS
<1>3. IsFiniteSet(D)
  BY <1>1, <1>2, FS_Product
<1>4. IsFiniteSet(F) /\ IsFiniteSet(G)
  BY <1>3, FS_Subset
<1>5. ASSUME NEW f \in F PROVE f \in G \/ f = <<s, n>>
  <2>1. PICK t \in A, c \in {n, v} : f = <<t, c>>
    OBVIOUS
  <2> QED
    BY <1>5, <2>1
<1>6. CASE <<s, n>> \in F => <<s, n>> \in G
  <2>1. F \subseteq G
    BY <1>5, <1>6
  <2> QED
    BY <1>4, <2>1, NotFewer
<1>7. CASE <<s, n>> \in F /\ <<s, v>> \notin F /\ <<s, v>> \in G
  <2>1. F \ {<<s, n>>} \subseteq G
    BY <1>5
  <2>2. \E f \in F, t \in G \ F : F \ {f} \subseteq G
    BY <1>7, <2>1
  <2> QED
    BY <1>4, <2>2, NotFewer
<1> QED
  BY <1>6, <1>7


\* A file has three names.
LEMMA SlotsFinite == IsFiniteSet(Slots)
<1>1. IsFiniteSet({"dest"}) /\ IsFiniteSet({"stage"}) /\ IsFiniteSet({"backup"})
  BY FS_Singleton
<1>2. IsFiniteSet({"dest"} \cup {"stage"})
  BY <1>1, FS_Union
<1>3. IsFiniteSet({"dest"} \cup {"stage"} \cup {"backup"})
  BY <1>1, <1>2, FS_Union
<1>4. Slots = {"dest"} \cup {"stage"} \cup {"backup"}
  BY DEF Slots
<1> QED
  BY <1>3, <1>4

\* What others put somewhere, name by name and quarantine by quarantine.
LEMMA ForeignPlaces ==
  ASSUME NEW i \in Files
  PROVE  /\ Foreign(i) \in SUBSET (Slots \X {"name", "vault"})
         /\ Foreign(i)' \in SUBSET (Slots \X {"name", "vault"})
         /\ \A s \in Slots : /\ <<s, "name">> \in Foreign(i) <=> Holds(i, s) = "other"
                             /\ <<s, "vault">> \in Foreign(i) <=> <<s, "other">> \in vault[i]
                             /\ <<s, "name">> \in Foreign(i)' <=> Holds(i, s)' = "other"
                             /\ <<s, "vault">> \in Foreign(i)' <=> <<s, "other">> \in vault'[i]
<1>1. \A s \in Slots, c \in {"name", "vault"} : <<s, c>> \in Slots \X {"name", "vault"}
  OBVIOUS
<1> QED
  BY <1>1 DEF Foreign

\* One slot of the file may change, and what others left there goes to its quarantine.
LEMMA TakenAside ==
  ASSUME NEW i \in Files, NEW s \in Slots,
         \A t \in Slots \ {s} : Holds(i, t) = "other" => Holds(i, t)' = "other",
         \A t \in Slots : <<t, "other">> \in vault[i] => <<t, "other">> \in vault'[i],
         Holds(i, s) = "other" => \/ Holds(i, s)' = "other"
                                  \/ <<s, "other">> \notin vault[i] /\ <<s, "other">> \in vault'[i]
  PROVE  Cardinality(Foreign(i)) <= Cardinality(Foreign(i)')
<1> DEFINE F == Foreign(i)
           G == Foreign(i)'
<1>1. /\ F \in SUBSET (Slots \X {"name", "vault"}) /\ G \in SUBSET (Slots \X {"name", "vault"})
      /\ \A t \in Slots \ {s} : <<t, "name">> \in F => <<t, "name">> \in G
      /\ \A t \in Slots : <<t, "vault">> \in F => <<t, "vault">> \in G
      /\ <<s, "name">> \in F => \/ <<s, "name">> \in G
                                \/ <<s, "vault">> \notin F /\ <<s, "vault">> \in G
  BY ForeignPlaces
<1> HIDE DEF F, G
<1>2. Cardinality(F) <= Cardinality(G)
  BY <1>1, SlotsFinite, MovedAside
<1> QED
  BY <1>2 DEF F, G

\* Every step keeps to that.
LEMMA VaultSteps == ASSUME Size, IndInv, VaultInv, [Next]_vars PROVE VaultInv'
<1> SUFFICES ASSUME NEW i \in Files PROVE VaultHolds(i)'
  BY DEF VaultInv
<1>a. /\ VaultHolds(i) /\ VaultHolds(cur) /\ cur \in Files /\ cur \in Nat /\ i \in Nat
      /\ vault \in [Files -> SUBSET (Slots \X Contents)]
      /\ \A q, r \in Nat : q < r => ~(r < q)
  <2>1. cur \in 1 .. Last /\ vault \in [Files -> SUBSET (Slots \X Contents)]
    BY DEF IndInv, Typed, ControlTypes, VaultTypes
  <2> QED
    BY <2>1 DEF Size, VaultInv
<1>b. ASSUME vault[i] = {}, vault'[i] = vault[i] PROVE VaultHolds(i)'
  BY <1>b DEF VaultHolds
<1>c. ASSUME Down PROVE pc' = "directory" \/ (pc' = "rollback" /\ cur' = cur - 1 /\ cur' \in Nat)
  BY <1>a, <1>c DEF Down
<1>1. CASE Forward
  <2>1. pc \in Starting \cup Installing
    BY <1>1 DEF Forward, Preflight, Observe, PrepareStage, PrepareBackup, VerifyParents,
       VerifyPrecommit, ReplaceName, VerifyPublished
  <2>2. vault' = vault
    BY <1>1 DEF Forward, Preflight, Observe, PrepareStage, PrepareBackup, VerifyParents,
       VerifyPrecommit, ReplaceName, VerifyPublished, Still
  <2>3. vault[i] = {}
    BY <1>a, <2>1 DEF VaultHolds
  <2> QED
    BY <1>b, <2>2, <2>3
<1>2. CASE VerifyBackups
  <2>1. pc = "verify" /\ vault' = vault
    BY <1>2 DEF VerifyBackups, Still
  <2> QED
    BY <1>a, <1>b, <2>1 DEF VaultHolds
<1>3. CASE CleanBackup
  <2>1. /\ pc = "clean" /\ pc' \in {"clean", "cleansync"}
        /\ pc' = "clean" => cur' = cur + 1
    BY <1>3 DEF CleanBackup, Advance
  <2>2. i # cur => vault'[i] = vault[i]
    BY <1>a, <1>3 DEF CleanBackup, Keep, Still
  <2> QED
    BY <1>a, <2>1, <2>2 DEF VaultHolds
<1>4. CASE CleanSync \/ AuditBackups \/ RemoveNewDirectory \/ Report \/ Die
  <2>1. pc' \in {"audit", "end", "report"}
    BY <1>4 DEF CleanSync, AuditBackups, RemoveNewDirectory, Report, Die
  <2> QED
    BY <2>1 DEF VaultHolds
<1>5. CASE SkipUnstaged \/ KeepUncertain
  <2>1. pc = "rollback" /\ vault' = vault /\ Down
    BY <1>5 DEF SkipUnstaged, KeepUncertain, Still
  <2> QED
    BY <1>a, <1>c, <2>1 DEF VaultHolds
<1>6. CASE RollbackStage
  <2>1. PICK r \in Removal("new", stage[cur]) :
          /\ Keep(cur, "stage", r)
          /\ Down \/ (pc' = "restore" /\ cur' = cur)
    BY <1>6 DEF RollbackStage
  <2>2. pc = "rollback"
    BY <1>6 DEF RollbackStage
  <2>3. /\ i # cur => vault'[i] = vault[i]
        /\ vault'[cur] \in {vault[cur], vault[cur] \cup {<<"stage", r.kept>>}}
    BY <1>a, <2>1 DEF Keep
  <2>4. \A c \in Contents : <<"backup", c>> \notin vault'[cur]
    BY <1>a, <2>2, <2>3 DEF VaultHolds
  <2> QED
    BY <1>a, <1>c, <2>1, <2>2, <2>3, <2>4 DEF VaultHolds
<1>7. CASE RollbackBackup
  <2>1. pc = "restore" /\ Down
    BY <1>7 DEF RollbackBackup
  <2>2. i # cur => vault'[i] = vault[i]
    BY <1>a, <1>7 DEF RollbackBackup, Keep, Still
  <2> QED
    BY <1>a, <1>c, <2>1, <2>2 DEF VaultHolds
<1>8. CASE ClaimCommitted
  <2>1. pc = "rollback" /\ (Down \/ (pc' = "claimed" /\ cur' = cur))
    BY <1>8 DEF ClaimCommitted
  <2>2. /\ i # cur => vault'[i] = vault[i]
        /\ \E c : vault'[cur] \in {vault[cur], vault[cur] \cup {<<"dest", c>>}}
    BY <1>a, <1>8 DEF ClaimCommitted, Keep
  <2>3. \A c \in Contents : <<"backup", c>> \notin vault'[cur]
    BY <1>a, <2>1, <2>2 DEF VaultHolds
  <2> QED
    BY <1>a, <1>c, <2>1, <2>2, <2>3 DEF VaultHolds
<1>9. CASE VerifyCommitted \/ RemoveNew \/ RestoreOriginal \/ RetainBackup
  <2>1. pc \in {"claimed", "restore", "restored"}
    BY <1>9 DEF VerifyCommitted, RemoveNew, RestoreOriginal, RetainBackup
  <2>2. Down \/ (pc' \in {"restore", "restored"} /\ cur' = cur)
    BY <1>9 DEF VerifyCommitted, RemoveNew, RestoreOriginal, RetainBackup
  <2>3. vault' \in {vault, [vault EXCEPT ![cur] = @ \ {<<"dest", "new">>}]}
    BY <1>9 DEF VerifyCommitted, RemoveNew, RestoreOriginal, RetainBackup, FinishClaim, Still
  <2>4. vault'[i] \subseteq vault[i]
    BY <1>a, <2>3
  <2> QED
    BY <1>a, <1>c, <2>1, <2>2, <2>4 DEF VaultHolds
<1>10. CASE Others \/ UNCHANGED vars
  <2>1. UNCHANGED <<pc, cur, vault>>
    BY <1>10 DEF Others, OthersWriteDestination, OthersTouchSidecars, vars
  <2> QED
    BY <1>a, <2>1 DEF VaultHolds
<1> QED
  BY <1>1, <1>2, <1>3, <1>4, <1>5, <1>6, <1>7, <1>8, <1>9, <1>10 DEF Next, Cleaning, Rollback

\* At the start no quarantine keeps anything.
LEMMA VaultInitial == ASSUME Init PROVE VaultInv
  BY DEF Init, VaultInv, VaultHolds

\* A step that takes nothing of others away.
LEMMA HeldStill ==
  ASSUME NEW i \in Files,
         dest[i] = "other" => dest'[i] = "other", stage[i] = "other" => stage'[i] = "other",
         backup[i] = "other" => backup'[i] = "other",
         \A t \in Slots : <<t, "other">> \in vault[i] => <<t, "other">> \in vault'[i]
  PROVE  Cardinality(Foreign(i)) <= Cardinality(Foreign(i)')
<1>1. \A t \in Slots : Holds(i, t) = "other" => Holds(i, t)' = "other"
  BY DEF Holds, Slots
<1>2. "dest" \in Slots
  BY DEF Slots
<1> QED
  BY <1>1, <1>2, TakenAside

\* A removal by claim of one name of a file.
LEMMA ClaimedAside ==
  ASSUME NEW i \in Files, NEW s \in Slots, NEW own \in {"new", "copy", "nobody"},
         NEW r \in Removal(own, Holds(i, s)),
         vault \in [Files -> SUBSET (Slots \X Contents)],
         vault' = IF r.kept = None THEN vault ELSE [vault EXCEPT ![i] = @ \cup {<<s, r.kept>>}],
         \A c \in Contents : <<s, c>> \notin vault[i],
         Holds(i, s)' = r.name, \A t \in Slots \ {s} : Holds(i, t)' = Holds(i, t)
  PROVE  Cardinality(Foreign(i)) <= Cardinality(Foreign(i)')
<1>1. Holds(i, s) = "other" => r.name = "other" \/ r.kept = "other"
  BY DEF Removal
<1>2. /\ vault[i] \subseteq vault'[i]
      /\ r.kept # None => <<s, r.kept>> \in vault'[i]
  OBVIOUS
<1>3. "other" \in Contents
  BY DEF Contents
<1>4. Holds(i, s) = "other" => \/ Holds(i, s)' = "other"
                               \/ <<s, "other">> \notin vault[i] /\ <<s, "other">> \in vault'[i]
  BY <1>1, <1>2, <1>3
<1> QED
  BY <1>2, <1>4, TakenAside

\* A step of the publisher is about one file.
LEMMA OneFile ==
  ASSUME Size, IndInv, NEW i \in Files, i # cur, Forward \/ Cleaning \/ Rollback
  PROVE  /\ dest'[i] = dest[i] /\ stage'[i] = stage[i] /\ backup'[i] = backup[i]
         /\ vault'[i] = vault[i]
<1>a. /\ dest \in [Files -> Contents \cup {None}] /\ stage \in [Files -> Contents \cup {None}]
      /\ backup \in [Files -> Contents \cup {None}] /\ vault \in [Files -> SUBSET (Slots \X Contents)]
  BY DEF IndInv, Typed, DiskTypes, VaultTypes
<1>1. CASE Forward
  BY <1>a, <1>1 DEF Forward, Preflight, Observe, PrepareStage, PrepareBackup, VerifyParents,
     VerifyPrecommit, ReplaceName, VerifyPublished, Still
<1>2. CASE Cleaning
  BY <1>a, <1>2 DEF Cleaning, VerifyBackups, CleanBackup, CleanSync, AuditBackups, Keep, Still
<1>3. CASE SkipUnstaged \/ KeepUncertain \/ RollbackStage \/ RollbackBackup
  BY <1>a, <1>3 DEF SkipUnstaged, KeepUncertain, RollbackStage, RollbackBackup, Keep, Still
<1>4. CASE ClaimCommitted \/ VerifyCommitted \/ RemoveNewDirectory \/ Report
  BY <1>a, <1>4 DEF ClaimCommitted, VerifyCommitted, RemoveNewDirectory, Report, Keep, Still
<1>5. CASE RemoveNew \/ RestoreOriginal \/ RetainBackup
  BY <1>a, <1>5 DEF RemoveNew, RestoreOriginal, RetainBackup, FinishClaim
<1> QED
  BY <1>1, <1>2, <1>3, <1>4, <1>5 DEF Rollback

\* What others put there is moved at most: the publisher's own files are the only ones it
\* unlinks, a name is taken into a quarantine once, and nothing is put over an existing name.
LEMMA OthersStay == ASSUME Size, IndInv, VaultInv, [Next]_vars PROVE OthersKept
<1> SUFFICES ASSUME outside' = outside, pc # "commit", NEW i \in Files
             PROVE  Cardinality(Foreign(i)) <= Cardinality(Foreign(i)')
  BY DEF OthersKept
<1>a. /\ outside \in Nat /\ cur \in Files /\ cur \in Nat /\ VaultHolds(cur) /\ ItemHolds(cur) /\ ForwardHolds(cur)
      /\ vault \in [Files -> SUBSET (Slots \X Contents)]
      /\ dest \in [Files -> Contents \cup {None}] /\ stage \in [Files -> Contents \cup {None}]
      /\ backup \in [Files -> Contents \cup {None}]
  <2>1. cur \in 1 .. Last /\ outside \in 0 .. MaxOutside
    BY DEF IndInv, Typed, ControlTypes, NoteTypes
  <2>2. cur \in Files /\ outside \in Nat /\ cur \in Nat
    BY <2>1 DEF Size
  <2> QED
    BY <2>2 DEF IndInv, Typed, DiskTypes, VaultTypes, VaultInv, ItemInv, ForwardInv
<1>b. ~Others
  <2>1. Others => outside' = outside + 1
    BY DEF Others, OthersWriteDestination, OthersTouchSidecars
  <2> QED
    BY <1>a, <2>1
<1>c. CASE UNCHANGED <<names, vault>>
  BY <1>c, HeldStill
<1>d. CASE i # cur /\ (Forward \/ Cleaning \/ Rollback)
  BY <1>d, OneFile, HeldStill
<1>e. CASE i = cur /\ Forward /\ ~UNCHANGED <<names, vault>>
  <2>1. PrepareStage \/ PrepareBackup
    BY <1>e DEF Forward, Preflight, Observe, VerifyParents, VerifyPrecommit, ReplaceName,
       VerifyPublished, Still
  <2>2. CASE PrepareStage
    <3>0. pc = "stage" /\ UNCHANGED <<dest, backup, vault>>
      BY <2>2 DEF PrepareStage
    <3>2. item[cur].stage = "none"
      BY <1>a, <3>0 DEF ForwardHolds
    <3>1. stage[cur] # "other" /\ UNCHANGED <<dest, backup, vault>>
      BY <1>a, <3>0, <3>2 DEF ItemHolds
    <3> QED
      BY <1>e, <3>1, HeldStill
  <2>3. CASE PrepareBackup
    <3>0. pc = "backup" /\ UNCHANGED <<dest, stage, vault>>
      BY <2>3 DEF PrepareBackup, Still
    <3>2. item[cur].backup = "none"
      BY <1>a, <3>0 DEF ForwardHolds
    <3>1. backup[cur] # "other" /\ UNCHANGED <<dest, stage, vault>>
      BY <1>a, <3>0, <3>2 DEF ItemHolds
    <3> QED
      BY <1>e, <3>1, HeldStill
  <2> QED
    BY <2>1, <2>2, <2>3
<1>f. CASE i = cur /\ Cleaning /\ ~UNCHANGED <<names, vault>>
  <2>1. CleanBackup
    BY <1>f DEF Cleaning, VerifyBackups, CleanSync, AuditBackups, Still
  <2>2. PICK r \in Removal("copy", backup[cur]) :
          /\ backup' = [backup EXCEPT ![cur] = r.name] /\ Keep(cur, "backup", r)
    BY <1>f, <2>1 DEF CleanBackup, Still
  <2>3. pc = "clean" /\ UNCHANGED <<dest, stage>>
    BY <2>1 DEF CleanBackup, Still
  <2>4. \A c \in Contents : <<"backup", c>> \notin vault[cur]
    BY <1>a, <1>f, <2>3 DEF VaultHolds
  <2>5. /\ Holds(i, "backup") = backup[cur] /\ Holds(i, "backup")' = r.name /\ "backup" \in Slots
        /\ \A t \in Slots \ {"backup"} : Holds(i, t)' = Holds(i, t)
    BY <1>a, <1>f, <2>2, <2>3 DEF Holds, Slots
  <2> QED
    BY <1>a, <1>f, <2>2, <2>4, <2>5, ClaimedAside DEF Keep
<1>g. CASE i = cur /\ RollbackStage
  <2>1. PICK r \in Removal("new", stage[cur]) :
          /\ stage' = [stage EXCEPT ![cur] = r.name] /\ Keep(cur, "stage", r)
    BY <1>g DEF RollbackStage
  <2>2. pc = "rollback" /\ UNCHANGED <<dest, backup>>
    BY <1>g DEF RollbackStage
  <2>3. \A c \in Contents : <<"stage", c>> \notin vault[cur]
    BY <1>a, <1>g, <2>2 DEF VaultHolds
  <2>4. /\ Holds(i, "stage") = stage[cur] /\ Holds(i, "stage")' = r.name /\ "stage" \in Slots
        /\ \A t \in Slots \ {"stage"} : Holds(i, t)' = Holds(i, t)
    BY <1>a, <1>g, <2>1, <2>2 DEF Holds, Slots
  <2> QED
    BY <1>a, <1>g, <2>1, <2>3, <2>4, ClaimedAside DEF Keep
<1>h. CASE i = cur /\ RollbackBackup /\ ~UNCHANGED <<names, vault>>
  <2>1. PICK r \in Removal("copy", backup[cur]) :
          /\ backup' = [backup EXCEPT ![cur] = r.name] /\ Keep(cur, "backup", r)
    BY <1>h DEF RollbackBackup, Still
  <2>2. pc = "restore" /\ UNCHANGED <<dest, stage>>
    BY <1>h DEF RollbackBackup, Still
  <2>3. \A c \in Contents : <<"backup", c>> \notin vault[cur]
    BY <1>a, <1>h, <2>2 DEF VaultHolds
  <2>4. /\ Holds(i, "backup") = backup[cur] /\ Holds(i, "backup")' = r.name /\ "backup" \in Slots
        /\ \A t \in Slots \ {"backup"} : Holds(i, t)' = Holds(i, t)
    BY <1>a, <1>h, <2>1, <2>2 DEF Holds, Slots
  <2> QED
    BY <1>a, <1>h, <2>1, <2>3, <2>4, ClaimedAside DEF Keep
<1>i. CASE i = cur /\ ClaimCommitted
  <2>1. pc = "rollback" /\ UNCHANGED <<stage, backup>>
    BY <1>i DEF ClaimCommitted
  <2>2. \A c \in Contents : <<"dest", c>> \notin vault[cur]
    BY <1>a, <1>i, <2>1 DEF VaultHolds
  <2>3. /\ Holds(i, "dest") = dest[cur] /\ Holds(i, "dest")' = dest'[i] /\ "dest" \in Slots
        /\ \A t \in Slots \ {"dest"} : Holds(i, t)' = Holds(i, t)
    BY <1>a, <1>i, <2>1 DEF Holds, Slots
  <2>4. CASE \E r \in Removal("nobody", dest[cur]) :
               dest' = [dest EXCEPT ![cur] = r.name] /\ Keep(cur, "dest", r)
    <3>1. PICK r \in Removal("nobody", dest[cur]) :
            dest' = [dest EXCEPT ![cur] = r.name] /\ Keep(cur, "dest", r)
      BY <2>4
    <3>2. dest'[cur] = r.name
      BY <1>a, <1>i, <3>1
    <3> QED
      BY <1>a, <1>i, <2>2, <2>3, <3>1, <3>2, ClaimedAside DEF Keep
  <2>5. CASE /\ dest[cur] # None
             /\ vault' = [vault EXCEPT ![cur] = @ \cup {<<"dest", dest[cur]>>}]
    <3>1. vault[cur] \subseteq vault'[cur] /\ <<"dest", dest[cur]>> \in vault'[cur]
      BY <1>a, <1>i, <2>5
    <3>2. "other" \in Contents
      BY DEF Contents
    <3> QED
      BY <1>i, <2>2, <2>3, <3>1, <3>2, TakenAside
  <2> QED
    BY <1>i, <2>4, <2>5 DEF ClaimCommitted
<1>j. CASE i = cur /\ (RemoveNew \/ RestoreOriginal \/ RetainBackup)
  <2>1. vault' \in {vault, [vault EXCEPT ![cur] = @ \ {<<"dest", "new">>}]}
    BY <1>j DEF RemoveNew, RestoreOriginal, RetainBackup, FinishClaim
  <2>2. UNCHANGED <<stage, backup>> /\ (dest[cur] = "other" => dest'[cur] = "other")
    BY <1>j DEF RemoveNew, RestoreOriginal, RetainBackup
  <2>3. \A t \in Slots : <<t, "other">> \in vault[cur] => <<t, "other">> \in vault'[cur]
    BY <1>a, <1>j, <2>1
  <2> QED
    BY <1>j, <2>2, <2>3, HeldStill
<1>k. CASE SkipUnstaged \/ KeepUncertain \/ VerifyCommitted \/ RemoveNewDirectory \/ Report \/ Die
           \/ UNCHANGED vars
  <2>1. UNCHANGED <<names, vault>>
    BY <1>k DEF SkipUnstaged, KeepUncertain, VerifyCommitted, RemoveNewDirectory, Report, Die, Still, vars
  <2> QED
    BY <1>c, <2>1
<1> QED
  BY <1>b, <1>c, <1>d, <1>e, <1>f, <1>g, <1>h, <1>i, <1>j, <1>k DEF Next, Rollback

-----------------------------------------------------------------------------
(* The specification.                                                      *)

RollsBack == IndInv /\ VaultInv

\* Whatever fails, whatever others do and however often, all of that holds.
THEOREM Invariance == ASSUME FilesAssumption PROVE Spec => []RollsBack
<1>1. Size
  BY Sized
<1>2. Init => RollsBack
  BY <1>1, Initial, VaultInitial DEF RollsBack
<1>3. RollsBack /\ [Next]_vars => RollsBack'
  BY <1>1, Steps, VaultSteps DEF RollsBack
<1> QED
  BY <1>2, <1>3, PTL DEF Spec

\* The old bytes stay reachable until the new generation is complete: through every failure,
\* through rollback, and when the process dies (_prepare_backup, _rollback_item).
THEOREM OldBytesKept ==
  ASSUME FilesAssumption PROVE Spec => [](BackupOutlivesFailure /\ OldBytesReachable)
<1>1. RollsBack => BackupOutlivesFailure /\ OldBytesReachable
  BY Promises DEF RollsBack
<1> QED
  BY <1>1, Invariance, PTL

\* How publish_outputs ended is what happened: all published and clean, or nothing changed,
\* or whatever is left is listed.
THEOREM OutcomeTold ==
  ASSUME FilesAssumption PROVE Spec => [](SuccessIsClean /\ PlainFailureIsClean /\ KeptIsListed)
<1>1. RollsBack => SuccessIsClean /\ PlainFailureIsClean /\ KeptIsListed
  BY Promises DEF RollsBack
<1> QED
  BY <1>1, Invariance, PTL

\* Files of others are moved aside at most, and a complete generation is never taken back.
THEOREM OthersAndCompleteStay ==
  ASSUME FilesAssumption PROVE Spec => [][OthersKept /\ CompleteStays]_vars
<1>1. Size
  BY Sized
<1>2. RollsBack /\ [Next]_vars => [OthersKept /\ CompleteStays]_vars
  BY <1>1, OthersStay, CompleteKeeps DEF RollsBack
<1> QED
  BY <1>2, Invariance, PTL DEF Spec
=============================================================================
