-------------------------- MODULE PublicationProofs --------------------------
(***************************************************************************)
(* The publication tools of MCPublication for every number of files,       *)
(* members and publishers and every bound on the moves of others.  A       *)
(* behaviour is about one component; what ReportPublicationProofs proves   *)
(* of the publication of reports is used here, and the package, the build  *)
(* inventory, the test inventory and the removal by quarantine are proved  *)
(* below, each from an inductive invariant of its own.                     *)
(***************************************************************************)
EXTENDS MCPublication, FiniteSetTheorems, TLAPS

-----------------------------------------------------------------------------
(* Files of others.                                                        *)

\* What goes from one place to another is not lost.
LEMMA NotFewer ==
  ASSUME NEW F, NEW G, IsFiniteSet(F), IsFiniteSet(G),
         F \subseteq G \/ \E s \in F, t \in G \ F : F \ {s} \subseteq G
  PROVE  Cardinality(F) <= Cardinality(G)
<1>1. CASE F \subseteq G
  BY <1>1, FS_Subset
<1>2. ASSUME NEW s \in F, NEW t \in G \ F, F \ {s} \subseteq G PROVE Cardinality(F) <= Cardinality(G)
  <2> DEFINE H == (F \ {s}) \cup {t}
  <2>1. IsFiniteSet(F \ {s}) /\ Cardinality(F \ {s}) = Cardinality(F) - 1
    BY FS_RemoveElement
  <2>2. IsFiniteSet(H) /\ Cardinality(H) = Cardinality(F \ {s}) + 1
    BY <1>2, <2>1, FS_AddElement
  <2>3. H \subseteq G
    BY <1>2
  <2>4. Cardinality(H) <= Cardinality(G)
    BY <2>3, FS_Subset
  <2>5. Cardinality(F) \in Nat
    BY FS_CardinalityType
  <2> HIDE DEF H
  <2> QED
    BY <2>1, <2>2, <2>4, <2>5
<1> QED
  BY <1>1, <1>2

\* A file of others may go from its name n into the quarantine v of the same slot.
LEMMA MovedAside ==
  ASSUME NEW A, IsFiniteSet(A), NEW n, NEW v,
         NEW F \in SUBSET (A \X {n, v}), NEW G \in SUBSET (A \X {n, v}), NEW s \in A,
         \A t \in A \ {s} : <<t, n>> \in F => <<t, n>> \in G,
         \A t \in A : <<t, v>> \in F => <<t, v>> \in G,
         <<s, n>> \in F => \/ <<s, n>> \in G
                           \/ <<s, v>> \notin F /\ <<s, v>> \in G
  PROVE  Cardinality(F) <= Cardinality(G)
<1> DEFINE D == A \X {n, v}
<1>1. IsFiniteSet({n} \cup {v})
  BY FS_Singleton, FS_Union
<1>2. {n, v} = {n} \cup {v}
  OBVIOUS
<1>3. IsFiniteSet(D)
  BY <1>1, <1>2, FS_Product
<1>4. IsFiniteSet(F) /\ IsFiniteSet(G)
  BY <1>3, FS_Subset
<1>5. ASSUME NEW f \in F PROVE f \in G \/ f = <<s, n>>
  <2>1. PICK t \in A, c \in {n, v} : f = <<t, c>>
    OBVIOUS
  <2> QED
    BY <1>5, <2>1
<1>6. CASE <<s, n>> \in F => <<s, n>> \in G
  <2>1. F \subseteq G
    BY <1>5, <1>6
  <2> QED
    BY <1>4, <2>1, NotFewer
<1>7. CASE <<s, n>> \in F /\ <<s, v>> \notin F /\ <<s, v>> \in G
  <2>1. F \ {<<s, n>>} \subseteq G
    BY <1>5
  <2>2. \E f \in F, t \in G \ F : F \ {f} \subseteq G
    BY <1>7, <2>1
  <2> QED
    BY <1>4, <2>2, NotFewer
<1> QED
  BY <1>6, <1>7

-----------------------------------------------------------------------------
(* The package archive.                                                    *)

\* The library of finite sets is the one of the publication of a package.
LEMMA PkgFiniteSets == \A set : P!Cardinality(set) = Cardinality(set)
  BY DEF P!Cardinality, Cardinality, P!IsFiniteSet, IsFiniteSet

\* The steps, by what they are for.
PkgEarly   == {"enumerated", "entry", "temporary"}
PkgMaking  == {"observe", "member", "seal", "during", "link"}
PkgLinked  == {"second", "before", "third", "replace"}
PkgPublic  == {"after", "source", "boundary"}
PkgUndoing == {"rollback", "claimed", "restore", "relink", "restored", "remove"}
PkgClosing == {"close", "directory", "cleanup", "exit", "end"}
PkgForward == PkgEarly \cup PkgMaking \cup PkgLinked

PkgNames ==
    /\ dest \in P!Contents \cup {P!None} /\ temp \in P!Contents \cup {P!None}
    /\ backup \in P!Contents \cup {P!None} /\ vault \subseteq P!Slots \X P!Contents
    /\ stale \subseteq Members \cup {listing} /\ staleAtCommit \subseteq Members \cup {listing}
    /\ before \in {"old", P!None}
PkgFlags ==
    /\ intact \in BOOLEAN /\ arena \in BOOLEAN /\ residue \in BOOLEAN /\ original \in BOOLEAN
    /\ hasBackup \in BOOLEAN /\ failed \in BOOLEAN /\ named \in BOOLEAN /\ lost \in BOOLEAN
    /\ touched \in BOOLEAN /\ meddled \in BOOLEAN
PkgControl ==
    /\ pc \in PkgForward \cup PkgPublic \cup {"undo"} \cup PkgUndoing \cup PkgClosing
    /\ at \in Members /\ state \in P!States /\ outside \in 0 .. MaxMoves
    /\ result \in {"none", "ok", "raised", "explained", "uninspected", "unclosed", "complete",
                   "dead"}

\* The destination is what it was.
PkgUntouched == dest # "new" /\ (touched \/ dest = before)

PkgPhases ==
    /\ pc \in PkgForward => ~P!Committed /\ ~failed /\ PkgUntouched /\ staleAtCommit = {}
    /\ pc \in PkgForward \cup PkgPublic => vault = {} /\ result = "none"
    /\ pc \in PkgPublic => P!Committed /\ ~failed
    /\ pc \in PkgUndoing => failed /\ result = "none"
    /\ pc = "rollback" => vault = {}
    /\ pc = "undo" => /\ failed /\ ~P!Committed /\ vault = {}
                      /\ result \in {"none", "explained", "uninspected"}
    /\ pc = "undo" /\ result = "none" => PkgUntouched
    /\ pc = "close" => failed \/ (P!Complete /\ vault = {} /\ result = "none")
    /\ pc = "directory" => failed
    /\ pc \in {"close", "directory"} /\ failed
          => result \in {"raised", "explained", "uninspected"}
    /\ pc = "cleanup" => P!Complete /\ hasBackup /\ vault = {} /\ result = "none"
    /\ pc = "exit" => P!Complete /\ result = "none" /\ (backup # "old" \/ meddled)
    /\ P!Complete => pc \in PkgClosing /\ ~failed

PkgBackup ==
    /\ pc \in PkgEarly => ~original /\ temp = P!None
    /\ pc \in PkgEarly \cup PkgMaking => ~hasBackup
    /\ ~hasBackup => backup = P!None
    /\ hasBackup => original
    /\ pc \in PkgLinked \cup PkgPublic \cup PkgUndoing =>
          (original /\ before = "old" /\ ~touched /\ ~meddled => backup = "old")
    /\ P!Committed \/ P!Complete => temp # "new"

PkgSource ==
    /\ staleAtCommit \subseteq stale
    /\ state \in {"PUBLISHED_SOURCE_VERIFIED", "TRANSACTION_COMPLETE"} => staleAtCommit = {}
    /\ pc \in {"source", "boundary"} \/ P!Complete => dest = "new" \/ touched

PkgEnds ==
    /\ pc \in {"close", "directory"} /\ failed /\ backup = "old" /\ ~lost /\ ~meddled => named
    /\ result = "raised" => PkgUntouched /\ vault = {} /\ temp # "new" /\ ~hasBackup
    /\ result = "ok" => P!Complete /\ temp # "new" /\ vault = {} /\ arena /\ (backup = "old" => meddled)
    /\ P!BackupIsNamed

PkgInv == /\ PkgNames /\ PkgFlags /\ PkgControl /\ PkgPhases /\ PkgBackup /\ PkgSource
          /\ PkgEnds /\ P!PriorReachable

USE DEF P!Committed, P!Complete, P!None, P!names, P!disk, P!ends, P!history, PkgForward,
        PkgEarly, PkgMaking, PkgLinked, PkgPublic, PkgUndoing, PkgClosing

\* What one removal by claim can leave of a name.
LEMMA PkgRemoving ==
  ASSUME NEW own, NEW x, NEW r \in P!Removal(own, x)
  PROVE  /\ r.name \in {x, P!None} /\ r.kept \in {x, P!None} /\ r.lost \in BOOLEAN
         /\ r.answer \in {"removed", "absent"} => r.name = P!None /\ r.kept = P!None
         /\ r.answer \in {"removed", "absent", "kept", "unclaimed"}
         /\ r.kept # P!None => r.name = P!None
  BY DEF P!Removal

\* And of the quarantine of that name.
LEMMA PkgKept ==
  ASSUME PkgNames, NEW x \in P!Contents \cup {P!None}, NEW s \in P!Slots, NEW r \in P!Removal("new", x) \cup P!Removal("old", x) \cup P!Removal("nobody", x), P!Keep(s, r)
  PROVE  vault' \subseteq P!Slots \X P!Contents
<1>1. r.kept \in {x, P!None}
  BY PkgRemoving
<1> QED
  BY <1>1 DEF P!Keep, PkgNames

\* The members are verified once enumerated.
LEMMA PkgVerifyEnumeratedKeeps == ASSUME P!MembersAssumption, PkgInv, P!VerifyEnumerated PROVE PkgInv'
<1> USE DEF PkgInv, P!VerifyEnumerated, P!Go, P!Refuse, P!SourceHolds, P!Still
<1>1. PkgNames'
  BY DEF PkgNames, P!Contents, P!Slots
<1>2. PkgFlags'
  BY DEF PkgFlags
<1>3. PkgControl'
  BY DEF PkgControl, P!States, P!MembersAssumption, PkgPhases
<1>4. PkgPhases'
  BY DEF PkgPhases, PkgControl, PkgBackup, PkgEnds, PkgNames, PkgFlags, PkgUntouched
<1>5. PkgBackup'
  BY DEF PkgPhases, PkgBackup, PkgControl, PkgNames, PkgFlags, PkgUntouched
<1>6. PkgSource'
  BY DEF PkgPhases, PkgSource, PkgControl, PkgNames, PkgFlags
<1>7. PkgEnds'
  BY DEF PkgPhases, PkgControl, PkgBackup, PkgEnds, PkgNames, PkgFlags, PkgUntouched,
         P!BackupIsNamed
<1>8. P!PriorReachable'
  BY DEF P!PriorReachable, PkgPhases, PkgBackup, PkgControl, PkgUntouched, PkgFlags, PkgNames
<1> QED
  BY <1>1, <1>2, <1>3, <1>4, <1>5, <1>6, <1>7, <1>8

\* The audit on entry of the transaction.
LEMMA PkgAuditEntryKeeps == ASSUME P!MembersAssumption, PkgInv, P!AuditEntry PROVE PkgInv'
<1> USE DEF PkgInv, P!AuditEntry, P!Go, P!Refuse, P!Still
<1>1. PkgNames'
  BY DEF PkgNames, P!Contents, P!Slots
<1>2. PkgFlags'
  BY DEF PkgFlags
<1>3. PkgControl'
  BY DEF PkgControl, P!States, P!MembersAssumption, PkgPhases
<1>4. PkgPhases'
  BY DEF PkgPhases, PkgControl, PkgBackup, PkgEnds, PkgNames, PkgFlags, PkgUntouched
<1>5. PkgBackup'
  BY DEF PkgPhases, PkgBackup, PkgControl, PkgNames, PkgFlags, PkgUntouched
<1>6. PkgSource'
  BY DEF PkgPhases, PkgSource, PkgControl, PkgNames, PkgFlags
<1>7. PkgEnds'
  BY DEF PkgPhases, PkgControl, PkgBackup, PkgEnds, PkgNames, PkgFlags, PkgUntouched,
         P!BackupIsNamed
<1>8. P!PriorReachable'
  BY DEF P!PriorReachable, PkgPhases, PkgBackup, PkgControl, PkgUntouched, PkgFlags, PkgNames
<1> QED
  BY <1>1, <1>2, <1>3, <1>4, <1>5, <1>6, <1>7, <1>8

\* The temporary archive is made where nothing was.
LEMMA PkgCreateTemporaryKeeps == ASSUME P!MembersAssumption, PkgInv, P!CreateTemporary PROVE PkgInv'
<1> USE DEF PkgInv, P!CreateTemporary, P!Go, P!Refuse
<1>1. PkgNames'
  BY DEF PkgNames, P!Contents, P!Slots
<1>2. PkgFlags'
  BY DEF PkgFlags
<1>3. PkgControl'
  BY DEF PkgControl, P!States, P!MembersAssumption, PkgPhases
<1>4. PkgPhases'
  BY DEF PkgPhases, PkgControl, PkgBackup, PkgEnds, PkgNames, PkgFlags, PkgUntouched
<1>5. PkgBackup'
  BY DEF PkgPhases, PkgBackup, PkgControl, PkgNames, PkgFlags, PkgUntouched
<1>6. PkgSource'
  BY DEF PkgPhases, PkgSource, PkgControl, PkgNames, PkgFlags
<1>7. PkgEnds'
  BY DEF PkgPhases, PkgControl, PkgBackup, PkgEnds, PkgNames, PkgFlags, PkgUntouched,
         P!BackupIsNamed
<1>8. P!PriorReachable'
  BY DEF P!PriorReachable, PkgPhases, PkgBackup, PkgControl, PkgUntouched, PkgFlags, PkgNames
<1> QED
  BY <1>1, <1>2, <1>3, <1>4, <1>5, <1>6, <1>7, <1>8

\* The destination is observed: whether there is a prior archive.
LEMMA PkgObserveDestinationKeeps == ASSUME P!MembersAssumption, PkgInv, P!ObserveDestination PROVE PkgInv'
<1> USE DEF PkgInv, P!ObserveDestination, P!Fail, P!Go, P!Still
<1>1. PkgNames'
  BY DEF PkgNames, P!Contents, P!Slots
<1>2. PkgFlags'
  BY DEF PkgFlags
<1>3. PkgControl'
  BY DEF PkgControl, P!States, P!MembersAssumption, PkgPhases
<1>4. PkgPhases'
  <2>1. UNCHANGED <<dest, vault, before, staleAtCommit, touched, meddled, state>> /\ pc = "observe"
    BY DEF P!names
  <2>2. \/ pc' = "member" /\ UNCHANGED <<failed, result>>
        \/ pc' = "undo" /\ failed' = TRUE /\ result' = result
        \/ pc' = "close" /\ failed' = TRUE /\ result' = "explained"
    BY DEF PkgPhases
  <2> HIDE DEF P!ObserveDestination
  <2> QED
    BY <2>1, <2>2 DEF PkgPhases, PkgControl, PkgUntouched
<1>5. PkgBackup'
  BY DEF PkgPhases, PkgBackup, PkgControl, PkgNames, PkgFlags, PkgUntouched
<1>6. PkgSource'
  BY DEF PkgPhases, PkgSource, PkgControl, PkgNames, PkgFlags
<1>7. PkgEnds'
  BY DEF PkgPhases, PkgControl, PkgBackup, PkgEnds, PkgNames, PkgFlags, PkgUntouched,
         P!BackupIsNamed
<1>8. P!PriorReachable'
  BY DEF P!PriorReachable, PkgPhases, PkgBackup, PkgControl, PkgUntouched, PkgFlags, PkgNames
<1> QED
  BY <1>1, <1>2, <1>3, <1>4, <1>5, <1>6, <1>7, <1>8

\* One member goes into the archive.
LEMMA PkgReadMemberKeeps == ASSUME P!MembersAssumption, PkgInv, P!ReadMember PROVE PkgInv'
<1> USE DEF PkgInv, P!ReadMember, P!Fail, P!MemberIsFrozen, P!Still
<1>1. PkgNames'
  BY DEF PkgNames, P!Contents, P!Slots
<1>2. PkgFlags'
  BY DEF PkgFlags
<1>3. PkgControl'
  BY DEF PkgControl, P!States, P!MembersAssumption, PkgPhases
<1>4. PkgPhases'
  BY DEF PkgPhases, PkgControl, PkgBackup, PkgEnds, PkgNames, PkgFlags, PkgUntouched
<1>5. PkgBackup'
  BY DEF PkgPhases, PkgBackup, PkgControl, PkgNames, PkgFlags, PkgUntouched
<1>6. PkgSource'
  BY DEF PkgPhases, PkgSource, PkgControl, PkgNames, PkgFlags
<1>7. PkgEnds'
  BY DEF PkgPhases, PkgControl, PkgBackup, PkgEnds, PkgNames, PkgFlags, PkgUntouched,
         P!BackupIsNamed
<1>8. P!PriorReachable'
  BY DEF P!PriorReachable, PkgPhases, PkgBackup, PkgControl, PkgUntouched, PkgFlags, PkgNames
<1> QED
  BY <1>1, <1>2, <1>3, <1>4, <1>5, <1>6, <1>7, <1>8

\* The archive is closed and sealed.
LEMMA PkgSealArchiveKeeps == ASSUME P!MembersAssumption, PkgInv, P!SealArchive PROVE PkgInv'
<1> USE DEF PkgInv, P!SealArchive, P!Fail, P!Go, P!Still
<1>1. PkgNames'
  BY DEF PkgNames, P!Contents, P!Slots
<1>2. PkgFlags'
  BY DEF PkgFlags
<1>3. PkgControl'
  BY DEF PkgControl, P!States, P!MembersAssumption, PkgPhases
<1>4. PkgPhases'
  BY DEF PkgPhases, PkgControl, PkgBackup, PkgEnds, PkgNames, PkgFlags, PkgUntouched
<1>5. PkgBackup'
  BY DEF PkgPhases, PkgBackup, PkgControl, PkgNames, PkgFlags, PkgUntouched
<1>6. PkgSource'
  BY DEF PkgPhases, PkgSource, PkgControl, PkgNames, PkgFlags
<1>7. PkgEnds'
  BY DEF PkgPhases, PkgControl, PkgBackup, PkgEnds, PkgNames, PkgFlags, PkgUntouched,
         P!BackupIsNamed
<1>8. P!PriorReachable'
  BY DEF P!PriorReachable, PkgPhases, PkgBackup, PkgControl, PkgUntouched, PkgFlags, PkgNames
<1> QED
  BY <1>1, <1>2, <1>3, <1>4, <1>5, <1>6, <1>7, <1>8

\* The sources are verified again.
LEMMA PkgVerifyDuringKeeps == ASSUME P!MembersAssumption, PkgInv, P!VerifyDuring PROVE PkgInv'
<1> USE DEF PkgInv, P!VerifyDuring, P!Check, P!Fail, P!Go, P!SourceHolds, P!Still
<1>1. PkgNames'
  BY DEF PkgNames, P!Contents, P!Slots
<1>2. PkgFlags'
  BY DEF PkgFlags
<1>3. PkgControl'
  BY DEF PkgControl, P!States, P!MembersAssumption, PkgPhases
<1>4. PkgPhases'
  BY DEF PkgPhases, PkgControl, PkgBackup, PkgEnds, PkgNames, PkgFlags, PkgUntouched
<1>5. PkgBackup'
  BY DEF PkgPhases, PkgBackup, PkgControl, PkgNames, PkgFlags, PkgUntouched
<1>6. PkgSource'
  BY DEF PkgPhases, PkgSource, PkgControl, PkgNames, PkgFlags
<1>7. PkgEnds'
  BY DEF PkgPhases, PkgControl, PkgBackup, PkgEnds, PkgNames, PkgFlags, PkgUntouched,
         P!BackupIsNamed
<1>8. P!PriorReachable'
  BY DEF P!PriorReachable, PkgPhases, PkgBackup, PkgControl, PkgUntouched, PkgFlags, PkgNames
<1> QED
  BY <1>1, <1>2, <1>3, <1>4, <1>5, <1>6, <1>7, <1>8

\* The prior archive gets its second name.
LEMMA PkgLinkBackupKeeps == ASSUME P!MembersAssumption, PkgInv, P!LinkBackup PROVE PkgInv'
<1> USE DEF PkgInv, P!LinkBackup, P!Fail, P!Go, P!OriginalHolds
<1>1. PkgNames'
  BY DEF PkgNames, P!Contents, P!Slots
<1>2. PkgFlags'
  BY DEF PkgFlags
<1>3. PkgControl'
  BY DEF PkgControl, P!States, P!MembersAssumption, PkgPhases
<1>4. PkgPhases'
  BY DEF PkgPhases, PkgControl, PkgBackup, PkgEnds, PkgNames, PkgFlags, PkgUntouched
<1>5. PkgBackup'
  BY DEF PkgPhases, PkgBackup, PkgControl, PkgNames, PkgFlags, PkgUntouched
<1>6. PkgSource'
  BY DEF PkgPhases, PkgSource, PkgControl, PkgNames, PkgFlags
<1>7. PkgEnds'
  BY DEF PkgPhases, PkgControl, PkgBackup, PkgEnds, PkgNames, PkgFlags, PkgUntouched,
         P!BackupIsNamed
<1>8. P!PriorReachable'
  BY DEF P!PriorReachable, PkgPhases, PkgBackup, PkgControl, PkgUntouched, PkgFlags, PkgNames
<1> QED
  BY <1>1, <1>2, <1>3, <1>4, <1>5, <1>6, <1>7, <1>8

\* Sources and names are verified before the rename, a second time,
LEMMA PkgVerifySecondKeeps == ASSUME P!MembersAssumption, PkgInv, P!VerifySecond PROVE PkgInv'
<1> USE DEF PkgInv, P!VerifySecond, P!Check, P!Fail, P!Go, P!OriginalHolds, P!Still,
       P!destinationHolds, P!namesHold
<1>1. PkgNames'
  BY DEF PkgNames, P!Contents, P!Slots
<1>2. PkgFlags'
  BY DEF PkgFlags
<1>3. PkgControl'
  BY DEF PkgControl, P!States, P!MembersAssumption, PkgPhases
<1>4. PkgPhases'
  BY DEF PkgPhases, PkgControl, PkgBackup, PkgEnds, PkgNames, PkgFlags, PkgUntouched
<1>5. PkgBackup'
  BY DEF PkgPhases, PkgBackup, PkgControl, PkgNames, PkgFlags, PkgUntouched
<1>6. PkgSource'
  BY DEF PkgPhases, PkgSource, PkgControl, PkgNames, PkgFlags
<1>7. PkgEnds'
  BY DEF PkgPhases, PkgControl, PkgBackup, PkgEnds, PkgNames, PkgFlags, PkgUntouched,
         P!BackupIsNamed
<1>8. P!PriorReachable'
  BY DEF P!PriorReachable, PkgPhases, PkgBackup, PkgControl, PkgUntouched, PkgFlags, PkgNames
<1> QED
  BY <1>1, <1>2, <1>3, <1>4, <1>5, <1>6, <1>7, <1>8

\* and the destination just before it,
LEMMA PkgVerifyBeforeKeeps == ASSUME P!MembersAssumption, PkgInv, P!VerifyBefore PROVE PkgInv'
<1> USE DEF PkgInv, P!VerifyBefore, P!Check, P!Fail, P!Go, P!SourceHolds, P!Still
<1>1. PkgNames'
  BY DEF PkgNames, P!Contents, P!Slots
<1>2. PkgFlags'
  BY DEF PkgFlags
<1>3. PkgControl'
  BY DEF PkgControl, P!States, P!MembersAssumption, PkgPhases
<1>4. PkgPhases'
  BY DEF PkgPhases, PkgControl, PkgBackup, PkgEnds, PkgNames, PkgFlags, PkgUntouched
<1>5. PkgBackup'
  BY DEF PkgPhases, PkgBackup, PkgControl, PkgNames, PkgFlags, PkgUntouched
<1>6. PkgSource'
  BY DEF PkgPhases, PkgSource, PkgControl, PkgNames, PkgFlags
<1>7. PkgEnds'
  BY DEF PkgPhases, PkgControl, PkgBackup, PkgEnds, PkgNames, PkgFlags, PkgUntouched,
         P!BackupIsNamed
<1>8. P!PriorReachable'
  BY DEF P!PriorReachable, PkgPhases, PkgBackup, PkgControl, PkgUntouched, PkgFlags, PkgNames
<1> QED
  BY <1>1, <1>2, <1>3, <1>4, <1>5, <1>6, <1>7, <1>8

\* and a third time.
LEMMA PkgVerifyThirdKeeps == ASSUME P!MembersAssumption, PkgInv, P!VerifyThird PROVE PkgInv'
<1> USE DEF PkgInv, P!VerifyThird, P!Check, P!Fail, P!Go, P!OriginalHolds, P!Still,
       P!destinationHolds, P!namesHold
<1>1. PkgNames'
  BY DEF PkgNames, P!Contents, P!Slots
<1>2. PkgFlags'
  BY DEF PkgFlags
<1>3. PkgControl'
  BY DEF PkgControl, P!States, P!MembersAssumption, PkgPhases
<1>4. PkgPhases'
  BY DEF PkgPhases, PkgControl, PkgBackup, PkgEnds, PkgNames, PkgFlags, PkgUntouched
<1>5. PkgBackup'
  BY DEF PkgPhases, PkgBackup, PkgControl, PkgNames, PkgFlags, PkgUntouched
<1>6. PkgSource'
  BY DEF PkgPhases, PkgSource, PkgControl, PkgNames, PkgFlags
<1>7. PkgEnds'
  BY DEF PkgPhases, PkgControl, PkgBackup, PkgEnds, PkgNames, PkgFlags, PkgUntouched,
         P!BackupIsNamed
<1>8. P!PriorReachable'
  BY DEF P!PriorReachable, PkgPhases, PkgBackup, PkgControl, PkgUntouched, PkgFlags, PkgNames
<1> QED
  BY <1>1, <1>2, <1>3, <1>4, <1>5, <1>6, <1>7, <1>8

\* The rename installs the sealed archive, or shows what the names show.
LEMMA PkgReplaceNameKeeps == ASSUME P!MembersAssumption, PkgInv, P!ReplaceName PROVE PkgInv'
<1> USE DEF PkgInv, P!ReplaceName, P!Go, P!LookAfterRaise, P!SeenAs
<1>1. PkgNames'
  BY DEF PkgNames, P!Contents, P!Slots
<1>2. PkgFlags'
  <2>1. UNCHANGED <<intact, arena, residue, original, hasBackup, lost, touched, meddled>>
    BY Zenon
  <2>2. failed' \in {TRUE, failed} /\ named' \in {named, hasBackup}
    BY Zenon
  <2> QED
    BY <2>1, <2>2 DEF PkgFlags
<1>3. PkgControl'
  BY DEF PkgControl, P!States, P!MembersAssumption, PkgPhases
<1>4. PkgPhases'
  BY DEF PkgPhases, PkgControl, PkgBackup, PkgEnds, PkgNames, PkgFlags, PkgUntouched
<1>5. PkgBackup'
  BY DEF PkgPhases, PkgBackup, PkgControl, PkgNames, PkgFlags, PkgUntouched
<1>6. PkgSource'
  BY DEF PkgPhases, PkgSource, PkgControl, PkgNames, PkgFlags
<1>7. PkgEnds'
  BY DEF PkgPhases, PkgControl, PkgBackup, PkgEnds, PkgNames, PkgFlags, PkgUntouched,
         P!BackupIsNamed
<1>8. P!PriorReachable'
  BY DEF P!PriorReachable, PkgPhases, PkgBackup, PkgControl, PkgUntouched, PkgFlags, PkgNames
<1> QED
  BY <1>1, <1>2, <1>3, <1>4, <1>5, <1>6, <1>7, <1>8

\* What was published is verified under its name.
LEMMA PkgVerifyPublishedKeeps == ASSUME P!MembersAssumption, PkgInv, P!VerifyPublished PROVE PkgInv'
<1> USE DEF PkgInv, P!VerifyPublished, P!Check, P!Fail, P!Go, P!Still
<1>1. PkgNames'
  BY DEF PkgNames, P!Contents, P!Slots
<1>2. PkgFlags'
  BY DEF PkgFlags
<1>3. PkgControl'
  BY DEF PkgControl, P!States, P!MembersAssumption, PkgPhases
<1>4. PkgPhases'
  BY DEF PkgPhases, PkgControl, PkgBackup, PkgEnds, PkgNames, PkgFlags, PkgUntouched
<1>5. PkgBackup'
  BY DEF PkgPhases, PkgBackup, PkgControl, PkgNames, PkgFlags, PkgUntouched
<1>6. PkgSource'
  BY DEF PkgPhases, PkgSource, PkgControl, PkgNames, PkgFlags
<1>7. PkgEnds'
  BY DEF PkgPhases, PkgControl, PkgBackup, PkgEnds, PkgNames, PkgFlags, PkgUntouched,
         P!BackupIsNamed
<1>8. P!PriorReachable'
  BY DEF P!PriorReachable, PkgPhases, PkgBackup, PkgControl, PkgUntouched, PkgFlags, PkgNames
<1> QED
  BY <1>1, <1>2, <1>3, <1>4, <1>5, <1>6, <1>7, <1>8

\* And the sources once more: the boundary.
LEMMA PkgVerifySourceKeeps == ASSUME P!MembersAssumption, PkgInv, P!VerifySource PROVE PkgInv'
<1> USE DEF PkgInv, P!VerifySource, P!Fail, P!Go, P!OriginalHolds, P!SourceHolds, P!Still
<1>1. PkgNames'
  BY DEF PkgNames, P!Contents, P!Slots
<1>2. PkgFlags'
  BY DEF PkgFlags
<1>3. PkgControl'
  BY DEF PkgControl, P!States, P!MembersAssumption, PkgPhases
<1>4. PkgPhases'
  BY DEF PkgPhases, PkgControl, PkgBackup, PkgEnds, PkgNames, PkgFlags, PkgUntouched
<1>5. PkgBackup'
  BY DEF PkgPhases, PkgBackup, PkgControl, PkgNames, PkgFlags, PkgUntouched
<1>6. PkgSource'
  BY DEF PkgPhases, PkgSource, PkgControl, PkgNames, PkgFlags
<1>7. PkgEnds'
  BY DEF PkgPhases, PkgControl, PkgBackup, PkgEnds, PkgNames, PkgFlags, PkgUntouched,
         P!BackupIsNamed
<1>8. P!PriorReachable'
  BY DEF P!PriorReachable, PkgPhases, PkgBackup, PkgControl, PkgUntouched, PkgFlags, PkgNames
<1> QED
  BY <1>1, <1>2, <1>3, <1>4, <1>5, <1>6, <1>7, <1>8

\* Before the rename a failure only removes the temporary archive.
LEMMA PkgRemoveTemporaryKeeps == ASSUME P!MembersAssumption, PkgInv, P!RemoveTemporary PROVE PkgInv'
<1>a. PICK r \in P!Removal("new", temp) :
         /\ temp' = r.name /\ P!Keep("temp", r) /\ lost' = r.lost
         /\ IF r.answer \in {"removed", "absent"} /\ ~hasBackup
              THEN /\ pc' = "close" /\ UNCHANGED named
                   /\ result' = IF result = "none" THEN "raised" ELSE result
              ELSE P!Explain(hasBackup)
  BY Zenon DEF P!RemoveTemporary
<1>bq. r.name \in {temp, P!None} /\ r.lost \in BOOLEAN
       /\ (r.answer \in {"removed", "absent"} => r.name = P!None /\ r.kept = P!None)
  BY PkgRemoving
<1>c. /\ pc = "undo"
      /\ UNCHANGED <<dest, backup, intact, stale, arena, residue, at, state, original, hasBackup,
                     failed, P!history>>
  BY DEF P!RemoveTemporary
<1>1. PkgNames'
  <2>1. vault' \subseteq P!Slots \X P!Contents
    BY <1>a, PkgKept DEF PkgInv, PkgNames, P!Slots
  <2> QED
    BY <1>a, <1>bq, <1>c, <2>1 DEF PkgInv, PkgNames
<1>2. PkgFlags'
  <2>1. PkgFlags
    BY DEF PkgInv
  <2>2. lost' \in BOOLEAN
    BY <1>a, <1>bq
  <2>3. named' \in BOOLEAN
    BY <1>a, <2>1, <2>2, Zenon DEF PkgFlags, P!Explain
  <2> QED
    BY <1>c, <2>1, <2>2, <2>3 DEF PkgFlags
<1>3. PkgControl'
  BY <1>a, <1>bq, <1>c DEF PkgInv, PkgControl, P!States, P!MembersAssumption, PkgPhases,
         P!Keep, P!Explain
<1>4. PkgPhases'
  BY <1>a, <1>bq, <1>c DEF PkgInv, PkgPhases, PkgControl, PkgBackup, PkgEnds, PkgNames,
         PkgFlags, PkgUntouched, P!Keep, P!Explain
<1>5. PkgBackup'
  BY <1>a, <1>bq, <1>c DEF PkgInv, PkgPhases, PkgBackup, PkgControl, PkgNames, PkgFlags,
         PkgUntouched, P!Keep, P!Explain
<1>6. PkgSource'
  BY <1>a, <1>bq, <1>c DEF PkgInv, PkgPhases, PkgSource, PkgControl, PkgNames, PkgFlags,
         P!Keep, P!Explain
<1>7. PkgEnds'
  BY <1>a, <1>bq, <1>c DEF PkgInv, PkgPhases, PkgControl, PkgBackup, PkgEnds, PkgNames,
         PkgFlags, PkgUntouched, P!BackupIsNamed, P!Keep, P!Explain
<1>8. P!PriorReachable'
  BY <1>a, <1>bq, <1>c DEF PkgInv, P!PriorReachable, PkgPhases, PkgBackup, PkgControl,
         PkgUntouched, PkgFlags, PkgNames, P!Keep, P!Explain
<1> QED
  BY <1>1, <1>2, <1>3, <1>4, <1>5, <1>6, <1>7, <1>8 DEF PkgInv

\* The rollback claims what lies under the public name.
LEMMA PkgClaimPublishedKeeps == ASSUME P!MembersAssumption, PkgInv, P!ClaimPublished PROVE PkgInv'
<1>c. /\ pc = "rollback"
      /\ UNCHANGED <<temp, backup, intact, stale, arena, residue, at, state, original, hasBackup,
                     failed, P!history>>
  BY DEF P!ClaimPublished
<1>a. /\ dest' \in {dest, P!None} /\ vault' \subseteq P!Slots \X P!Contents /\ lost' \in BOOLEAN
      /\ \/ pc' = "close" /\ result' = "explained" /\ (named' <=> (hasBackup /\ ~lost'))
            /\ named' \in BOOLEAN
         \/ pc' = "claimed" /\ UNCHANGED <<named, lost, result>>
  <2>1. CASE \E r \in P!Removal("nobody", dest) : /\ dest' = r.name /\ P!Keep("dest", r)
                                                 /\ lost' = r.lost /\ P!RollbackEnds
    <3>1. PICK r \in P!Removal("nobody", dest) : /\ dest' = r.name /\ P!Keep("dest", r)
                                                /\ lost' = r.lost /\ P!RollbackEnds
      BY <2>1
    <3>2. vault' \subseteq P!Slots \X P!Contents
      BY <3>1, PkgKept DEF PkgInv, PkgNames, P!Slots
    <3>3. (named' <=> (hasBackup /\ ~lost')) /\ named' \in BOOLEAN
      BY <3>1, Zenon DEF P!RollbackEnds, P!RollbackNames
    <3> QED
      BY <3>1, <3>2, <3>3, PkgRemoving DEF P!RollbackEnds
  <2>2. CASE /\ dest # P!None
             /\ dest' = P!None /\ vault' = vault \cup {<<"dest", dest>>}
             /\ pc' = "claimed" /\ UNCHANGED <<named, lost, result>>
    BY <2>2 DEF PkgInv, PkgNames, PkgFlags, P!Slots
  <2> QED
    BY <2>1, <2>2, Zenon DEF P!ClaimPublished
<1>1. PkgNames'
  BY <1>a, <1>c DEF PkgInv, PkgNames, P!Contents, P!Slots
<1>2. PkgFlags'
  <2>1. PkgFlags
    BY DEF PkgInv
  <2>3. named' \in BOOLEAN
    BY <1>a, <2>1 DEF PkgFlags
  <2> QED
    BY <1>a, <1>c, <2>1, <2>3 DEF PkgFlags
<1>3. PkgControl'
  BY <1>a, <1>c DEF PkgInv, PkgControl, P!States, P!MembersAssumption, PkgPhases
<1>4. PkgPhases'
  BY <1>a, <1>c DEF PkgInv, PkgPhases, PkgControl, PkgBackup, PkgEnds, PkgNames, PkgFlags,
         PkgUntouched
<1>5. PkgBackup'
  BY <1>a, <1>c DEF PkgInv, PkgPhases, PkgBackup, PkgControl, PkgNames, PkgFlags, PkgUntouched
<1>6. PkgSource'
  BY <1>a, <1>c DEF PkgInv, PkgPhases, PkgSource, PkgControl, PkgNames, PkgFlags
<1>7. PkgEnds'
  BY <1>a, <1>c DEF PkgInv, PkgPhases, PkgControl, PkgBackup, PkgEnds, PkgNames, PkgFlags,
         PkgUntouched, P!BackupIsNamed
<1>8. P!PriorReachable'
  BY <1>a, <1>c DEF PkgInv, P!PriorReachable, PkgPhases, PkgBackup, PkgControl, PkgUntouched,
         PkgFlags, PkgNames
<1> QED
  BY <1>1, <1>2, <1>3, <1>4, <1>5, <1>6, <1>7, <1>8 DEF PkgInv

\* Only the archive it published is to be undone.
LEMMA PkgVerifyClaimedKeeps == ASSUME P!MembersAssumption, PkgInv, P!VerifyClaimed PROVE PkgInv'
<1> USE DEF PkgInv, P!VerifyClaimed, P!GiveUp, P!Onward, P!RollbackEnds, P!RollbackNames,
       P!Still
<1>1. PkgNames'
  BY DEF PkgNames, P!Contents, P!Slots
<1>2. PkgFlags'
  BY DEF PkgFlags
<1>3. PkgControl'
  BY DEF PkgControl, P!States, P!MembersAssumption, PkgPhases
<1>4. PkgPhases'
  BY DEF PkgPhases, PkgControl, PkgBackup, PkgEnds, PkgNames, PkgFlags, PkgUntouched
<1>5. PkgBackup'
  BY DEF PkgPhases, PkgBackup, PkgControl, PkgNames, PkgFlags, PkgUntouched
<1>6. PkgSource'
  BY DEF PkgPhases, PkgSource, PkgControl, PkgNames, PkgFlags
<1>7. PkgEnds'
  BY DEF PkgPhases, PkgControl, PkgBackup, PkgEnds, PkgNames, PkgFlags, PkgUntouched,
         P!BackupIsNamed
<1>8. P!PriorReachable'
  BY DEF P!PriorReachable, PkgPhases, PkgBackup, PkgControl, PkgUntouched, PkgFlags, PkgNames
<1> QED
  BY <1>1, <1>2, <1>3, <1>4, <1>5, <1>6, <1>7, <1>8

\* The prior archive is verified before it is put back.
LEMMA PkgVerifyBackupKeeps == ASSUME P!MembersAssumption, PkgInv, P!VerifyBackup PROVE PkgInv'
<1> USE DEF PkgInv, P!VerifyBackup, P!GiveUp, P!Onward, P!OriginalHolds, P!RollbackEnds,
       P!RollbackNames, P!Still
<1>1. PkgNames'
  BY DEF PkgNames, P!Contents, P!Slots
<1>2. PkgFlags'
  BY DEF PkgFlags
<1>3. PkgControl'
  BY DEF PkgControl, P!States, P!MembersAssumption, PkgPhases
<1>4. PkgPhases'
  BY DEF PkgPhases, PkgControl, PkgBackup, PkgEnds, PkgNames, PkgFlags, PkgUntouched
<1>5. PkgBackup'
  BY DEF PkgPhases, PkgBackup, PkgControl, PkgNames, PkgFlags, PkgUntouched
<1>6. PkgSource'
  BY DEF PkgPhases, PkgSource, PkgControl, PkgNames, PkgFlags
<1>7. PkgEnds'
  BY DEF PkgPhases, PkgControl, PkgBackup, PkgEnds, PkgNames, PkgFlags, PkgUntouched,
         P!BackupIsNamed
<1>8. P!PriorReachable'
  BY DEF P!PriorReachable, PkgPhases, PkgBackup, PkgControl, PkgUntouched, PkgFlags, PkgNames
<1> QED
  BY <1>1, <1>2, <1>3, <1>4, <1>5, <1>6, <1>7, <1>8

\* It is linked where nothing is in the way.
LEMMA PkgRestorePriorKeeps == ASSUME P!MembersAssumption, PkgInv, P!RestorePrior PROVE PkgInv'
<1> USE DEF PkgInv, P!RestorePrior, P!GiveUp, P!Onward, P!RollbackEnds, P!RollbackNames
<1>1. PkgNames'
  BY DEF PkgNames, P!Contents, P!Slots
<1>2. PkgFlags'
  BY DEF PkgFlags
<1>3. PkgControl'
  BY DEF PkgControl, P!States, P!MembersAssumption, PkgPhases
<1>4. PkgPhases'
  BY DEF PkgPhases, PkgControl, PkgBackup, PkgEnds, PkgNames, PkgFlags, PkgUntouched
<1>5. PkgBackup'
  BY DEF PkgPhases, PkgBackup, PkgControl, PkgNames, PkgFlags, PkgUntouched
<1>6. PkgSource'
  BY DEF PkgPhases, PkgSource, PkgControl, PkgNames, PkgFlags
<1>7. PkgEnds'
  BY DEF PkgPhases, PkgControl, PkgBackup, PkgEnds, PkgNames, PkgFlags, PkgUntouched,
         P!BackupIsNamed
<1>8. P!PriorReachable'
  BY DEF P!PriorReachable, PkgPhases, PkgBackup, PkgControl, PkgUntouched, PkgFlags, PkgNames
<1> QED
  BY <1>1, <1>2, <1>3, <1>4, <1>5, <1>6, <1>7, <1>8

\* And verified there.
LEMMA PkgVerifyRestoredKeeps == ASSUME P!MembersAssumption, PkgInv, P!VerifyRestored PROVE PkgInv'
<1> USE DEF PkgInv, P!VerifyRestored, P!GiveUp, P!Onward, P!OriginalHolds, P!RollbackEnds,
       P!RollbackNames, P!Still
<1>1. PkgNames'
  BY DEF PkgNames, P!Contents, P!Slots
<1>2. PkgFlags'
  BY DEF PkgFlags
<1>3. PkgControl'
  BY DEF PkgControl, P!States, P!MembersAssumption, PkgPhases
<1>4. PkgPhases'
  BY DEF PkgPhases, PkgControl, PkgBackup, PkgEnds, PkgNames, PkgFlags, PkgUntouched
<1>5. PkgBackup'
  BY DEF PkgPhases, PkgBackup, PkgControl, PkgNames, PkgFlags, PkgUntouched
<1>6. PkgSource'
  BY DEF PkgPhases, PkgSource, PkgControl, PkgNames, PkgFlags
<1>7. PkgEnds'
  BY DEF PkgPhases, PkgControl, PkgBackup, PkgEnds, PkgNames, PkgFlags, PkgUntouched,
         P!BackupIsNamed
<1>8. P!PriorReachable'
  BY DEF P!PriorReachable, PkgPhases, PkgBackup, PkgControl, PkgUntouched, PkgFlags, PkgNames
<1> QED
  BY <1>1, <1>2, <1>3, <1>4, <1>5, <1>6, <1>7, <1>8

\* The claimed archive goes last.
LEMMA PkgRemoveClaimedKeeps == ASSUME P!MembersAssumption, PkgInv, P!RemoveClaimed PROVE PkgInv'
<1> USE DEF PkgInv, P!RemoveClaimed, P!GiveUp, P!RollbackEnds, P!RollbackNames
<1>1. PkgNames'
  BY DEF PkgNames, P!Contents, P!Slots
<1>2. PkgFlags'
  BY DEF PkgFlags
<1>3. PkgControl'
  BY DEF PkgControl, P!States, P!MembersAssumption, PkgPhases
<1>4. PkgPhases'
  BY DEF PkgPhases, PkgControl, PkgBackup, PkgEnds, PkgNames, PkgFlags, PkgUntouched
<1>5. PkgBackup'
  BY DEF PkgPhases, PkgBackup, PkgControl, PkgNames, PkgFlags, PkgUntouched
<1>6. PkgSource'
  BY DEF PkgPhases, PkgSource, PkgControl, PkgNames, PkgFlags
<1>7. PkgEnds'
  BY DEF PkgPhases, PkgControl, PkgBackup, PkgEnds, PkgNames, PkgFlags, PkgUntouched,
         P!BackupIsNamed
<1>8. P!PriorReachable'
  BY DEF P!PriorReachable, PkgPhases, PkgBackup, PkgControl, PkgUntouched, PkgFlags, PkgNames
<1> QED
  BY <1>1, <1>2, <1>3, <1>4, <1>5, <1>6, <1>7, <1>8

\* The descriptors are closed on every path.
LEMMA PkgCloseDescriptorsKeeps == ASSUME P!MembersAssumption, PkgInv, P!CloseDescriptors PROVE PkgInv'
<1> USE DEF PkgInv, P!CloseDescriptors, P!Still
<1>1. PkgNames'
  BY DEF PkgNames, P!Contents, P!Slots
<1>2. PkgFlags'
  BY DEF PkgFlags
<1>3. PkgControl'
  BY DEF PkgControl, P!States, P!MembersAssumption, PkgPhases
<1>4. PkgPhases'
  BY DEF PkgPhases, PkgControl, PkgBackup, PkgEnds, PkgNames, PkgFlags, PkgUntouched
<1>5. PkgBackup'
  BY DEF PkgPhases, PkgBackup, PkgControl, PkgNames, PkgFlags, PkgUntouched
<1>6. PkgSource'
  BY DEF PkgPhases, PkgSource, PkgControl, PkgNames, PkgFlags
<1>7. PkgEnds'
  BY DEF PkgPhases, PkgControl, PkgBackup, PkgEnds, PkgNames, PkgFlags, PkgUntouched,
         P!BackupIsNamed
<1>8. P!PriorReachable'
  BY DEF P!PriorReachable, PkgPhases, PkgBackup, PkgControl, PkgUntouched, PkgFlags, PkgNames
<1> QED
  BY <1>1, <1>2, <1>3, <1>4, <1>5, <1>6, <1>7, <1>8

\* The directory's comes last.
LEMMA PkgCloseDirectoryKeeps == ASSUME P!MembersAssumption, PkgInv, P!CloseDirectory PROVE PkgInv'
<1> USE DEF PkgInv, P!CloseDirectory, P!Still
<1>1. PkgNames'
  BY DEF PkgNames, P!Contents, P!Slots
<1>2. PkgFlags'
  BY DEF PkgFlags
<1>3. PkgControl'
  BY DEF PkgControl, P!States, P!MembersAssumption, PkgPhases
<1>4. PkgPhases'
  BY DEF PkgPhases, PkgControl, PkgBackup, PkgEnds, PkgNames, PkgFlags, PkgUntouched
<1>5. PkgBackup'
  BY DEF PkgPhases, PkgBackup, PkgControl, PkgNames, PkgFlags, PkgUntouched
<1>6. PkgSource'
  BY DEF PkgPhases, PkgSource, PkgControl, PkgNames, PkgFlags
<1>7. PkgEnds'
  BY DEF PkgPhases, PkgControl, PkgBackup, PkgEnds, PkgNames, PkgFlags, PkgUntouched,
         P!BackupIsNamed
<1>8. P!PriorReachable'
  BY DEF P!PriorReachable, PkgPhases, PkgBackup, PkgControl, PkgUntouched, PkgFlags, PkgNames
<1> QED
  BY <1>1, <1>2, <1>3, <1>4, <1>5, <1>6, <1>7, <1>8

\* The backup of a complete archive is removed.
LEMMA PkgCleanupBackupKeeps == ASSUME P!MembersAssumption, PkgInv, P!CleanupBackup PROVE PkgInv'
<1>a. PICK r \in P!Removal(IF intact THEN "old" ELSE "nobody", backup) :
         /\ backup' = r.name /\ P!Keep("backup", r) /\ lost' = r.lost
         /\ IF r.answer = "removed"
              THEN pc' = "exit" /\ UNCHANGED <<named, result>>
              ELSE pc' = "end" /\ result' = "complete" /\ named' = TRUE
  BY Zenon DEF P!CleanupBackup
<1>bq. r.name \in {backup, P!None} /\ r.lost \in BOOLEAN
       /\ (r.answer = "removed" => r.name = P!None /\ r.kept = P!None)
  BY PkgRemoving
<1>c. /\ pc = "cleanup"
      /\ UNCHANGED <<dest, temp, intact, stale, arena, residue, at, state, original, hasBackup,
                     failed, P!history>>
  BY DEF P!CleanupBackup
<1>1. PkgNames'
  <2>1. vault' \subseteq P!Slots \X P!Contents
    BY <1>a, PkgKept DEF PkgInv, PkgNames, P!Slots
  <2> QED
    BY <1>a, <1>bq, <1>c, <2>1 DEF PkgInv, PkgNames
<1>2. PkgFlags'
  <2>1. PkgFlags
    BY DEF PkgInv
  <2>2. lost' \in BOOLEAN
    BY <1>a, <1>bq
  <2>3. named' \in BOOLEAN
    BY <1>a, <2>1, <2>2, Zenon DEF PkgFlags
  <2> QED
    BY <1>c, <2>1, <2>2, <2>3 DEF PkgFlags
<1>3. PkgControl'
  BY <1>a, <1>bq, <1>c DEF PkgInv, PkgControl, P!States, P!MembersAssumption, PkgPhases, P!Keep
<1>4. PkgPhases'
  BY <1>a, <1>bq, <1>c DEF PkgInv, PkgPhases, PkgControl, PkgBackup, PkgEnds, PkgNames,
         PkgFlags, PkgUntouched, P!Keep
<1>5. PkgBackup'
  BY <1>a, <1>bq, <1>c DEF PkgInv, PkgPhases, PkgBackup, PkgControl, PkgNames, PkgFlags,
         PkgUntouched, P!Keep
<1>6. PkgSource'
  BY <1>a, <1>bq, <1>c DEF PkgInv, PkgPhases, PkgSource, PkgControl, PkgNames, PkgFlags, P!Keep
<1>7. PkgEnds'
  BY <1>a, <1>bq, <1>c DEF PkgInv, PkgPhases, PkgControl, PkgBackup, PkgEnds, PkgNames,
         PkgFlags, PkgUntouched, P!BackupIsNamed, P!Keep
<1>8. P!PriorReachable'
  BY <1>a, <1>bq, <1>c DEF PkgInv, P!PriorReachable, PkgPhases, PkgBackup, PkgControl,
         PkgUntouched, PkgFlags, PkgNames, P!Keep
<1> QED
  BY <1>1, <1>2, <1>3, <1>4, <1>5, <1>6, <1>7, <1>8 DEF PkgInv

\* The audit on exit decides what is returned.
LEMMA PkgAuditExitKeeps == ASSUME P!MembersAssumption, PkgInv, P!AuditExit PROVE PkgInv'
<1> USE DEF PkgInv, P!AuditExit, P!Still
<1>1. PkgNames'
  BY DEF PkgNames, P!Contents, P!Slots
<1>2. PkgFlags'
  BY DEF PkgFlags
<1>3. PkgControl'
  BY DEF PkgControl, P!States, P!MembersAssumption, PkgPhases
<1>4. PkgPhases'
  BY DEF PkgPhases, PkgControl, PkgBackup, PkgEnds, PkgNames, PkgFlags, PkgUntouched
<1>5. PkgBackup'
  BY DEF PkgPhases, PkgBackup, PkgControl, PkgNames, PkgFlags, PkgUntouched
<1>6. PkgSource'
  BY DEF PkgPhases, PkgSource, PkgControl, PkgNames, PkgFlags
<1>7. PkgEnds'
  BY DEF PkgPhases, PkgControl, PkgBackup, PkgEnds, PkgNames, PkgFlags, PkgUntouched,
         P!BackupIsNamed
<1>8. P!PriorReachable'
  BY DEF P!PriorReachable, PkgPhases, PkgBackup, PkgControl, PkgUntouched, PkgFlags, PkgNames
<1> QED
  BY <1>1, <1>2, <1>3, <1>4, <1>5, <1>6, <1>7, <1>8

\* Others edit a source.
LEMMA PkgOthersEditSourceKeeps == ASSUME P!MembersAssumption, PkgInv, P!OthersEditSource PROVE PkgInv'
<1> USE DEF PkgInv, P!OthersEditSource, P!Outside
<1>1. PkgNames'
  BY DEF PkgNames, P!Contents, P!Slots
<1>2. PkgFlags'
  BY DEF PkgFlags
<1>3. PkgControl'
  BY DEF PkgControl, P!States, P!MembersAssumption, PkgPhases
<1>4. PkgPhases'
  BY DEF PkgPhases, PkgControl, PkgBackup, PkgEnds, PkgNames, PkgFlags, PkgUntouched
<1>5. PkgBackup'
  BY DEF PkgPhases, PkgBackup, PkgControl, PkgNames, PkgFlags, PkgUntouched
<1>6. PkgSource'
  BY DEF PkgPhases, PkgSource, PkgControl, PkgNames, PkgFlags
<1>7. PkgEnds'
  BY DEF PkgPhases, PkgControl, PkgBackup, PkgEnds, PkgNames, PkgFlags, PkgUntouched,
         P!BackupIsNamed
<1>8. P!PriorReachable'
  BY DEF P!PriorReachable, PkgPhases, PkgBackup, PkgControl, PkgUntouched, PkgFlags, PkgNames
<1> QED
  BY <1>1, <1>2, <1>3, <1>4, <1>5, <1>6, <1>7, <1>8

\* Others write the destination,
LEMMA PkgOthersWriteDestinationKeeps == ASSUME P!MembersAssumption, PkgInv, P!OthersWriteDestination PROVE PkgInv'
<1> USE DEF PkgInv, P!OthersWriteDestination, P!Outside
<1>1. PkgNames'
  BY DEF PkgNames, P!Contents, P!Slots
<1>2. PkgFlags'
  BY DEF PkgFlags
<1>3. PkgControl'
  BY DEF PkgControl, P!States, P!MembersAssumption, PkgPhases
<1>4. PkgPhases'
  BY DEF PkgPhases, PkgControl, PkgBackup, PkgEnds, PkgNames, PkgFlags, PkgUntouched
<1>5. PkgBackup'
  BY DEF PkgPhases, PkgBackup, PkgControl, PkgNames, PkgFlags, PkgUntouched
<1>6. PkgSource'
  BY DEF PkgPhases, PkgSource, PkgControl, PkgNames, PkgFlags
<1>7. PkgEnds'
  BY DEF PkgPhases, PkgControl, PkgBackup, PkgEnds, PkgNames, PkgFlags, PkgUntouched,
         P!BackupIsNamed
<1>8. P!PriorReachable'
  BY DEF P!PriorReachable, PkgPhases, PkgBackup, PkgControl, PkgUntouched, PkgFlags, PkgNames
<1> QED
  BY <1>1, <1>2, <1>3, <1>4, <1>5, <1>6, <1>7, <1>8

\* or into the prior archive,
LEMMA PkgOthersWriteInPlaceKeeps == ASSUME P!MembersAssumption, PkgInv, P!OthersWriteInPlace PROVE PkgInv'
<1> USE DEF PkgInv, P!OthersWriteInPlace, P!Outside
<1>1. PkgNames'
  BY DEF PkgNames, P!Contents, P!Slots
<1>2. PkgFlags'
  BY DEF PkgFlags
<1>3. PkgControl'
  BY DEF PkgControl, P!States, P!MembersAssumption, PkgPhases
<1>4. PkgPhases'
  BY DEF PkgPhases, PkgControl, PkgBackup, PkgEnds, PkgNames, PkgFlags, PkgUntouched
<1>5. PkgBackup'
  BY DEF PkgPhases, PkgBackup, PkgControl, PkgNames, PkgFlags, PkgUntouched
<1>6. PkgSource'
  BY DEF PkgPhases, PkgSource, PkgControl, PkgNames, PkgFlags
<1>7. PkgEnds'
  BY DEF PkgPhases, PkgControl, PkgBackup, PkgEnds, PkgNames, PkgFlags, PkgUntouched,
         P!BackupIsNamed
<1>8. P!PriorReachable'
  BY DEF P!PriorReachable, PkgPhases, PkgBackup, PkgControl, PkgUntouched, PkgFlags, PkgNames
<1> QED
  BY <1>1, <1>2, <1>3, <1>4, <1>5, <1>6, <1>7, <1>8

\* or the temporary names,
LEMMA PkgOthersTouchSidecarsKeeps == ASSUME P!MembersAssumption, PkgInv, P!OthersTouchSidecars PROVE PkgInv'
<1> USE DEF PkgInv, P!OthersTouchSidecars, P!Outside
<1>1. PkgNames'
  BY DEF PkgNames, P!Contents, P!Slots
<1>2. PkgFlags'
  BY DEF PkgFlags
<1>3. PkgControl'
  BY DEF PkgControl, P!States, P!MembersAssumption, PkgPhases
<1>4. PkgPhases'
  BY DEF PkgPhases, PkgControl, PkgBackup, PkgEnds, PkgNames, PkgFlags, PkgUntouched
<1>5. PkgBackup'
  BY DEF PkgPhases, PkgBackup, PkgControl, PkgNames, PkgFlags, PkgUntouched
<1>6. PkgSource'
  BY DEF PkgPhases, PkgSource, PkgControl, PkgNames, PkgFlags
<1>7. PkgEnds'
  BY DEF PkgPhases, PkgControl, PkgBackup, PkgEnds, PkgNames, PkgFlags, PkgUntouched,
         P!BackupIsNamed
<1>8. P!PriorReachable'
  BY DEF P!PriorReachable, PkgPhases, PkgBackup, PkgControl, PkgUntouched, PkgFlags, PkgNames
<1> QED
  BY <1>1, <1>2, <1>3, <1>4, <1>5, <1>6, <1>7, <1>8

\* or the arena of the quarantines.
LEMMA PkgOthersUseArenaKeeps == ASSUME P!MembersAssumption, PkgInv, P!OthersUseArena PROVE PkgInv'
<1> USE DEF PkgInv, P!OthersUseArena, P!Outside
<1>1. PkgNames'
  BY DEF PkgNames, P!Contents, P!Slots
<1>2. PkgFlags'
  BY DEF PkgFlags
<1>3. PkgControl'
  BY DEF PkgControl, P!States, P!MembersAssumption, PkgPhases
<1>4. PkgPhases'
  BY DEF PkgPhases, PkgControl, PkgBackup, PkgEnds, PkgNames, PkgFlags, PkgUntouched
<1>5. PkgBackup'
  BY DEF PkgPhases, PkgBackup, PkgControl, PkgNames, PkgFlags, PkgUntouched
<1>6. PkgSource'
  BY DEF PkgPhases, PkgSource, PkgControl, PkgNames, PkgFlags
<1>7. PkgEnds'
  <2>1. UNCHANGED <<pc, P!names, vault, result, named, lost, hasBackup, touched, meddled, before>> /\ pc # "end"
    BY DEF P!names
  <2>2. result # "ok"
    BY <2>1 DEF PkgPhases, PkgControl, PkgEnds
  <2> QED
    BY <2>1, <2>2 DEF PkgEnds, PkgUntouched, P!BackupIsNamed
<1>8. P!PriorReachable'
  BY DEF P!PriorReachable, PkgPhases, PkgBackup, PkgControl, PkgUntouched, PkgFlags, PkgNames
<1> QED
  BY <1>1, <1>2, <1>3, <1>4, <1>5, <1>6, <1>7, <1>8

\* A kill leaves the disk as it is.
LEMMA PkgDieKeeps == ASSUME P!MembersAssumption, PkgInv, P!Die PROVE PkgInv'
<1> USE DEF PkgInv, P!Die, P!Still
<1>1. PkgNames'
  BY DEF PkgNames, P!Contents, P!Slots
<1>2. PkgFlags'
  BY DEF PkgFlags
<1>3. PkgControl'
  BY DEF PkgControl, P!States, P!MembersAssumption, PkgPhases
<1>4. PkgPhases'
  BY DEF PkgPhases, PkgControl, PkgBackup, PkgEnds, PkgNames, PkgFlags, PkgUntouched
<1>5. PkgBackup'
  BY DEF PkgPhases, PkgBackup, PkgControl, PkgNames, PkgFlags, PkgUntouched
<1>6. PkgSource'
  BY DEF PkgPhases, PkgSource, PkgControl, PkgNames, PkgFlags
<1>7. PkgEnds'
  BY DEF PkgPhases, PkgControl, PkgBackup, PkgEnds, PkgNames, PkgFlags, PkgUntouched,
         P!BackupIsNamed
<1>8. P!PriorReachable'
  BY DEF P!PriorReachable, PkgPhases, PkgBackup, PkgControl, PkgUntouched, PkgFlags, PkgNames
<1> QED
  BY <1>1, <1>2, <1>3, <1>4, <1>5, <1>6, <1>7, <1>8

-----------------------------------------------------------------------------
PkgPlaces == P!Slots \X {"name", "vault"}

\* The files of others, name by name and quarantine by quarantine.
LEMMA PkgForeign ==
  /\ P!Foreign \subseteq PkgPlaces /\ P!Foreign' \subseteq PkgPlaces
  /\ \A s \in P!Slots : /\ <<s, "name">> \in P!Foreign <=> P!Named(s) = "other"
                        /\ <<s, "vault">> \in P!Foreign <=> <<s, "other">> \in vault
                        /\ <<s, "name">> \in P!Foreign' <=> P!Named(s)' = "other"
                        /\ <<s, "vault">> \in P!Foreign' <=> <<s, "other">> \in vault'
<1>1. P!Foreign \subseteq PkgPlaces /\ P!Foreign' \subseteq PkgPlaces
  BY DEF P!Foreign, PkgPlaces
<1>2. ASSUME NEW s \in P!Slots
      PROVE  /\ <<s, "name">> \in P!Foreign <=> P!Named(s) = "other"
             /\ <<s, "vault">> \in P!Foreign <=> <<s, "other">> \in vault
             /\ <<s, "name">> \in P!Foreign' <=> P!Named(s)' = "other"
             /\ <<s, "vault">> \in P!Foreign' <=> <<s, "other">> \in vault'
  <2>1. <<s, "name">> \in PkgPlaces /\ <<s, "vault">> \in PkgPlaces
    BY DEF PkgPlaces
  <2> QED
    BY <2>1 DEF P!Foreign, PkgPlaces
<1> QED
  BY <1>1, <1>2

\* There are three names.
LEMMA PkgSlotsFinite == IsFiniteSet(P!Slots)
<1>1. IsFiniteSet({"dest"}) /\ IsFiniteSet({"temp"}) /\ IsFiniteSet({"backup"})
  BY FS_Singleton
<1>2. IsFiniteSet({"dest"} \cup {"temp"})
  BY <1>1, FS_Union
<1>3. IsFiniteSet({"dest"} \cup {"temp"} \cup {"backup"})
  BY <1>1, <1>2, FS_Union
<1> QED
  BY <1>3 DEF P!Slots

\* What others put there stays where it is, or is taken from a name into a quarantine.
PkgMoved ==
    \E s \in P!Slots :
       /\ \A t \in P!Slots \ {s} : P!Named(t) = "other" => P!Named(t)' = "other"
       /\ \A t \in P!Slots : <<t, "other">> \in vault => <<t, "other">> \in vault'
       /\ P!Named(s) = "other" =>
             \/ P!Named(s)' = "other"
             \/ <<s, "other">> \notin vault /\ <<s, "other">> \in vault'

\* Then there are no fewer of them.
LEMMA PkgCounted == ASSUME PkgMoved PROVE Cardinality(P!Foreign) <= Cardinality(P!Foreign')
<1>1. PICK s \in P!Slots :
       /\ \A t \in P!Slots \ {s} : P!Named(t) = "other" => P!Named(t)' = "other"
       /\ \A t \in P!Slots : <<t, "other">> \in vault => <<t, "other">> \in vault'
       /\ P!Named(s) = "other" =>
             \/ P!Named(s)' = "other"
             \/ <<s, "other">> \notin vault /\ <<s, "other">> \in vault'
  BY DEF PkgMoved
<1> QED
  BY <1>1, PkgForeign, PkgSlotsFinite, MovedAside DEF PkgPlaces

\* Nothing of the disk changes but names that held nothing.
LEMMA PkgStill ==
  ASSUME UNCHANGED vault, \A s \in P!Slots : P!Named(s)' = P!Named(s) \/ P!Named(s) = P!None
  PROVE  PkgMoved
  BY DEF PkgMoved, P!Slots

\* A removal by claim takes a file of others into the quarantine at most.
LEMMA PkgTaken ==
  ASSUME NEW s \in P!Slots, NEW own \in {"new", "old", "nobody"}, NEW r \in P!Removal(own, P!Named(s)),
         P!Named(s)' = r.name, P!Keep(s, r), \A c \in P!Contents : <<s, c>> \notin vault,
         \A t \in P!Slots \ {s} : P!Named(t)' = P!Named(t)
  PROVE  PkgMoved
<1>1. \A t \in P!Slots : <<t, "other">> \in vault => <<t, "other">> \in vault'
  BY DEF P!Keep
<1>2. ASSUME P!Named(s) = "other", P!Named(s)' # "other" PROVE <<s, "other">> \in vault'
  <2>1. r.kept = "other"
    BY <1>2 DEF P!Removal
  <2> QED
    BY <2>1 DEF P!Keep
<1> QED
  BY <1>1, <1>2 DEF PkgMoved, P!Contents

\* No step but the rename destroys a file of others.
LEMMA PkgOthersKept == ASSUME P!MembersAssumption, PkgInv, [P!Next]_(P!vars) PROVE P!OthersKept
<1> SUFFICES ASSUME outside' = outside, pc # "replace" PROVE PkgMoved
  BY PkgCounted, PkgFiniteSets DEF P!OthersKept
<1>1. CASE UNCHANGED P!vars
  BY <1>1, PkgStill DEF P!vars, P!Named
<1>2. CASE P!RemoveTemporary
  <2>1. PICK r \in P!Removal("new", temp) : temp' = r.name /\ P!Keep("temp", r)
    BY <1>2 DEF P!RemoveTemporary
  <2>2. UNCHANGED <<dest, backup>> /\ vault = {}
    BY <1>2 DEF P!RemoveTemporary, PkgInv, PkgPhases
  <2>3. /\ P!Named("temp") = temp /\ P!Named("temp")' = temp'
        /\ \A t \in P!Slots \ {"temp"} : P!Named(t)' = P!Named(t)
    BY <2>2 DEF P!Named, P!Slots
  <2> QED
    BY <2>1, <2>2, <2>3, PkgTaken DEF P!Slots
<1>3. CASE P!CleanupBackup
  <2>1. PICK r \in P!Removal(IF intact THEN "old" ELSE "nobody", backup) : backup' = r.name /\ P!Keep("backup", r)
    BY <1>3 DEF P!CleanupBackup
  <2> DEFINE own == IF intact THEN "old" ELSE "nobody"
  <2>4. own \in {"new", "old", "nobody"} /\ r \in P!Removal(own, backup)
    BY <2>1
  <2> HIDE DEF own
  <2>2. UNCHANGED <<dest, temp>> /\ vault = {}
    BY <1>3 DEF P!CleanupBackup, PkgInv, PkgPhases
  <2>3. /\ P!Named("backup") = backup /\ P!Named("backup")' = backup'
        /\ \A t \in P!Slots \ {"backup"} : P!Named(t)' = P!Named(t)
    BY <2>2 DEF P!Named, P!Slots
  <2> QED
    BY <2>1, <2>4, <2>2, <2>3, PkgTaken DEF P!Slots
<1>4. CASE P!ClaimPublished
  <2>1. UNCHANGED <<temp, backup>> /\ vault = {}
    BY <1>4 DEF P!ClaimPublished, PkgInv, PkgPhases
  <2>2. /\ P!Named("dest") = dest /\ P!Named("dest")' = dest'
        /\ \A t \in P!Slots \ {"dest"} : P!Named(t)' = P!Named(t)
    BY <2>1 DEF P!Named, P!Slots
  <2>3. CASE \E r \in P!Removal("nobody", dest) : dest' = r.name /\ P!Keep("dest", r)
    BY <2>1, <2>2, <2>3, PkgTaken DEF P!Slots
  <2>4. CASE dest # P!None /\ dest' = P!None /\ vault' = vault \cup {<<"dest", dest>>}
    BY <2>1, <2>2, <2>4 DEF PkgMoved, P!Slots
  <2> QED
    BY <1>4, <2>3, <2>4 DEF P!ClaimPublished
<1>5. CASE P!RemoveClaimed
  <2>1. /\ UNCHANGED <<dest, temp, backup>>
        /\ vault' \in {vault, vault \ {<<"dest", "new">>}}
    BY <1>5 DEF P!RemoveClaimed
  <2> QED
    BY <2>1 DEF PkgMoved, P!Named, P!Slots
<1>6. CASE P!CreateTemporary \/ P!LinkBackup \/ P!RestorePrior
  <2>1. /\ UNCHANGED vault
        /\ \/ UNCHANGED <<dest, temp, backup>>
           \/ UNCHANGED <<dest, temp>> /\ backup = P!None
           \/ UNCHANGED <<dest, backup>> /\ temp = P!None
           \/ UNCHANGED <<temp, backup>> /\ dest = P!None
    BY <1>6 DEF P!CreateTemporary, P!LinkBackup, P!RestorePrior, PkgInv, PkgBackup
  <2>2. \A s \in P!Slots : P!Named(s)' = P!Named(s) \/ P!Named(s) = P!None
    BY <2>1 DEF P!Named, P!Slots
  <2> QED
    BY <2>1, <2>2, PkgStill
<1>7. CASE ~(P!RemoveTemporary \/ P!CleanupBackup \/ P!ClaimPublished \/ P!RemoveClaimed \/ P!CreateTemporary
             \/ P!LinkBackup \/ P!RestorePrior) /\ P!Next
  <2>1. ~P!Others
    <3>1. outside \in Nat
      BY DEF PkgInv, PkgControl, P!MembersAssumption
    <3> QED
      BY <3>1 DEF P!Others, P!OthersEditSource, P!OthersWriteDestination, P!OthersWriteInPlace,
         P!OthersTouchSidecars, P!OthersUseArena, P!Outside
  <2>2. ~P!ReplaceName
    BY DEF P!ReplaceName
  <2>3. UNCHANGED <<dest, temp, backup, vault>>
    BY <1>7, <2>1, <2>2 DEF P!Next, P!Materialize, P!Publish, P!Recover, P!Finalize, P!Die,
           P!Still, P!VerifyEnumerated,
       P!AuditEntry, P!ObserveDestination, P!ReadMember, P!SealArchive, P!VerifyDuring, P!VerifySecond,
       P!VerifyBefore, P!VerifyThird, P!VerifyPublished, P!VerifySource, P!VerifyClaimed, P!VerifyBackup,
       P!VerifyRestored, P!CloseDescriptors, P!CloseDirectory, P!AuditExit
  <2> QED
    BY <2>3, PkgStill DEF P!Named
<1> QED
  BY <1>1, <1>2, <1>3, <1>4, <1>5, <1>6, <1>7

\* Past the boundary the destination is left alone.
LEMMA PkgCompleteStays == ASSUME P!MembersAssumption, PkgInv, [P!Next]_(P!vars) PROVE P!CompleteStays
<1> SUFFICES ASSUME P!Complete, outside' = outside PROVE dest' = dest
  BY DEF P!CompleteStays
<1>1. pc \in PkgClosing
  BY DEF PkgInv, PkgPhases
<1>2. ~P!Others
  <2>1. outside \in Nat
    BY DEF PkgInv, PkgControl, P!MembersAssumption
  <2> QED
    BY <2>1 DEF P!Others, P!OthersEditSource, P!OthersWriteDestination, P!OthersWriteInPlace,
       P!OthersTouchSidecars, P!OthersUseArena, P!Outside
<1> QED
  BY <1>1, <1>2 DEF P!Next, P!vars, P!Materialize, P!Publish, P!Recover, P!Finalize, P!Die,
         P!Still, P!VerifyEnumerated,
     P!AuditEntry, P!CreateTemporary, P!ObserveDestination, P!ReadMember, P!SealArchive, P!VerifyDuring,
     P!LinkBackup, P!VerifySecond, P!VerifyBefore, P!VerifyThird, P!ReplaceName, P!VerifyPublished, P!VerifySource,
     P!RemoveTemporary, P!ClaimPublished, P!VerifyClaimed, P!VerifyBackup, P!RestorePrior, P!VerifyRestored,
     P!RemoveClaimed, P!CloseDescriptors, P!CloseDirectory, P!CleanupBackup, P!AuditExit

\* The start.
LEMMA PkgInitial == ASSUME P!MembersAssumption, P!Init PROVE PkgInv
<1>1. PkgNames /\ PkgControl
  BY DEF P!Init, PkgNames, PkgControl, P!Contents, P!States, P!MembersAssumption
<1>2. PkgFlags
  BY Zenon DEF P!Init, PkgFlags
<1> QED
  BY <1>1, <1>2 DEF P!Init, PkgInv, PkgPhases, PkgBackup, PkgSource, PkgEnds, PkgUntouched,
         P!BackupIsNamed, P!PriorReachable

\* Every step keeps the invariant.
LEMMA PkgSteps == ASSUME P!MembersAssumption, PkgInv, [P!Next]_(P!vars) PROVE PkgInv'
<1>1. CASE UNCHANGED P!vars
  BY <1>1 DEF P!vars, PkgInv, PkgNames, PkgFlags, PkgControl, PkgPhases, PkgBackup, PkgSource,
         PkgEnds,
     PkgUntouched, P!BackupIsNamed, P!PriorReachable
<1>2. CASE P!Materialize
  BY <1>2, PkgVerifyEnumeratedKeeps, PkgAuditEntryKeeps, PkgCreateTemporaryKeeps, PkgObserveDestinationKeeps,
     PkgReadMemberKeeps, PkgSealArchiveKeeps DEF P!Materialize
<1>3. CASE P!Publish
  BY <1>3, PkgVerifyDuringKeeps, PkgLinkBackupKeeps, PkgVerifySecondKeeps, PkgVerifyBeforeKeeps, PkgVerifyThirdKeeps,
     PkgReplaceNameKeeps, PkgVerifyPublishedKeeps, PkgVerifySourceKeeps DEF P!Publish
<1>4. CASE P!Recover
  BY <1>4, PkgRemoveTemporaryKeeps, PkgClaimPublishedKeeps, PkgVerifyClaimedKeeps, PkgVerifyBackupKeeps,
     PkgRestorePriorKeeps, PkgVerifyRestoredKeeps, PkgRemoveClaimedKeeps DEF P!Recover
<1>5. CASE P!Finalize
  BY <1>5, PkgCloseDescriptorsKeeps, PkgCloseDirectoryKeeps, PkgCleanupBackupKeeps,
     PkgAuditExitKeeps DEF P!Finalize
<1>6. CASE P!Others
  BY <1>6, PkgOthersEditSourceKeeps, PkgOthersWriteDestinationKeeps, PkgOthersWriteInPlaceKeeps,
     PkgOthersTouchSidecarsKeeps, PkgOthersUseArenaKeeps DEF P!Others
<1>7. CASE P!Die
  BY <1>7, PkgDieKeeps
<1> QED
  BY <1>1, <1>2, <1>3, <1>4, <1>5, <1>6, <1>7 DEF P!Next

\* The invariant implies the safety properties of a package.
LEMMA PkgPromises ==
  ASSUME PkgInv
  PROVE  P!TypeOK /\ P!PriorReachable /\ P!SuccessIsVerified /\ P!PlainFailureIsClean /\ P!BackupIsNamed
<1>1. P!TypeOK
  BY DEF PkgInv, PkgNames, PkgFlags, PkgControl, P!TypeOK
<1>2. P!SuccessIsVerified /\ P!PlainFailureIsClean
  BY DEF PkgInv, PkgSource, PkgEnds, PkgBackup, PkgUntouched, P!SuccessIsVerified,
         P!PlainFailureIsClean
<1> QED
  BY <1>1, <1>2 DEF PkgInv, PkgEnds

-----------------------------------------------------------------------------
(* The build inventory.                                                    *)

\* And the one of the publication of an inventory.
LEMMA InvFiniteSets == \A set : I!Cardinality(set) = Cardinality(set) /\ (I!IsFiniteSet(set) <=> IsFiniteSet(set))
  BY DEF I!Cardinality, Cardinality, I!IsFiniteSet, IsFiniteSet

\* The steps, by what they are for.
InvBefore  == {"read", "freeze", "validate", "create"}
InvWriting == {"write", "seal", "verify"}
InvWindow  == {"open", "compare", "replace"}

InvFiles ==
    /\ target \in I!Versions /\ temp \in [Publishers -> I!Contents \cup {I!None}]
    /\ vault \subseteq Publishers \X I!Contents
    /\ expected \in [Publishers -> I!Versions] /\ observed \in [Publishers -> I!Versions]
InvControl ==
    /\ pc \in [Publishers -> InvBefore \cup InvWriting \cup InvWindow \cup {"sync", "finally", "end"}]
    /\ tool \in {"build", "test"} /\ offset \in [Publishers -> {"part", "full"}]
    /\ closed \in [Publishers -> {"open", "closed", "uncertain"}]
    /\ exit \in [Publishers -> I!Exits] /\ outside \in 0 .. MaxMoves
InvFlags ==
    /\ identified \in [Publishers -> BOOLEAN] /\ committed \in [Publishers -> BOOLEAN]
    /\ incomplete \in [Publishers -> BOOLEAN] /\ named \in [Publishers -> BOOLEAN]
    /\ raced \in [Publishers -> BOOLEAN] /\ swapped \in [Publishers -> BOOLEAN]
    /\ raised \in [Publishers -> BOOLEAN]

\* A quarantine keeps something of the publisher.
InvKept(w) == \E c \in I!Contents : <<w, c>> \in vault

\* What the place of a publisher says of its temporary and of the inventory.
InvHolds(w) ==
    /\ pc[w] \in InvBefore \cup {"sync"} => temp[w] = I!None
    /\ pc[w] # "end" => ~InvKept(w) /\ exit[w] = "none"
    /\ pc[w] \in InvWindow => temp[w] = "full" \/ swapped[w]
    /\ pc[w] \in InvBefore \cup InvWriting \cup InvWindow => target # w /\ ~raised[w]
    /\ pc[w] = "compare" => raced[w] \/ target = observed[w]
    /\ pc[w] = "replace" => raced[w] \/ target = expected[w]
    /\ pc[w] = "sync" => committed[w] /\ ~raised[w]
    /\ committed[w] => pc[w] \in {"sync", "end"}
    /\ exit[w] \in {"0", "3"} => committed[w]
    /\ exit[w] = "1" /\ committed[w] => incomplete[w]
    /\ pc[w] = "end" /\ exit[w] # "dead" /\ (temp[w] # I!None \/ InvKept(w)) => named[w]
InvAll == \A w \in Publishers : InvHolds(w)

InvInv == InvFiles /\ InvControl /\ InvFlags /\ InvAll

USE DEF I!None, I!files, I!local, I!history, I!world, InvBefore, InvWriting, InvWindow

\* A publisher nothing happens to.
LEMMA InvFrame ==
  ASSUME NEW q \in Publishers, InvHolds(q),
         temp'[q] = temp[q], pc'[q] = pc[q], exit'[q] = exit[q], named'[q] = named[q],
         committed'[q] = committed[q], incomplete'[q] = incomplete[q], raised'[q] = raised[q],
         raced'[q] = raced[q], swapped'[q] = swapped[q], target' = target,
         observed'[q] = observed[q], expected'[q] = expected[q],
         InvKept(q)' => InvKept(q)
  PROVE  InvHolds(q)'
  BY DEF InvHolds

\* The invariant at one publisher.
LEMMA InvUnder == ASSUME InvInv, NEW w \in Publishers PROVE
     /\ DOMAIN pc = Publishers /\ DOMAIN exit = Publishers /\ DOMAIN named = Publishers
     /\ InvHolds(w) /\ committed[w] \in BOOLEAN
  BY DEF InvInv, InvAll, InvFiles, InvControl, InvFlags

\* What one removal by claim can leave of a temporary.
LEMMA InvRemoving ==
  ASSUME NEW own, NEW x, NEW r \in I!Removal(own, x)
  PROVE  /\ r.name \in {x, I!None} /\ r.kept \in {x, I!None}
         /\ r.answer \in {"removed", "absent"} => r.name = I!None /\ r.kept = I!None
         /\ r.kept # I!None => r.name = I!None
  BY DEF I!Removal

\* The steps of one publisher: it reads the inventory,
LEMMA InvReadInventoryKeeps == ASSUME I!PublicationAssumption, InvInv, NEW w \in Publishers, I!ReadInventory(w) PROVE InvInv'
<1>1. InvFiles'
  BY DEF InvInv, InvFiles, InvControl, I!Versions, I!Contents, I!PublicationAssumption, I!Goto,
         I!ReadInventory, I!Refuse
<1>2. InvControl'
  BY DEF InvInv, InvControl, I!Exits, I!PublicationAssumption, I!Goto, I!ReadInventory, I!Refuse
<1>3. InvFlags'
  BY DEF InvInv, InvFlags, I!Goto, I!ReadInventory, I!Refuse
<1>4. ASSUME NEW q \in Publishers PROVE InvHolds(q)'
  <2>1. InvHolds(q)
    BY DEF InvInv, InvAll
  <2>2. UNCHANGED <<temp, vault, target, committed, incomplete, raised, raced, swapped, observed, named>>
    BY DEF I!ReadInventory, I!Goto, I!Fail, I!Refuse, I!Ends, I!Report
  <2>3. CASE q = w
    <3>1. /\ pc[w] = "read"
        /\ \/ pc'[w] = "freeze" /\ exit' = exit
           \/ pc'[w] = "end" /\ exit'[w] = "1"
      BY DEF InvInv, InvFiles, InvControl, InvFlags, I!ReadInventory, I!Goto, I!Fail, I!Refuse,
             I!Ends, I!Report
    <3> QED
      BY <2>1, <2>2, <2>3, <3>1 DEF InvHolds, InvKept
  <2>4. CASE q # w
    <3>1. expected'[q] = expected[q] /\ pc'[q] = pc[q] /\ exit'[q] = exit[q]
      BY <2>4 DEF InvInv, InvFiles, InvControl, InvFlags, I!ReadInventory, I!Goto, I!Fail,
             I!Refuse, I!Ends, I!Report
    <3> QED
      BY <2>1, <2>2, <3>1, InvFrame DEF InvKept
  <2> QED
    BY <2>3, <2>4
<1> QED
  BY <1>1, <1>2, <1>3, <1>4 DEF InvInv, InvAll

\* freezes what it read,
LEMMA InvFreezeContextKeeps == ASSUME I!PublicationAssumption, InvInv, NEW w \in Publishers, I!FreezeContext(w) PROVE InvInv'
<1>1. InvFiles'
  BY DEF InvInv, InvFiles, InvControl, I!Versions, I!Contents, I!PublicationAssumption,
         I!FreezeContext, I!Goto, I!MatchesNode, I!Refuse
<1>2. InvControl'
  BY DEF InvInv, InvControl, I!Exits, I!PublicationAssumption, I!FreezeContext, I!Goto,
         I!MatchesNode, I!Refuse
<1>3. InvFlags'
  BY DEF InvInv, InvFlags, I!FreezeContext, I!Goto, I!MatchesNode, I!Refuse
<1>4. ASSUME NEW q \in Publishers PROVE InvHolds(q)'
  <2>1. InvHolds(q)
    BY DEF InvInv, InvAll
  <2>2. UNCHANGED <<temp, vault, target, committed, incomplete, raised, raced, swapped, observed, expected, named>>
    BY DEF I!FreezeContext, I!Goto, I!Fail, I!Refuse, I!Ends, I!Report
  <2>3. CASE q = w
    <3>1. /\ pc[w] = "freeze"
        /\ \/ pc'[w] \in {"create", "validate"} /\ exit' = exit
           \/ pc'[w] = "end" /\ exit'[w] = "1"
      BY DEF InvInv, InvFiles, InvControl, InvFlags, I!FreezeContext, I!Goto, I!Fail, I!Refuse,
             I!Ends, I!Report
    <3> QED
      BY <2>1, <2>2, <2>3, <3>1 DEF InvHolds, InvKept
  <2>4. CASE q # w
    <3>1. pc'[q] = pc[q] /\ exit'[q] = exit[q]
      BY <2>4 DEF InvInv, InvFiles, InvControl, InvFlags, I!FreezeContext, I!Goto, I!Fail,
             I!Refuse, I!Ends, I!Report
    <3> QED
      BY <2>1, <2>2, <3>1, InvFrame DEF InvKept
  <2> QED
    BY <2>3, <2>4
<1> QED
  BY <1>1, <1>2, <1>3, <1>4 DEF InvInv, InvAll

\* validates its candidate,
LEMMA InvValidateCandidateKeeps == ASSUME I!PublicationAssumption, InvInv, NEW w \in Publishers, I!ValidateCandidate(w) PROVE InvInv'
<1>1. InvFiles'
  BY DEF InvInv, InvFiles, InvControl, I!Versions, I!Contents, I!PublicationAssumption, I!Goto,
         I!MatchesNode, I!Refuse, I!ValidateCandidate
<1>2. InvControl'
  BY DEF InvInv, InvControl, I!Exits, I!PublicationAssumption, I!Goto, I!MatchesNode, I!Refuse,
         I!ValidateCandidate
<1>3. InvFlags'
  BY DEF InvInv, InvFlags, I!Goto, I!MatchesNode, I!Refuse, I!ValidateCandidate
<1>4. ASSUME NEW q \in Publishers PROVE InvHolds(q)'
  <2>1. InvHolds(q)
    BY DEF InvInv, InvAll
  <2>2. UNCHANGED <<temp, vault, target, committed, incomplete, raised, raced, swapped, observed, expected, named>>
    BY DEF I!ValidateCandidate, I!Goto, I!Fail, I!Refuse, I!Ends, I!Report
  <2>3. CASE q = w
    <3>1. /\ pc[w] = "validate"
        /\ \/ pc'[w] = "create" /\ exit' = exit
           \/ pc'[w] = "end" /\ exit'[w] = "1"
      BY DEF InvInv, InvFiles, InvControl, InvFlags, I!ValidateCandidate, I!Goto, I!Fail,
             I!Refuse, I!Ends, I!Report
    <3> QED
      BY <2>1, <2>2, <2>3, <3>1 DEF InvHolds, InvKept
  <2>4. CASE q # w
    <3>1. pc'[q] = pc[q] /\ exit'[q] = exit[q]
      BY <2>4 DEF InvInv, InvFiles, InvControl, InvFlags, I!ValidateCandidate, I!Goto, I!Fail,
             I!Refuse, I!Ends, I!Report
    <3> QED
      BY <2>1, <2>2, <3>1, InvFrame DEF InvKept
  <2> QED
    BY <2>3, <2>4
<1> QED
  BY <1>1, <1>2, <1>3, <1>4 DEF InvInv, InvAll

\* creates the temporary file,
LEMMA InvCreateTemporaryKeeps == ASSUME I!PublicationAssumption, InvInv, NEW w \in Publishers, I!CreateTemporary(w) PROVE InvInv'
<1>1. InvFiles'
  BY DEF InvInv, InvFiles, InvControl, I!Versions, I!Contents, I!PublicationAssumption,
         I!CreateTemporary, I!Fail, I!Goto, I!Refuse
<1>2. InvControl'
  BY DEF InvInv, InvControl, I!Exits, I!PublicationAssumption, I!CreateTemporary, I!Fail,
         I!Goto, I!Refuse
<1>3. InvFlags'
  BY DEF InvInv, InvFlags, I!CreateTemporary, I!Fail, I!Goto, I!Refuse
<1>4. ASSUME NEW q \in Publishers PROVE InvHolds(q)'
  <2>1. InvHolds(q)
    BY DEF InvInv, InvAll
  <2>2. UNCHANGED <<vault, target, committed, incomplete, raised, raced, swapped, observed, expected, named>>
    BY DEF I!CreateTemporary, I!Goto, I!Fail, I!Refuse, I!Ends, I!Report
  <2>3. CASE q = w
    <3>1. /\ pc[w] = "create"
        /\ \/ pc'[w] \in {"write", "finally"} /\ exit' = exit
           \/ pc'[w] = "end" /\ exit'[w] = "1" /\ temp' = temp
      BY DEF InvInv, InvFiles, InvControl, InvFlags, I!CreateTemporary, I!Goto, I!Fail,
             I!Refuse, I!Ends, I!Report
    <3> QED
      BY <2>1, <2>2, <2>3, <3>1 DEF InvHolds, InvKept
  <2>4. CASE q # w
    <3>1. temp'[q] = temp[q] /\ pc'[q] = pc[q] /\ exit'[q] = exit[q]
      BY <2>4 DEF InvInv, InvFiles, InvControl, InvFlags, I!CreateTemporary, I!Goto, I!Fail,
             I!Refuse, I!Ends, I!Report
    <3> QED
      BY <2>1, <2>2, <3>1, InvFrame DEF InvKept
  <2> QED
    BY <2>3, <2>4
<1> QED
  BY <1>1, <1>2, <1>3, <1>4 DEF InvInv, InvAll

\* writes it,
LEMMA InvWriteCandidateKeeps == ASSUME I!PublicationAssumption, InvInv, NEW w \in Publishers, I!WriteCandidate(w) PROVE InvInv'
<1>1. InvFiles'
  BY DEF InvInv, InvFiles, InvControl, I!Versions, I!Contents, I!PublicationAssumption, I!Fail,
         I!Goto, I!WriteCandidate
<1>2. InvControl'
  BY DEF InvInv, InvControl, I!Exits, I!PublicationAssumption, I!Fail, I!Goto, I!WriteCandidate
<1>3. InvFlags'
  BY DEF InvInv, InvFlags, I!Fail, I!Goto, I!WriteCandidate
<1>4. ASSUME NEW q \in Publishers PROVE InvHolds(q)'
  <2>1. InvHolds(q)
    BY DEF InvInv, InvAll
  <2>2. UNCHANGED <<vault, target, committed, incomplete, raised, raced, swapped, observed, expected, named>>
    BY DEF I!WriteCandidate, I!Goto, I!Fail, I!Refuse, I!Ends, I!Report
  <2>3. CASE q = w
    <3>1. /\ pc[w] = "write" /\ pc'[w] \in {"seal", "finally"} /\ exit' = exit
      BY DEF InvInv, InvFiles, InvControl, InvFlags, I!WriteCandidate, I!Goto, I!Fail,
             I!Refuse, I!Ends, I!Report
    <3> QED
      BY <2>1, <2>2, <2>3, <3>1 DEF InvHolds, InvKept
  <2>4. CASE q # w
    <3>1. temp'[q] = temp[q] /\ pc'[q] = pc[q] /\ exit'[q] = exit[q]
      BY <2>4 DEF InvInv, InvFiles, InvControl, InvFlags, I!WriteCandidate, I!Goto, I!Fail,
             I!Refuse, I!Ends, I!Report
    <3> QED
      BY <2>1, <2>2, <3>1, InvFrame DEF InvKept
  <2> QED
    BY <2>3, <2>4
<1> QED
  BY <1>1, <1>2, <1>3, <1>4 DEF InvInv, InvAll

\* seals it,
LEMMA InvSealTemporaryKeeps == ASSUME I!PublicationAssumption, InvInv, NEW w \in Publishers, I!SealTemporary(w) PROVE InvInv'
<1>1. InvFiles'
  BY DEF InvInv, InvFiles, InvControl, I!Versions, I!Contents, I!PublicationAssumption, I!Fail,
         I!Goto, I!SealTemporary
<1>2. InvControl'
  BY DEF InvInv, InvControl, I!Exits, I!PublicationAssumption, I!Fail, I!Goto, I!SealTemporary
<1>3. InvFlags'
  BY DEF InvInv, InvFlags, I!Fail, I!Goto, I!SealTemporary
<1>4. ASSUME NEW q \in Publishers PROVE InvHolds(q)'
  <2>1. InvHolds(q)
    BY DEF InvInv, InvAll
  <2>2. UNCHANGED <<temp, vault, target, committed, incomplete, raised, raced, swapped, observed, expected, named>>
    BY DEF I!SealTemporary, I!Goto, I!Fail, I!Refuse, I!Ends, I!Report
  <2>3. CASE q = w
    <3>1. /\ pc[w] = "seal" /\ pc'[w] \in {"verify", "finally"} /\ exit' = exit
      BY DEF InvInv, InvFiles, InvControl, InvFlags, I!SealTemporary, I!Goto, I!Fail, I!Refuse,
             I!Ends, I!Report
    <3> QED
      BY <2>1, <2>2, <2>3, <3>1 DEF InvHolds, InvKept
  <2>4. CASE q # w
    <3>1. pc'[q] = pc[q] /\ exit'[q] = exit[q]
      BY <2>4 DEF InvInv, InvFiles, InvControl, InvFlags, I!SealTemporary, I!Goto, I!Fail,
             I!Refuse, I!Ends, I!Report
    <3> QED
      BY <2>1, <2>2, <3>1, InvFrame DEF InvKept
  <2> QED
    BY <2>3, <2>4
<1> QED
  BY <1>1, <1>2, <1>3, <1>4 DEF InvInv, InvAll

\* verifies it by its identity,
LEMMA InvVerifyTemporaryKeeps == ASSUME I!PublicationAssumption, InvInv, NEW w \in Publishers, I!VerifyTemporary(w) PROVE InvInv'
<1>1. InvFiles'
  BY DEF InvInv, InvFiles, InvControl, I!Versions, I!Contents, I!PublicationAssumption, I!Fail,
         I!Goto, I!VerifyTemporary
<1>2. InvControl'
  BY DEF InvInv, InvControl, I!Exits, I!PublicationAssumption, I!Fail, I!Goto, I!VerifyTemporary
<1>3. InvFlags'
  BY DEF InvInv, InvFlags, I!Fail, I!Goto, I!VerifyTemporary
<1>4. ASSUME NEW q \in Publishers PROVE InvHolds(q)'
  <2>1. InvHolds(q)
    BY DEF InvInv, InvAll
  <2>2. UNCHANGED <<temp, vault, target, committed, incomplete, raised, raced, observed, expected, named>>
    BY DEF I!VerifyTemporary, I!Goto, I!Fail, I!Refuse, I!Ends, I!Report
  <2>3. CASE q = w
    <3>1. /\ pc[w] = "verify" /\ exit' = exit
        /\ \/ pc'[w] = "open" /\ temp[w] = "full"
           \/ pc'[w] = "finally" /\ swapped' = swapped
      BY DEF InvInv, InvFiles, InvControl, InvFlags, I!VerifyTemporary, I!Goto, I!Fail,
             I!Refuse, I!Ends, I!Report
    <3> QED
      BY <2>1, <2>2, <2>3, <3>1 DEF InvHolds, InvKept
  <2>4. CASE q # w
    <3>1. swapped'[q] = swapped[q] /\ pc'[q] = pc[q] /\ exit'[q] = exit[q]
      BY <2>4 DEF InvInv, InvFiles, InvControl, InvFlags, I!VerifyTemporary, I!Goto, I!Fail,
             I!Refuse, I!Ends, I!Report
    <3> QED
      BY <2>1, <2>2, <3>1, InvFrame DEF InvKept
  <2> QED
    BY <2>3, <2>4
<1> QED
  BY <1>1, <1>2, <1>3, <1>4 DEF InvInv, InvAll

\* opens the inventory again,
LEMMA InvOpenTargetKeeps == ASSUME I!PublicationAssumption, InvInv, NEW w \in Publishers, I!OpenTarget(w) PROVE InvInv'
<1>1. InvFiles'
  BY DEF InvInv, InvFiles, InvControl, I!Versions, I!Contents, I!PublicationAssumption, I!Fail,
         I!Goto, I!OpenTarget
<1>2. InvControl'
  BY DEF InvInv, InvControl, I!Exits, I!PublicationAssumption, I!Fail, I!Goto, I!OpenTarget
<1>3. InvFlags'
  BY DEF InvInv, InvFlags, I!Fail, I!Goto, I!OpenTarget
<1>4. ASSUME NEW q \in Publishers PROVE InvHolds(q)'
  <2>1. InvHolds(q)
    BY DEF InvInv, InvAll
  <2>2. UNCHANGED <<temp, vault, target, committed, incomplete, raised, swapped, expected, named>>
    BY DEF I!OpenTarget, I!Goto, I!Fail, I!Refuse, I!Ends, I!Report
  <2>3. CASE q = w
    <3>1. /\ pc[w] = "open" /\ observed'[w] = target /\ exit' = exit /\ pc'[w] \in {"compare", "finally"}
      BY DEF InvInv, InvFiles, InvControl, InvFlags, I!OpenTarget, I!Goto, I!Fail, I!Refuse,
             I!Ends, I!Report
    <3> QED
      BY <2>1, <2>2, <2>3, <3>1 DEF InvHolds, InvKept
  <2>4. CASE q # w
    <3>1. observed'[q] = observed[q] /\ raced'[q] = raced[q] /\ pc'[q] = pc[q] /\ exit'[q] = exit[q]
      BY <2>4 DEF InvInv, InvFiles, InvControl, InvFlags, I!OpenTarget, I!Goto, I!Fail,
             I!Refuse, I!Ends, I!Report
    <3> QED
      BY <2>1, <2>2, <3>1, InvFrame DEF InvKept
  <2> QED
    BY <2>3, <2>4
<1> QED
  BY <1>1, <1>2, <1>3, <1>4 DEF InvInv, InvAll

\* compares what it reads there,
LEMMA InvCompareTargetKeeps == ASSUME I!PublicationAssumption, InvInv, NEW w \in Publishers, I!CompareTarget(w) PROVE InvInv'
<1>1. InvFiles'
  BY DEF InvInv, InvFiles, InvControl, I!Versions, I!Contents, I!PublicationAssumption,
         I!CompareTarget, I!Fail, I!Goto, I!ReadStable
<1>2. InvControl'
  BY DEF InvInv, InvControl, I!Exits, I!PublicationAssumption, I!CompareTarget, I!Fail, I!Goto,
         I!ReadStable
<1>3. InvFlags'
  BY DEF InvInv, InvFlags, I!CompareTarget, I!Fail, I!Goto, I!ReadStable
<1>4. ASSUME NEW q \in Publishers PROVE InvHolds(q)'
  <2>1. InvHolds(q)
    BY DEF InvInv, InvAll
  <2>2. UNCHANGED <<temp, vault, target, committed, incomplete, raised, raced, swapped, observed, expected, named>>
    BY DEF I!CompareTarget, I!Goto, I!Fail, I!Refuse, I!Ends, I!Report
  <2>3. CASE q = w
    <3>1. /\ pc[w] = "compare" /\ exit' = exit
        /\ \/ pc'[w] = "replace" /\ observed[w] = expected[w] /\ target = observed[w]
           \/ pc'[w] = "finally"
      BY DEF InvInv, InvFiles, InvControl, InvFlags, I!CompareTarget, I!Goto, I!Fail, I!Refuse,
             I!Ends, I!Report, I!ReadStable
    <3> QED
      BY <2>1, <2>2, <2>3, <3>1 DEF InvHolds, InvKept
  <2>4. CASE q # w
    <3>1. pc'[q] = pc[q] /\ exit'[q] = exit[q]
      BY <2>4 DEF InvInv, InvFiles, InvControl, InvFlags, I!CompareTarget, I!Goto, I!Fail,
             I!Refuse, I!Ends, I!Report, I!ReadStable
    <3> QED
      BY <2>1, <2>2, <3>1, InvFrame DEF InvKept
  <2> QED
    BY <2>3, <2>4
<1> QED
  BY <1>1, <1>2, <1>3, <1>4 DEF InvInv, InvAll

\* renames the candidate over it,
LEMMA InvReplaceTargetKeeps == ASSUME I!PublicationAssumption, InvInv, NEW w \in Publishers, I!ReplaceTarget(w) PROVE InvInv'
<1>a. PICK happens \in BOOLEAN, raises \in BOOLEAN :
         /\ happens \/ raises
         /\ happens => temp[w] # I!None
         /\ IF happens
              THEN /\ target' = w /\ temp' = [temp EXCEPT ![w] = I!None]
                   /\ raced' = [q \in Publishers |-> raced[q] \/ q # w]
              ELSE UNCHANGED <<target, temp, raced>>
         /\ raised' = [raised EXCEPT ![w] = happens /\ raises]
         /\ IF raises THEN I!Fail(w) /\ UNCHANGED committed
                      ELSE committed' = [committed EXCEPT ![w] = TRUE] /\ I!Goto(w, "sync")
  BY Zenon DEF I!ReplaceTarget
<1>b. /\ pc[w] = "replace" /\ UNCHANGED <<vault, I!world, expected, observed, offset, identified, closed,
                                          incomplete, swapped>>
  BY DEF I!ReplaceTarget
<1>c. /\ pc' = [pc EXCEPT ![w] = IF raises THEN "finally" ELSE "sync"] /\ UNCHANGED <<named, exit>>
      /\ committed' = IF raises THEN committed ELSE [committed EXCEPT ![w] = TRUE]
  BY <1>a DEF I!Fail, I!Goto
<1>1. InvFiles'
  BY <1>a, <1>b DEF InvInv, InvFiles, I!Versions
<1>2. InvControl'
  BY <1>b, <1>c DEF InvInv, InvControl
<1>3. InvFlags'
  <2>1. InvFlags
    BY DEF InvInv
  <2>2. raced' \in [Publishers -> BOOLEAN]
    BY <1>a, <2>1, Zenon DEF InvFlags
  <2>3. (happens /\ raises) \in BOOLEAN
    OBVIOUS
  <2>4. raised' \in [Publishers -> BOOLEAN]
    BY <1>a, <2>1, <2>3, Zenon DEF InvFlags
  <2>5. committed' \in [Publishers -> BOOLEAN]
    BY <1>c, <2>1 DEF InvFlags
  <2> QED
    BY <1>b, <1>c, <2>1, <2>2, <2>4, <2>5 DEF InvFlags
<1>4. ASSUME NEW q \in Publishers PROVE InvHolds(q)'
  <2>1. InvHolds(q) /\ InvFlags
    BY DEF InvInv, InvAll
  <2>2. /\ target' = (IF happens THEN w ELSE target) /\ (~happens => raced' = raced)
        /\ temp'[q] = IF happens /\ q = w THEN I!None ELSE temp[q]
    BY <1>a DEF InvInv, InvFiles
  <2>3. CASE q = w
    <3>1. /\ pc'[w] = IF raises THEN "finally" ELSE "sync"
          /\ raises => committed'[w] = committed[w]
          /\ ~raises => committed'[w]
      BY <1>c DEF InvInv, InvControl, InvFlags
    <3>2. raised'[w] <=> (happens /\ raises)
      BY <1>a, <2>1, Zenon DEF InvFlags
    <3>3. /\ pc[w] = "replace" /\ ~InvKept(w) /\ exit'[w] = "none" /\ ~committed[w]
          /\ UNCHANGED <<vault, incomplete, named, swapped>>
      BY <1>b, <1>c, <2>1, <2>3 DEF InvHolds
    <3>4. happens \/ raises
      BY <1>a
    <3>5. ~InvKept(w)'
      BY <3>3 DEF InvKept
    <3> QED
      BY <2>2, <2>3, <3>1, <3>2, <3>3, <3>4, <3>5 DEF InvHolds
  <2>4. CASE q # w
    <3>1. /\ pc'[q] = pc[q] /\ committed'[q] = committed[q] /\ raised'[q] = raised[q]
          /\ happens => raced'[q]
      BY <1>a, <1>c, <2>4 DEF InvInv, InvControl, InvFlags
    <3>2. raced'[q] = raced[q] \/ raced'[q]
      BY <2>2, <3>1
    <3> QED
      BY <1>b, <1>c, <2>1, <2>2, <2>4, <3>1, <3>2 DEF InvHolds, InvKept
  <2> QED
    BY <2>3, <2>4
<1> QED
  BY <1>1, <1>2, <1>3, <1>4 DEF InvInv, InvAll

\* and syncs the directory.
LEMMA InvSyncDirectoryKeeps == ASSUME I!PublicationAssumption, InvInv, NEW w \in Publishers, I!SyncDirectory(w) PROVE InvInv'
<1>1. InvFiles'
  BY DEF InvInv, InvFiles, InvControl, I!Versions, I!Contents, I!PublicationAssumption,
         I!SyncDirectory
<1>2. InvControl'
  BY DEF InvInv, InvControl, I!Exits, I!PublicationAssumption, I!SyncDirectory
<1>3. InvFlags'
  BY DEF InvInv, InvFlags, I!SyncDirectory
<1>4. ASSUME NEW q \in Publishers PROVE InvHolds(q)'
  <2>1. InvHolds(q)
    BY DEF InvInv, InvAll
  <2>2. UNCHANGED <<temp, vault, target, committed, incomplete, raised, raced, swapped, observed, expected, named>>
    BY DEF I!SyncDirectory, I!Goto, I!Fail, I!Refuse, I!Ends, I!Report
  <2>3. CASE q = w
    <3>1. /\ pc[w] = "sync" /\ pc'[w] = "end" /\ exit'[w] \in {"0", "1", "3"} /\ (exit'[w] = "1" => incomplete[w])
      BY DEF InvInv, InvFiles, InvControl, InvFlags, I!SyncDirectory, I!Goto, I!Fail, I!Refuse,
             I!Ends, I!Report
    <3> QED
      BY <2>1, <2>2, <2>3, <3>1 DEF InvHolds, InvKept
  <2>4. CASE q # w
    <3>1. pc'[q] = pc[q] /\ exit'[q] = exit[q]
      BY <2>4 DEF InvInv, InvFiles, InvControl, InvFlags, I!SyncDirectory, I!Goto, I!Fail,
             I!Refuse, I!Ends, I!Report
    <3> QED
      BY <2>1, <2>2, <3>1, InvFrame DEF InvKept
  <2> QED
    BY <2>3, <2>4
<1> QED
  BY <1>1, <1>2, <1>3, <1>4 DEF InvInv, InvAll

\* On every other path the temporary is removed by claim,
LEMMA InvRemoveTemporaryKeeps == ASSUME I!PublicationAssumption, InvInv, NEW w \in Publishers, I!RemoveTemporary(w) PROVE InvInv'
<1>a. PICK r \in I!Removal(I!OwnBytes(w), temp[w]) :
         /\ temp' = [temp EXCEPT ![w] = r.name]
         /\ vault' = IF r.kept = I!None THEN vault ELSE vault \cup {<<w, r.kept>>}
         /\ IF I!Cleaned(r.answer) THEN UNCHANGED named ELSE I!Report(w)
  BY Zenon DEF I!RemoveTemporary
<1>b. /\ r.name \in {temp[w], I!None} /\ r.kept \in {temp[w], I!None}
      /\ I!Cleaned(r.answer) => r.name = I!None /\ r.kept = I!None
  BY InvRemoving DEF I!Cleaned
<1>c. /\ pc[w] = "finally" /\ UNCHANGED <<target, I!world, I!local, I!history>>
      /\ pc' = [pc EXCEPT ![w] = "end"] /\ exit' = [exit EXCEPT ![w] = "1"]
  BY DEF I!RemoveTemporary, I!Ends
<1>d. InvFiles /\ InvControl /\ InvFlags /\ temp[w] \in I!Contents \cup {I!None}
  BY DEF InvInv, InvFiles
<1>1. InvFiles'
  <2>1. temp' \in [Publishers -> I!Contents \cup {I!None}]
    BY <1>a, <1>b, <1>d DEF InvFiles
  <2>2. vault' \subseteq Publishers \X I!Contents
    BY <1>a, <1>b, <1>d DEF InvFiles
  <2> QED
    BY <1>c, <1>d, <2>1, <2>2 DEF InvFiles
<1>2. InvControl'
  BY <1>c, <1>d DEF InvControl, I!Exits
<1>3. InvFlags'
  BY <1>a, <1>c, <1>d DEF InvFlags, I!Report
<1>4. ASSUME NEW q \in Publishers PROVE InvHolds(q)'
  <2>1. InvHolds(q)
    BY DEF InvInv, InvAll
  <2>2. CASE q = w
    <3>1. pc'[w] = "end" /\ exit'[w] = "1" /\ temp'[w] = r.name
      BY <1>a, <1>c, <1>d DEF InvFiles, InvControl
    <3>2. named'[w] \/ (r.name = I!None /\ r.kept = I!None)
      BY <1>a, <1>b, <1>d DEF InvFlags, I!Report
    <3>3. r.kept = I!None => ~InvKept(w)'
      BY <1>a, <1>c, <2>1, <2>2 DEF InvKept, InvHolds
    <3> QED
      BY <1>c, <2>1, <2>2, <3>1, <3>2, <3>3 DEF InvHolds
  <2>3. CASE q # w
    <3>1. pc'[q] = pc[q] /\ exit'[q] = exit[q] /\ temp'[q] = temp[q] /\ named'[q] = named[q]
      BY <1>a, <1>c, <1>d, <2>3 DEF InvFiles, InvControl, InvFlags, I!Report
    <3>2. InvKept(q)' => InvKept(q)
      BY <1>a, <2>3 DEF InvKept
    <3> QED
      BY <1>c, <2>1, <3>1, <3>2, InvFrame
  <2> QED
    BY <2>2, <2>3
<1> QED
  BY <1>1, <1>2, <1>3, <1>4 DEF InvInv, InvAll

\* or left and named.
LEMMA InvLeaveTemporaryKeeps == ASSUME I!PublicationAssumption, InvInv, NEW w \in Publishers, I!LeaveTemporary(w) PROVE InvInv'
<1>1. InvFiles'
  BY DEF InvInv, InvFiles, InvControl, I!Versions, I!Contents, I!PublicationAssumption, I!Ends,
         I!LeaveTemporary, I!Report
<1>2. InvControl'
  BY DEF InvInv, InvControl, I!Exits, I!PublicationAssumption, I!Ends, I!LeaveTemporary,
         I!Report
<1>3. InvFlags'
  BY DEF InvInv, InvFlags, I!Ends, I!LeaveTemporary, I!Report
<1>4. ASSUME NEW q \in Publishers PROVE InvHolds(q)'
  <2>1. InvHolds(q)
    BY DEF InvInv, InvAll
  <2>2. UNCHANGED <<temp, vault, target, committed, incomplete, raised, raced, swapped, observed, expected>>
    BY DEF I!LeaveTemporary
  <2>3. CASE q = w
    <3>1. /\ pc[w] = "finally" /\ named'[w] /\ pc'[w] = "end" /\ exit'[w] = "1"
      BY DEF InvInv, InvFiles, InvControl, InvFlags, I!LeaveTemporary, I!Goto, I!Fail,
             I!Refuse, I!Ends, I!Report
    <3> QED
      BY <2>1, <2>2, <2>3, <3>1 DEF InvHolds, InvKept
  <2>4. CASE q # w
    <3>1. named'[q] = named[q] /\ pc'[q] = pc[q] /\ exit'[q] = exit[q]
      BY <2>4 DEF InvInv, InvFiles, InvControl, InvFlags, I!LeaveTemporary, I!Goto, I!Fail,
             I!Refuse, I!Ends, I!Report
    <3> QED
      BY <2>1, <2>2, <3>1, InvFrame DEF InvKept
  <2> QED
    BY <2>3, <2>4
<1> QED
  BY <1>1, <1>2, <1>3, <1>4 DEF InvInv, InvAll

\* Others edit the inventory or a temporary file.
LEMMA InvOthersEditKeeps == ASSUME I!PublicationAssumption, InvInv, I!OthersEdit PROVE InvInv'
<1>1. InvFiles'
  BY DEF InvInv, InvFiles, InvControl, I!Versions, I!Contents, I!PublicationAssumption,
         I!Everyone, I!OthersEdit, I!Outside
<1>2. InvControl'
  BY DEF InvInv, InvControl, I!Exits, I!PublicationAssumption, I!Everyone, I!OthersEdit,
         I!Outside
<1>3. InvFlags'
  BY DEF InvInv, InvFlags, I!Everyone, I!OthersEdit, I!Outside
<1>4. ASSUME NEW q \in Publishers PROVE InvHolds(q)'
  <2>1. InvHolds(q) /\ InvFiles /\ InvFlags /\ outside \in 0 .. MaxMoves
    BY DEF InvInv, InvAll, InvControl
  <2>2. /\ UNCHANGED <<vault, I!local, pc, named, exit, raised>>
        /\ outside < MaxMoves /\ outside' = outside + 1
    BY DEF I!OthersEdit, I!Outside
  <2>3. CASE target' = outside + 1 /\ raced' = I!Everyone(TRUE) /\ UNCHANGED <<temp, swapped>>
    <3>1. target' # q /\ raced'[q]
      BY <2>1, <2>2, <2>3 DEF I!Everyone, I!PublicationAssumption
    <3> QED
      BY <2>1, <2>2, <2>3, <3>1 DEF InvHolds, InvKept
  <2>4. CASE /\ \E w \in Publishers : /\ temp[w] # I!None
                                      /\ \E c \in {"other", I!None} : temp' = [temp EXCEPT ![w] = c]
                                      /\ swapped' = [swapped EXCEPT ![w] = TRUE]
             /\ UNCHANGED <<target, raced>>
    <3>1. PICK w \in Publishers : /\ temp[w] # I!None
                                  /\ \E c \in {"other", I!None} : temp' = [temp EXCEPT ![w] = c]
                                  /\ swapped' = [swapped EXCEPT ![w] = TRUE]
      BY <2>4
    <3>2. CASE q = w
      <4>1. swapped'[q]
        BY <2>1, <3>1, <3>2 DEF InvFlags
      <4> QED
        BY <2>1, <2>2, <2>4, <3>1, <3>2, <4>1 DEF InvHolds, InvKept
    <3>3. CASE q # w
      <4>1. swapped'[q] = swapped[q] /\ temp'[q] = temp[q]
        BY <2>1, <3>1, <3>3 DEF InvFlags, InvFiles
      <4> QED
        BY <2>1, <2>2, <2>4, <4>1, InvFrame DEF InvKept
    <3> QED
      BY <3>2, <3>3
  <2> QED
    BY <2>3, <2>4 DEF I!OthersEdit
<1> QED
  BY <1>1, <1>2, <1>3, <1>4 DEF InvInv, InvAll

\* A publisher is killed.
LEMMA InvDieKeeps == ASSUME I!PublicationAssumption, InvInv, NEW w \in Publishers, I!Die(w) PROVE InvInv'
<1>1. InvFiles'
  BY DEF InvInv, InvFiles, InvControl, I!Versions, I!Contents, I!PublicationAssumption, I!Die
<1>2. InvControl'
  BY DEF InvInv, InvControl, I!Exits, I!PublicationAssumption, I!Die
<1>3. InvFlags'
  BY DEF InvInv, InvFlags, I!Die
<1>4. ASSUME NEW q \in Publishers PROVE InvHolds(q)'
  <2>1. InvHolds(q)
    BY DEF InvInv, InvAll
  <2>2. UNCHANGED <<temp, vault, target, committed, incomplete, raised, raced, swapped, observed, expected, named>>
    BY DEF I!Die, I!Goto, I!Fail, I!Refuse, I!Ends, I!Report
  <2>3. CASE q = w
    <3>1. /\ pc'[w] = "end" /\ exit'[w] = "dead"
      BY DEF InvInv, InvFiles, InvControl, InvFlags, I!Die, I!Goto, I!Fail, I!Refuse, I!Ends,
             I!Report
    <3> QED
      BY <2>1, <2>2, <2>3, <3>1 DEF InvHolds, InvKept
  <2>4. CASE q # w
    <3>1. pc'[q] = pc[q] /\ exit'[q] = exit[q]
      BY <2>4 DEF InvInv, InvFiles, InvControl, InvFlags, I!Die, I!Goto, I!Fail, I!Refuse,
             I!Ends, I!Report
    <3> QED
      BY <2>1, <2>2, <3>1, InvFrame DEF InvKept
  <2> QED
    BY <2>3, <2>4
<1> QED
  BY <1>1, <1>2, <1>3, <1>4 DEF InvInv, InvAll

\* The start.
LEMMA InvInitial == ASSUME I!PublicationAssumption, I!Init PROVE InvInv
<1>1. InvFiles /\ InvControl
  BY DEF I!Init, InvFiles, InvControl, I!Everyone, I!Versions, I!Exits, I!PublicationAssumption
<1>2. InvFlags
  <2>1. I!Everyone(FALSE) \in [Publishers -> BOOLEAN]
    BY DEF I!Everyone
  <2> QED
    BY <2>1 DEF I!Init, InvFlags
<1>3. ASSUME NEW w \in Publishers PROVE InvHolds(w)
  <2>1. target # w
    BY DEF I!Init, I!PublicationAssumption
  <2> QED
    BY <2>1 DEF I!Init, InvHolds, InvKept, I!Everyone
<1> QED
  BY <1>1, <1>2, <1>3 DEF InvInv, InvAll

\* Every step keeps the invariant, whoever takes it.
LEMMA InvSteps == ASSUME I!PublicationAssumption, InvInv, [I!Next]_(I!vars) PROVE InvInv'
<1>1. CASE I!OthersEdit
  BY <1>1, InvOthersEditKeeps
<1>2. ASSUME NEW w \in Publishers, I!Run(w) \/ I!Die(w) PROVE InvInv'
  BY <1>2, InvReadInventoryKeeps, InvFreezeContextKeeps, InvValidateCandidateKeeps, InvCreateTemporaryKeeps,
     InvWriteCandidateKeeps, InvSealTemporaryKeeps, InvVerifyTemporaryKeeps, InvOpenTargetKeeps,
     InvCompareTargetKeeps, InvReplaceTargetKeeps, InvSyncDirectoryKeeps, InvRemoveTemporaryKeeps,
     InvLeaveTemporaryKeeps, InvDieKeeps DEF I!Run, I!Derive, I!Write, I!Install, I!Finally
<1>3. CASE UNCHANGED I!vars
  BY <1>3 DEF I!vars, InvInv, InvFiles, InvControl, InvFlags, InvAll, InvHolds, InvKept
<1> QED
  BY <1>1, <1>2, <1>3 DEF I!Next

\* The invariant implies the safety properties of a refresh.
LEMMA InvPromises == ASSUME InvInv PROVE I!TypeOK /\ I!ExitTellsTruth /\ I!NothingUnreported
<1>1. I!TypeOK
  BY DEF InvInv, InvFiles, InvControl, InvFlags, I!TypeOK
<1>2. I!ExitTellsTruth
  BY DEF InvInv, InvAll, InvHolds, I!ExitTellsTruth, I!Installed
<1>3. I!NothingUnreported
  BY DEF InvInv, InvAll, InvHolds, InvKept, I!NothingUnreported
<1> QED
  BY <1>1, <1>2, <1>3

\* Only the rename of a publisher puts its candidate under the inventory's name.
LEMMA InvInstalls ==
  ASSUME I!PublicationAssumption, InvInv, [I!Next]_(I!vars)
  PROVE  I!InstallsWholeCandidate /\ I!LostOnlyInWindow
<1> SUFFICES ASSUME NEW w \in Publishers, target' = w, target # w
             PROVE  (temp[w] = "full" \/ swapped[w]) /\ (target = expected[w] \/ raced[w])
  BY DEF I!InstallsWholeCandidate, I!LostOnlyInWindow
<1>1. ~I!OthersEdit
  <2>1. target' = target \/ (target' = outside + 1 /\ outside < MaxMoves) \/ ~I!OthersEdit
    BY DEF I!OthersEdit, I!Outside
  <2>2. outside \in 0 .. MaxMoves
    BY DEF InvInv, InvControl
  <2> QED
    BY <2>1, <2>2 DEF I!PublicationAssumption
<1>2. PICK q \in Publishers : I!Run(q) \/ I!Die(q)
  BY <1>1 DEF I!Next, I!vars
<1>3. I!ReplaceTarget(q) /\ pc[q] = "replace" /\ target' = q
  BY <1>2 DEF I!Run, I!Derive, I!Write, I!Install, I!Finally, I!Die, I!ReadInventory,
         I!FreezeContext,
     I!ValidateCandidate, I!CreateTemporary, I!WriteCandidate, I!SealTemporary, I!VerifyTemporary, I!OpenTarget,
     I!CompareTarget, I!ReplaceTarget, I!SyncDirectory, I!RemoveTemporary, I!LeaveTemporary
<1> QED
  BY <1>3 DEF InvInv, InvAll, InvHolds

\* The files of others, temporary by temporary and quarantine by quarantine.
LEMMA InvForeign ==
  /\ I!Foreign \in SUBSET (Publishers \X {"temp", "vault"})
  /\ I!Foreign' \in SUBSET (Publishers \X {"temp", "vault"})
  /\ \A q \in Publishers : /\ <<q, "temp">> \in I!Foreign <=> temp[q] = "other"
                           /\ <<q, "vault">> \in I!Foreign <=> <<q, "other">> \in vault
                           /\ <<q, "temp">> \in I!Foreign' <=> temp'[q] = "other"
                           /\ <<q, "vault">> \in I!Foreign' <=> <<q, "other">> \in vault'
<1>1. \A q \in Publishers, c \in {"temp", "vault"} : <<q, c>> \in Publishers \X {"temp", "vault"}
  OBVIOUS
<1> QED
  BY <1>1 DEF I!Foreign

\* If one temporary at most is taken aside, there are no fewer of them.
LEMMA InvCounted ==
  ASSUME I!PublicationAssumption, NEW q \in Publishers,
         \A t \in Publishers \ {q} : temp'[t] = temp[t],
         \A t \in Publishers : <<t, "other">> \in vault => <<t, "other">> \in vault',
         temp[q] = "other" => \/ temp'[q] = "other"
                              \/ <<q, "other">> \notin vault /\ <<q, "other">> \in vault'
  PROVE  Cardinality(I!Foreign) <= Cardinality(I!Foreign')
<1>1. Cardinality(I!Foreign) <= Cardinality(I!Foreign')
  BY InvForeign, InvFiniteSets, MovedAside DEF I!PublicationAssumption
<1> QED
  BY <1>1

\* Only the cleanup touches what lies under a temporary name, and it takes it aside.
LEMMA InvForeignKept == ASSUME I!PublicationAssumption, InvInv, [I!Next]_(I!vars) PROVE I!ForeignKept
<1> SUFFICES ASSUME outside' = outside, target' = target
             PROVE  Cardinality(I!Foreign) <= Cardinality(I!Foreign')
  BY InvFiniteSets DEF I!ForeignKept
<1>1. ~I!OthersEdit
  <2>1. outside \in Nat
    BY DEF InvInv, InvControl, I!PublicationAssumption
  <2>2. I!OthersEdit => outside' = outside + 1
    BY Zenon DEF I!OthersEdit, I!Outside
  <2> QED
    BY <2>1, <2>2
<1>2. CASE UNCHANGED <<temp, vault>>
  <2>1. I!Foreign' = I!Foreign
    BY <1>2 DEF I!Foreign
  <2>2. IsFiniteSet(Publishers \X {"temp", "vault"})
    <3>1. IsFiniteSet({"temp"} \cup {"vault"}) /\ {"temp", "vault"} = {"temp"} \cup {"vault"}
      BY FS_Singleton, FS_Union
    <3> QED
      BY <3>1, InvFiniteSets, FS_Product DEF I!PublicationAssumption
  <2>3. Cardinality(I!Foreign) \in Nat
    BY <2>2, InvForeign, FS_Subset, FS_CardinalityType
  <2> QED
    BY <2>1, <2>3
<1>3. ASSUME NEW q \in Publishers, I!Run(q) \/ I!Die(q), ~UNCHANGED <<temp, vault>>
      PROVE  Cardinality(I!Foreign) <= Cardinality(I!Foreign')
  <2>1. I!CreateTemporary(q) \/ I!WriteCandidate(q) \/ I!ReplaceTarget(q) \/ I!RemoveTemporary(q)
    BY <1>3 DEF I!Run, I!Derive, I!Write, I!Install, I!Finally, I!Die, I!ReadInventory,
           I!FreezeContext,
       I!ValidateCandidate, I!SealTemporary, I!VerifyTemporary, I!OpenTarget, I!CompareTarget,
       I!SyncDirectory, I!LeaveTemporary
  <2>2. temp \in [Publishers -> I!Contents \cup {I!None}] /\ InvHolds(q) /\ q \in Publishers
    BY <1>3, InvUnder DEF InvInv, InvFiles
  <2>3. CASE I!CreateTemporary(q)
    <3>1. temp[q] # "other" /\ vault' = vault /\ \A t \in Publishers \ {q} : temp'[t] = temp[t]
      BY <2>2, <2>3 DEF I!CreateTemporary, InvHolds
    <3> QED
      BY <2>2, <3>1, InvCounted
  <2>4. CASE I!WriteCandidate(q)
    <3>1. /\ vault' = vault /\ \A t \in Publishers \ {q} : temp'[t] = temp[t]
          /\ temp[q] = "other" => temp'[q] = "other"
      BY <2>2, <2>4 DEF I!WriteCandidate
    <3> QED
      BY <2>2, <3>1, InvCounted
  <2>5. ~I!ReplaceTarget(q)
    BY <1>3, <2>2 DEF I!ReplaceTarget, InvHolds
  <2>6. CASE I!RemoveTemporary(q)
    <3>1. PICK r \in I!Removal(I!OwnBytes(q), temp[q]) :
            /\ temp' = [temp EXCEPT ![q] = r.name]
            /\ vault' = IF r.kept = I!None THEN vault ELSE vault \cup {<<q, r.kept>>}
      BY <2>6 DEF I!RemoveTemporary
    <3>2. I!OwnBytes(q) # "other"
      BY DEF I!OwnBytes, InvInv, InvControl
    <3>3. temp[q] = "other" => r.name = "other" \/ r.kept = "other"
      BY <3>2 DEF I!Removal
    <3>4. <<q, "other">> \notin vault
      BY <2>2, <2>6 DEF I!RemoveTemporary, InvHolds, InvKept, I!Contents
    <3>5. /\ \A t \in Publishers \ {q} : temp'[t] = temp[t]
          /\ temp'[q] = r.name
          /\ \A t \in Publishers : <<t, "other">> \in vault => <<t, "other">> \in vault'
          /\ r.kept = "other" => <<q, "other">> \in vault'
      BY <2>2, <3>1
    <3> QED
      BY <3>3, <3>4, <3>5, InvCounted
  <2> QED
    BY <2>1, <2>3, <2>4, <2>5, <2>6
<1> QED
  BY <1>1, <1>2, <1>3 DEF I!Next, I!vars

-----------------------------------------------------------------------------
(* The test inventory.                                                     *)

TstRows(inv) ==
    /\ DOMAIN inv.rows = T!Rows
    /\ \A r \in T!Rows : /\ inv.rows[r].tests \subseteq {t1, t2} \cup {u1, u2}
                         /\ T!IsZig(r) => inv.rows[r].tests \subseteq {t1, t2}
    /\ \A set \in inv.sets : set.root \in {z, zx} \cup {p}
    /\ \A bound \in inv.bindings : bound.row \in T!Rows /\ T!IsZig(bound.row) /\ bound.tests \subseteq {t1, t2}

\* The frozen Zig rows were observed, and only rows that execute are.
TstObserved(inv) ==
    \A r \in T!Rows : T!IsZig(r) /\ T!IsFrozen(inv.rows[r]) =>
        <<r, inv.rows[r].tests>> \in seen /\ T!Executes(r)

TstLogs ==
    \A l \in logs : <<<<l.class, l.root, l.mode>>, l.names>> \in seen

TstRetained ==
    pc \in {"validate", "publish"} =>
        \A r \in T!Rows \ T!Observed :
            T!IsZig(r) /\ T!IsFrozen(base.rows[r]) => candidate.rows[r] = base.rows[r]

TstControl ==
    /\ src \in Trees /\ moved \in BOOLEAN
    /\ logs \subseteq [class : {linux, mac}, root : {z, zx}, mode : {fast}, names : SUBSET {t1, t2}]
    /\ bindings \subseteq {linux, mac} \X logs
    /\ pc \in {"idle", "merge", "validate", "publish"}
    /\ runs \in 0 .. 3 /\ edits \in 0 .. 2

TstInv == /\ TstControl /\ TstLogs /\ TstRetained /\ T!MergeIsConsistent
          /\ TstRows(inventory) /\ TstRows(base) /\ TstRows(candidate)
          /\ TstObserved(inventory) /\ TstObserved(base) /\ TstObserved(candidate)

\* What the discovery makes of the sources.
LEMMA TstDiscovers ==
  ASSUME T!InventoryAssumption, NEW s \in Trees
  PROVE  /\ T!Discover(s).declarations = s.py /\ T!Discover(s).files = T!ReachFacts(s)
         /\ T!Discover(s).rows = [r \in T!Rows |-> T!InitialRow(s, r)]
         /\ T!Discover(s).sets = T!PythonSets(s.py) /\ T!Discover(s).bindings = {}
         /\ s.py \subseteq {u1, u2}
  BY DEF T!Discover, T!InventoryAssumption

\* A fresh discovery has its types,
LEMMA TstFresh ==
  ASSUME T!InventoryAssumption, NEW s \in Trees, NEW r \in T!Rows
  PROVE  /\ T!IsZig(r) => T!InitialRow(s, r) \in {T!Pending, T!NotApplicable} /\ ~T!IsFrozen(T!InitialRow(s, r))
         /\ T!InitialRow(s, r).tests \subseteq {u1, u2}
         /\ T!IsZig(r) => T!InitialRow(s, r).tests = {}
<1>1. s.py \subseteq {u1, u2}
  BY TstDiscovers
<1>2. T!IsZig(r) => T!InitialRow(s, r) \in {T!Pending, T!NotApplicable}
  BY DEF T!InitialRow
<1>3. T!InitialRow(s, r) \in {T!Pending, T!NotApplicable, T!Frozen(s.py)}
  BY DEF T!InitialRow
<1>4. \A row \in {T!Pending, T!NotApplicable} : ~T!IsFrozen(row) /\ row.tests = {}
  BY DEF T!Pending, T!NotApplicable, T!IsFrozen
<1>5. T!Frozen(s.py).tests = s.py
  BY DEF T!Frozen
<1> QED
  BY <1>1, <1>2, <1>3, <1>4, <1>5

\* and nothing in it is frozen that was not observed.
LEMMA TstDiscovered ==
  ASSUME T!InventoryAssumption, NEW s \in Trees
  PROVE  TstRows(T!Discover(s)) /\ TstObserved(T!Discover(s))
<1>1. TstRows(T!Discover(s))
  <2>1. \A set \in T!PythonSets(s.py) : set.root \in {p}
    BY DEF T!PythonSets
  <2> QED
    BY <2>1, TstDiscovers, TstFresh DEF TstRows
<1>2. TstObserved(T!Discover(s))
  BY TstDiscovers, TstFresh DEF TstObserved
<1> QED
  BY <1>1, <1>2

\* The bindings that a merge writes for its rows.
TstBindings(rows) == { [row |-> r, tests |-> rows[r].tests] :
                         r \in { q \in T!Rows : T!IsZig(q) /\ T!IsFrozen(rows[q]) } }

\* The fields of a merge.
LEMMA TstMerges ==
  ASSUME T!InventoryAssumption, NEW s \in Trees, NEW m, m = T!Merge(T!Discover(s))
  PROVE  /\ m.declarations = s.py /\ m.files = T!ReachFacts(s)
         /\ m.rows = [r \in T!Rows |-> T!MergedRow(r, T!InitialRow(s, r))]
         /\ m.sets = T!Referenced(m.rows) /\ m.gaps = T!Gaps(m.rows, T!ReachFacts(s))
         /\ m.bindings = TstBindings(m.rows)
<1> DEFINE f == T!Discover(s)
           rows == [r \in T!Rows |-> T!MergedRow(r, f.rows[r])]
<1>1. m = [f EXCEPT !.rows = rows, !.sets = T!MergedSets(f, rows),
                    !.bindings = TstBindings(rows), !.gaps = T!Gaps(rows, f.files)]
  BY Zenon DEF T!Merge, TstBindings
<1>2. DOMAIN f = {"declarations", "files", "rows", "sets", "bindings", "gaps"}
  BY DEF T!Discover
<1>3. f.declarations = s.py /\ f.files = T!ReachFacts(s)
  BY TstDiscovers
<1>4. rows = [r \in T!Rows |-> T!MergedRow(r, T!InitialRow(s, r))]
  BY TstDiscovers
<1> HIDE DEF f, rows
<1>5. /\ m.declarations = s.py /\ m.files = T!ReachFacts(s) /\ m.rows = rows
      /\ m.sets = T!Referenced(rows) /\ m.gaps = T!Gaps(rows, T!ReachFacts(s))
      /\ m.bindings = TstBindings(rows)
  BY <1>1, <1>2, <1>3 DEF T!MergedSets
<1> QED
  BY <1>4, <1>5

\* A merged row is the observation for it, the row it was, or a fresh one.
LEMMA TstMergedRow ==
  ASSUME T!InventoryAssumption, TstInv, NEW s \in Trees, T!BlocksFit, NEW r \in T!Rows
  PROVE  \/ /\ r \in T!Observed /\ T!IsZig(r) /\ T!Executes(r)
            /\ \E t \in SUBSET {t1, t2} : /\ <<r, t>> \in seen
                                          /\ T!MergedRow(r, T!InitialRow(s, r)) = T!Frozen(t)
         \/ /\ r \notin T!Observed /\ T!IsZig(r) /\ T!IsFrozen(base.rows[r])
            /\ T!MergedRow(r, T!InitialRow(s, r)) = base.rows[r]
         \/ /\ r \notin T!Observed /\ ~(T!IsZig(r) /\ T!IsFrozen(base.rows[r]))
            /\ T!MergedRow(r, T!InitialRow(s, r)) = T!InitialRow(s, r)
<1>1. CASE r \in T!Observed
  <2> DEFINE bound == CHOOSE bound \in bindings : T!RowOf(bound) = r
  <2>1. bound \in bindings /\ T!RowOf(bound) = r
    BY <1>1 DEF T!Observed
  <2>5. T!MergedRow(r, T!InitialRow(s, r)) = T!Frozen(bound[2].names)
    BY <1>1 DEF T!MergedRow
  <2> HIDE DEF bound
  <2>2. /\ bound[2] \in logs /\ bound[2].class = bound[1] /\ T!Executes(r)
        /\ bound[2] \in [class : {linux, mac}, root : {z, zx}, mode : {fast}, names : SUBSET {t1, t2}]
    BY <2>1 DEF TstInv, TstControl, T!BlocksFit
  <2>3. r = <<bound[2].class, bound[2].root, bound[2].mode>>
    BY <2>1, <2>2 DEF T!RowOf
  <2>6. <<<<bound[2].class, bound[2].root, bound[2].mode>>, bound[2].names>> \in seen
    BY <2>2 DEF TstInv, TstLogs
  <2>4. <<r, bound[2].names>> \in seen /\ T!IsZig(r) /\ bound[2].names \in SUBSET {t1, t2}
    <3>1. <<r, bound[2].names>> \in seen
      BY <2>3, <2>6
    <3>2. bound[2].root \in {z, zx} /\ bound[2].names \in SUBSET {t1, t2}
      BY <2>2
    <3>3. r[2] = bound[2].root
      BY <2>3
    <3> QED
      BY <3>1, <3>2, <3>3 DEF T!IsZig
  <2> QED
    BY <1>1, <2>2, <2>4, <2>5
<1>2. CASE r \notin T!Observed
  BY <1>2 DEF T!MergedRow
<1> QED
  BY <1>1, <1>2

\* So has the merge of the logs.
LEMMA TstMergedInv ==
  ASSUME T!InventoryAssumption, TstInv, NEW s \in Trees, T!BlocksFit, NEW m, m = T!Merge(T!Discover(s))
  PROVE  TstRows(m) /\ TstObserved(m)
         /\ \A r \in T!Rows \ T!Observed : T!IsZig(r) /\ T!IsFrozen(base.rows[r]) => m.rows[r] = base.rows[r]
<1>0. /\ m.rows = [r \in T!Rows |-> T!MergedRow(r, T!InitialRow(s, r))]
      /\ m.sets = T!Referenced(m.rows) /\ m.bindings = TstBindings(m.rows)
  BY TstMerges
<1>1. /\ DOMAIN m.rows = T!Rows /\ \A r \in T!Rows : m.rows[r] = T!MergedRow(r, T!InitialRow(s, r))
      /\ m.sets = T!Referenced(m.rows) /\ m.bindings = TstBindings(m.rows)
  BY <1>0
<1>2. TstRows(base) /\ TstObserved(base)
  BY DEF TstInv
<1>3. ASSUME NEW r \in T!Rows
      PROVE  /\ m.rows[r].tests \subseteq {t1, t2} \cup {u1, u2}
             /\ T!IsZig(r) => m.rows[r].tests \subseteq {t1, t2}
             /\ T!IsZig(r) /\ T!IsFrozen(m.rows[r]) => <<r, m.rows[r].tests>> \in seen /\ T!Executes(r)
             /\ r \notin T!Observed /\ T!IsZig(r) /\ T!IsFrozen(base.rows[r]) => m.rows[r] = base.rows[r]
  <2>1. CASE \E t \in SUBSET {t1, t2} : <<r, t>> \in seen /\ m.rows[r] = T!Frozen(t) /\ r \in T!Observed /\ T!Executes(r)
    BY <2>1 DEF T!Frozen
  <2>2. CASE m.rows[r] = base.rows[r] /\ T!IsZig(r) /\ T!IsFrozen(base.rows[r])
    BY <1>2, <2>2 DEF TstRows, TstObserved
  <2>3. CASE m.rows[r] = T!InitialRow(s, r) /\ r \notin T!Observed /\ ~(T!IsZig(r) /\ T!IsFrozen(base.rows[r]))
    BY <2>3, TstFresh
  <2> QED
    BY <1>1, <2>1, <2>2, <2>3, TstMergedRow
<1>4. \A set \in m.sets : set.root \in {z, zx} \cup {p}
  BY <1>1 DEF T!Referenced, T!Rows
<1>5. ASSUME NEW bound \in m.bindings PROVE bound.row \in T!Rows /\ T!IsZig(bound.row) /\ bound.tests \subseteq {t1, t2}
  <2>1. PICK r \in T!Rows : T!IsZig(r) /\ bound = [row |-> r, tests |-> m.rows[r].tests]
    BY <1>1 DEF TstBindings
  <2> QED
    BY <1>3, <2>1
<1> QED
  BY <1>1, <1>3, <1>4, <1>5 DEF TstRows, TstObserved

\* What is merged refers to what it has, and binds what was observed.
LEMMA TstConsistent ==
  ASSUME T!InventoryAssumption, TstInv, NEW s \in Trees, T!BlocksFit, NEW m, m = T!Merge(T!Discover(s))
  PROVE  T!Consistent(m, T!Discover(s))
<1>1. /\ m.declarations = s.py /\ m.files = T!ReachFacts(s)
      /\ DOMAIN m.rows = T!Rows /\ \A r \in T!Rows : m.rows[r] = T!MergedRow(r, T!InitialRow(s, r))
      /\ m.sets = T!Referenced(m.rows) /\ m.gaps = T!Gaps(m.rows, T!ReachFacts(s))
      /\ m.bindings = TstBindings(m.rows)
  <2>1. m.rows = [r \in T!Rows |-> T!MergedRow(r, T!InitialRow(s, r))]
    BY TstMerges
  <2> QED
    BY <2>1, TstMerges
<1>2. \A r \in T!Rows : r \in T!Observed => T!IsZig(r)
  BY TstMergedRow
<1>3. T!PythonSets(s.py) \subseteq m.sets
  <2> SUFFICES ASSUME NEW q \in {p} PROVE [root |-> q, tests |-> s.py] \in m.sets
    BY DEF T!PythonSets
  <2>1. PICK e \in {linux, mac}, mode \in {fast} : <<e, q>> \in Applicable
    BY DEF T!InventoryAssumption
  <2> DEFINE r == <<e, q, mode>>
  <2>2. r \in T!Rows /\ T!Executes(r) /\ ~T!IsZig(r) /\ r[2] = q
    BY <2>1 DEF T!Rows, T!Executes, T!IsZig, T!InventoryAssumption
  <2> HIDE DEF r
  <2>3. m.rows[r] = T!Frozen(s.py)
    BY <1>1, <2>2, TstMergedRow DEF T!InitialRow
  <2>4. T!IsFrozen(m.rows[r]) /\ m.rows[r].tests = s.py
    BY <2>3 DEF T!Frozen, T!IsFrozen
  <2> QED
    BY <1>1, <2>2, <2>4 DEF T!Referenced
<1>4. ASSUME NEW r \in T!Rows PROVE T!RowHolds(m, r)
  <2>1. { bound \in m.bindings : bound.row = r }
          = IF T!IsZig(r) /\ T!IsFrozen(m.rows[r]) THEN {[row |-> r, tests |-> m.rows[r].tests]} ELSE {}
    BY <1>1 DEF TstBindings
  <2>2. T!IsFrozen(m.rows[r]) => [root |-> r[2], tests |-> m.rows[r].tests] \in m.sets
    BY <1>1 DEF T!Referenced
  <2>3. CASE T!IsZig(r) /\ T!IsFrozen(m.rows[r])
    <3>1. T!Executes(r)
      BY <2>3, TstMergedInv DEF TstObserved
    <3> QED
      BY <2>1, <2>2, <2>3, <3>1 DEF T!RowHolds
  <2>4. CASE ~T!IsZig(r)
    <3>1. m.rows[r] = T!InitialRow(s, r)
      BY <1>1, <2>4, TstMergedRow
    <3>2. (m.rows[r] = T!NotApplicable /\ ~T!Executes(r)) \/ (T!IsFrozen(m.rows[r]) /\ T!Executes(r))
      BY <2>4, <3>1 DEF T!InitialRow, T!Frozen, T!IsFrozen
    <3> QED
      BY <2>1, <2>2, <2>4, <3>2 DEF T!RowHolds
  <2>5. CASE T!IsZig(r) /\ ~T!IsFrozen(m.rows[r])
    <3>1. m.rows[r] = T!InitialRow(s, r)
      <4>1. \A t : T!IsFrozen(T!Frozen(t))
        BY DEF T!Frozen, T!IsFrozen
      <4> QED
        BY <1>1, <2>5, <4>1, TstMergedRow
    <3>2. (m.rows[r] = T!NotApplicable /\ ~T!Executes(r)) \/ (m.rows[r] = T!Pending /\ T!Executes(r))
      BY <2>5, <3>1 DEF T!InitialRow
    <3> QED
      BY <2>1, <2>5, <3>2 DEF T!RowHolds
  <2> QED
    BY <2>3, <2>4, <2>5
<1>5. T!Discover(s).declarations = s.py /\ T!Discover(s).files = T!ReachFacts(s)
  BY TstDiscovers
<1> QED
  BY <1>1, <1>3, <1>4, <1>5 DEF T!Consistent

\* An inventory stays observed as observations are added.
LEMMA TstMore ==
  ASSUME NEW inv, TstObserved(inv), seen \subseteq seen'
  PROVE  \A r \in T!Rows : T!IsZig(r) /\ T!IsFrozen(inv.rows[r]) =>
           <<r, inv.rows[r].tests>> \in seen' /\ T!Executes(r)
  BY DEF TstObserved

\* The start.
LEMMA TstInitial == ASSUME T!InventoryAssumption, T!Init PROVE TstInv
<1>1. TstControl
  <2>1. logs = {} /\ bindings = {} /\ runs = 0 /\ edits = 0 /\ moved = FALSE
        /\ pc = "idle" /\ src \in Trees
    BY DEF T!Init
  <2>2. 0 \in 0 .. 3 /\ 0 \in 0 .. 2
    BY DEF T!InventoryAssumption
  <2> QED
    BY <2>1, <2>2 DEF TstControl
<1>2. TstLogs /\ TstRetained /\ T!MergeIsConsistent
  BY DEF T!Init, TstLogs, TstRetained, T!MergeIsConsistent
<1>3. /\ TstRows(inventory) /\ TstRows(base) /\ TstRows(candidate)
      /\ TstObserved(inventory) /\ TstObserved(base) /\ TstObserved(candidate)
  BY TstDiscovered DEF T!Init
<1> QED
  BY <1>1, <1>2, <1>3 DEF TstInv

\* A program that ran adds its names to what was observed.
LEMMA TstRunTestsKeeps ==
  ASSUME T!InventoryAssumption, TstInv, NEW r \in T!Rows, T!RunTests(r) PROVE TstInv'
<1>1. /\ UNCHANGED <<src, inventory, pc, base, bindings, candidate, moved, edits>>
      /\ runs < 3 /\ runs' = runs + 1 /\ T!IsZig(r) /\ T!Executes(r)
      /\ logs' = logs \cup {[class |-> r[1], root |-> r[2], mode |-> r[3],
                             names |-> T!Compiled(src, r)]}
      /\ seen' = seen \cup {<<r, T!Compiled(src, r)>>}
  BY DEF T!RunTests, T!RunnerAccepts
<1>2. T!Compiled(src, r) \subseteq {t1, t2}
  <2>1. \A f \in {a, b} : src.decl[f] \subseteq {t1, t2}
    BY DEF TstInv, TstControl, T!InventoryAssumption
  <2> QED
    BY <2>1 DEF T!Compiled, T!DeclaredFor, T!Reached
<1>3. r[1] \in {linux, mac} /\ r[2] \in {z, zx} /\ r[3] \in {fast} /\ r = <<r[1], r[2], r[3]>>
  BY <1>1 DEF T!Rows, T!IsZig
<1>4. TstControl'
  BY <1>1, <1>2, <1>3 DEF TstInv, TstControl, T!InventoryAssumption
<1>5. TstLogs'
  <2> SUFFICES ASSUME NEW l \in logs' PROVE <<<<l.class, l.root, l.mode>>, l.names>> \in seen'
    BY DEF TstLogs
  <2>1. CASE l \in logs
    BY <1>1, <2>1 DEF TstInv, TstLogs
  <2>2. CASE l = [class |-> r[1], root |-> r[2], mode |-> r[3], names |-> T!Compiled(src, r)]
    <3>1. <<<<l.class, l.root, l.mode>>, l.names>> = <<<<r[1], r[2], r[3]>>, T!Compiled(src, r)>>
      BY <2>2
    <3> QED
      BY <1>1, <1>3, <3>1
  <2> QED
    BY <1>1, <2>1, <2>2
<1>6. TstRetained' /\ T!MergeIsConsistent'
  BY <1>1 DEF TstInv, TstRetained, T!MergeIsConsistent, T!Observed, T!RowOf
<1>7. /\ TstRows(inventory)' /\ TstRows(base)' /\ TstRows(candidate)'
      /\ TstObserved(inventory)' /\ TstObserved(base)' /\ TstObserved(candidate)'
  BY <1>1 DEF TstInv, TstRows, TstObserved
<1> QED
  BY <1>4, <1>5, <1>6, <1>7 DEF TstInv

\* The refresh ends: nothing is under way, whatever the inventory is by now.
LEMMA TstEnds ==
  ASSUME T!InventoryAssumption, TstInv, T!Ends,
         UNCHANGED <<src, logs, seen, runs>>, edits' \in 0 .. 2,
         inventory' \in {inventory, candidate, T!Discover(src)}
  PROVE  TstInv'
<1>1. /\ pc' = "idle" /\ moved' = FALSE /\ bindings' = {}
      /\ base' = inventory' /\ candidate' = inventory'
  BY DEF T!Ends
<1>2. TstControl'
  BY <1>1 DEF TstInv, TstControl
<1>3. TstLogs' /\ TstRetained' /\ T!MergeIsConsistent'
  BY <1>1 DEF TstInv, TstLogs, TstRetained, T!MergeIsConsistent
<1>4. TstRows(inventory') /\ TstObserved(inventory')
  BY TstDiscovered DEF TstInv, TstControl
<1>5. /\ TstRows(inventory)' /\ TstRows(base)' /\ TstRows(candidate)'
      /\ TstObserved(inventory)' /\ TstObserved(base)' /\ TstObserved(candidate)'
  BY <1>1, <1>4 DEF TstRows, TstObserved
<1> QED
  BY <1>2, <1>3, <1>5 DEF TstInv

\* A refresh begins with the inventory as it is,
LEMMA TstStartRefreshKeeps == ASSUME T!InventoryAssumption, TstInv, T!StartRefresh PROVE TstInv'
<1>1. /\ UNCHANGED <<src, inventory, logs, seen, candidate, moved, runs, edits>>
      /\ pc' = "merge" /\ base' = inventory /\ bindings' \subseteq {linux, mac} \X logs
  BY DEF T!StartRefresh
<1> QED
  BY <1>1 DEF TstInv, TstControl, TstLogs, TstRetained, T!MergeIsConsistent, TstRows,
         TstObserved

\* merges the logs of both machines into a candidate,
LEMMA TstMergeLogsKeeps == ASSUME T!InventoryAssumption, TstInv, T!MergeLogs PROVE TstInv'
<1>1. CASE T!GiveUp /\ UNCHANGED <<src, logs, seen, runs, edits>>
  BY <1>1, TstEnds DEF T!GiveUp, TstInv, TstControl
<1>2. CASE /\ T!BlocksFit /\ moved' = FALSE /\ candidate' = T!Merge(T!Discover(src)) /\ pc' = "validate"
           /\ UNCHANGED <<src, inventory, logs, seen, base, bindings, runs, edits>>
  <2> DEFINE m == T!Merge(T!Discover(src))
  <2>1. src \in Trees
    BY DEF TstInv, TstControl
  <2>2. /\ TstRows(m) /\ TstObserved(m) /\ T!Consistent(m, T!Discover(src))
        /\ \A r \in T!Rows \ T!Observed : T!IsZig(r) /\ T!IsFrozen(base.rows[r]) => m.rows[r] = base.rows[r]
    BY <1>2, <2>1, TstMergedInv, TstConsistent
  <2>3. candidate' = m /\ T!Observed' = T!Observed
    BY <1>2 DEF T!Observed, T!RowOf
  <2> HIDE DEF m
  <2>4. TstControl' /\ TstLogs'
    BY <1>2 DEF TstInv, TstControl, TstLogs
  <2>5. TstRetained'
    BY <1>2, <2>2, <2>3 DEF TstRetained
  <2>6. T!MergeIsConsistent'
    <3>1. T!Consistent(candidate, T!Discover(src))' <=> T!Consistent(m, T!Discover(src))
      BY <1>2, <2>3 DEF T!Consistent, T!Discover
    <3> QED
      BY <2>2, <3>1 DEF T!MergeIsConsistent
  <2>7. /\ TstRows(inventory)' /\ TstRows(base)' /\ TstRows(candidate)'
        /\ TstObserved(inventory)' /\ TstObserved(base)' /\ TstObserved(candidate)'
    BY <1>2, <2>2, <2>3 DEF TstInv, TstRows, TstObserved
  <2> QED
    BY <2>4, <2>5, <2>6, <2>7 DEF TstInv
<1> QED
  BY <1>1, <1>2 DEF T!MergeLogs

\* validates it,
LEMMA TstValidateCandidateKeepsTests ==
  ASSUME T!InventoryAssumption, TstInv, T!ValidateCandidate PROVE TstInv'
<1>1. CASE T!GiveUp /\ UNCHANGED <<src, logs, seen, runs, edits>>
  BY <1>1, TstEnds DEF T!GiveUp, TstInv, TstControl
<1>2. CASE /\ pc = "validate" /\ pc' = "publish"
           /\ UNCHANGED <<src, logs, seen, runs, edits, inventory, base, bindings, candidate, moved>>
  BY <1>2 DEF TstInv, TstControl, TstLogs, TstRetained, T!MergeIsConsistent, TstRows,
         TstObserved,
     T!Observed, T!RowOf
<1> QED
  BY <1>1, <1>2 DEF T!ValidateCandidate

\* and replaces the inventory.
LEMMA TstPublishKeeps == ASSUME T!InventoryAssumption, TstInv, T!Publish PROVE TstInv'
<1>1. T!Ends /\ inventory' \in {inventory, candidate} /\ UNCHANGED <<src, logs, seen, runs, edits>>
  BY DEF T!Publish, T!GiveUp
<1> QED
  BY <1>1, TstEnds DEF TstInv, TstControl

\* The sources change under the inventory.
LEMMA TstEditSourcesKeeps == ASSUME T!InventoryAssumption, TstInv, T!EditSources PROVE TstInv'
<1>1. /\ edits < 2 /\ edits' = edits + 1 /\ src' \in Trees
      /\ UNCHANGED <<inventory, logs, seen, pc, base, bindings, candidate, runs>>
  BY DEF T!EditSources
<1>2. (moved' <=> pc = "validate") /\ moved' \in BOOLEAN
  BY Zenon DEF T!EditSources
<1>3. TstControl'
  BY <1>1, <1>2 DEF TstInv, TstControl, T!InventoryAssumption
<1>4. T!MergeIsConsistent'
  BY <1>1, <1>2 DEF T!MergeIsConsistent
<1>5. TstLogs' /\ TstRetained'
  BY <1>1 DEF TstInv, TstLogs, TstRetained, T!Observed, T!RowOf
<1>6. /\ TstRows(inventory)' /\ TstRows(base)' /\ TstRows(candidate)'
      /\ TstObserved(inventory)' /\ TstObserved(base)' /\ TstObserved(candidate)'
  BY <1>1 DEF TstInv, TstRows, TstObserved
<1> QED
  BY <1>3, <1>4, <1>5, <1>6 DEF TstInv

\* A regeneration without logs.
LEMMA TstRegenerateKeeps == ASSUME T!InventoryAssumption, TstInv, T!Regenerate PROVE TstInv'
<1>1. /\ edits < 2 /\ edits' = edits + 1 /\ inventory' = T!Discover(src)
      /\ UNCHANGED <<src, logs, seen, runs>>
      /\ T!Ends \/ UNCHANGED <<pc, base, bindings, candidate, moved>>
  BY DEF T!Regenerate
<1>2. edits' \in 0 .. 2 /\ src \in Trees
  BY <1>1 DEF TstInv, TstControl, T!InventoryAssumption
<1>3. CASE T!Ends
  BY <1>1, <1>2, <1>3, TstEnds
<1>4. CASE UNCHANGED <<pc, base, bindings, candidate, moved>>
  <2>1. TstRows(T!Discover(src)) /\ TstObserved(T!Discover(src))
    BY <1>2, TstDiscovered
  <2>2. TstControl' /\ TstLogs'
    BY <1>1, <1>2, <1>4 DEF TstInv, TstControl, TstLogs
  <2>3. TstRetained' /\ T!MergeIsConsistent'
    BY <1>1, <1>4 DEF TstInv, TstRetained, T!MergeIsConsistent, T!Observed, T!RowOf
  <2>4. /\ TstRows(inventory)' /\ TstRows(base)' /\ TstRows(candidate)'
        /\ TstObserved(inventory)' /\ TstObserved(base)' /\ TstObserved(candidate)'
    <3> DEFINE d == T!Discover(src)
    <3>1. TstRows(d) /\ TstObserved(d) /\ inventory' = d
      BY <1>1, <2>1
    <3> HIDE DEF d
    <3> QED
      BY <1>1, <1>4, <3>1 DEF TstInv, TstRows, TstObserved
  <2> QED
    BY <2>2, <2>3, <2>4 DEF TstInv
<1> QED
  BY <1>1, <1>3, <1>4

\* Every step keeps the invariant.
LEMMA TstSteps == ASSUME T!InventoryAssumption, TstInv, [T!Next]_(T!vars) PROVE TstInv'
<1>1. CASE UNCHANGED T!vars
  BY <1>1 DEF T!vars, TstInv, TstControl, TstLogs, TstRetained, T!MergeIsConsistent, TstRows,
     TstObserved, T!Observed, T!RowOf
<1> QED
  BY <1>1, TstRunTestsKeeps, TstStartRefreshKeeps, TstMergeLogsKeeps, TstValidateCandidateKeepsTests,
     TstPublishKeeps, TstEditSourcesKeeps, TstRegenerateKeeps DEF T!Next

\* The invariant implies what is promised of the rows.
LEMMA TstPromises == ASSUME TstInv PROVE T!TypeOK /\ T!NativeProvenance /\ T!MergeIsConsistent
  BY DEF TstInv, TstControl, TstRows, TstObserved, T!TypeOK, T!NativeProvenance

\* A row without a log stays as it was.
LEMMA TstKeepsRows == ASSUME TstInv, [T!Next]_(T!vars) PROVE T!UnobservedRowsKept
<1> SUFFICES ASSUME pc = "publish", pc' = "idle", inventory' # inventory
             PROVE  \A r \in T!Rows \ T!Observed :
               T!IsZig(r) /\ T!IsFrozen(inventory.rows[r]) => inventory'.rows[r] = inventory.rows[r]
  BY DEF T!UnobservedRowsKept
<1>1. T!Publish
  BY DEF T!Next, T!vars, T!RunTests, T!StartRefresh, T!MergeLogs, T!ValidateCandidate,
         T!EditSources, T!Regenerate
<1>2. inventory = base /\ inventory' = candidate
  BY <1>1 DEF T!Publish, T!GiveUp
<1> QED
  BY <1>2 DEF TstInv, TstRetained

-----------------------------------------------------------------------------
(* The removal by quarantine: where the protocol is, and what it has       *)
(* concluded, says what it has taken, what it has unlinked and which paths *)
(* it must name.                                                           *)

QuaEarly    == {"open", "check", "mkdir", "setup"}
QuaClaiming == {"claim", "rename", "missing"}
QuaHolding  == {"sync", "verify", "inspect"}
QuaSure     == {"remove", "look", "unlink"}
QuaDecided  == {"rmdir", "arenasync", "recheck", "final", "preclaim", "done"}
QuaTold     == {"final", "preclaim", "done"}
QuaBad      == {"retained", "unaddressable"}
QuaClean    == {"absent", "removed"}

\* The types, without the count of the moves of others.
QuaNames ==
    /\ pub \in Q!Objects \cup {Q!None} /\ claimed \in Q!Objects \cup {Q!None}
    /\ pc \in Q!Points /\ phase \in Q!Phases /\ disposition \in Q!Dispositions
    /\ candidate \in {"absent", "present", "unknown"} /\ took \in Q!Objects \cup {Q!None}
QuaLists == recovery \subseteq Q!Paths /\ unlinked \subseteq Q!Objects
QuaFlags == dir \in BOOLEAN /\ arena \in BOOLEAN /\ unbound \in BOOLEAN /\ expectAbsent \in BOOLEAN
QuaTyped == QuaNames /\ QuaLists /\ QuaFlags

\* What has been taken, and what became of it.
QuaTakenInv ==
    /\ unlinked \subseteq {"ours"}
    /\ claimed # Q!None => claimed = took /\ unlinked = {}
    /\ unlinked # {} => took = "ours"
    /\ pc \in QuaEarly \cup QuaClaiming => took = Q!None
    /\ pc \in QuaSure => claimed = "ours"

\* How far the phase can be.
QuaPhaseInv ==
    /\ pc \in QuaEarly => phase = "UNSET"
    /\ phase = "UNSET" => claimed = Q!None /\ took = Q!None
    /\ pc \in QuaClaiming => phase = "READY"
    /\ pc \in QuaHolding => phase \in {"CLAIMED_UNSYNCED", "CLAIMED_DURABLE"}
    /\ pc \in QuaSure => phase = "VERIFIED"
    /\ pc = "finish" =>
         phase \in {"ABSENT", "CLAIM_REMOVED", "VERIFIED", "RETAINED", "UNADDRESSABLE"}
    /\ pc = "finish" /\ phase = "ABSENT" => took = Q!None
    /\ pc = "finish" /\ phase = "CLAIM_REMOVED" => claimed = Q!None /\ "ours" \in unlinked
    /\ pc \in {"rmdir", "arenasync", "recheck"} => phase = "CLOSED" /\ disposition \in QuaClean
    /\ pc = "preclaim" => phase = "UNSET" /\ disposition \in QuaBad
    /\ pc \in QuaTold /\ phase = "UNSET" => disposition \in QuaBad

\* What has been concluded.
QuaOutcomeInv ==
    /\ pc \in QuaDecided => disposition # "none"
    /\ pc \notin QuaDecided \cup {"dead"} => disposition = "none"
    /\ disposition = "absent" => took = Q!None
    /\ disposition = "removed" => claimed = Q!None /\ "ours" \in unlinked
    /\ pc \in {"arenasync", "recheck"} => ~dir
    /\ pc \in QuaTold /\ disposition \in QuaClean => ~dir
    /\ candidate # "absent" /\ pc # "dead" =>
         \/ disposition \in QuaBad
         \/ pc = "finish" /\ phase \in {"RETAINED", "UNADDRESSABLE"}

\* Which paths are named.
QuaRecoveryInv ==
    /\ recovery # {} /\ pc # "dead" =>
         \/ disposition \in QuaBad
         \/ pc = "finish" /\ phase = "RETAINED"
    /\ pc = "finish" /\ phase = "RETAINED" => recovery # {}
    /\ pc \in QuaTold /\ disposition = "retained" /\ (dir \/ claimed # Q!None) => recovery # {}
    /\ pc \in QuaEarly \ {"setup"} => ~dir

QuaIndInv == QuaTyped /\ QuaTakenInv /\ QuaPhaseInv /\ QuaOutcomeInv /\ QuaRecoveryInv

USE DEF QuaEarly, QuaClaiming, QuaHolding, QuaSure, QuaDecided, QuaTold, QuaBad, QuaClean,
       Q!Objects, Q!Paths, Q!None,
        Q!files, Q!others

-----------------------------------------------------------------------------
\* The start: nothing taken, nothing concluded.
LEMMA QuaInitSafe == Q!Init => QuaIndInv
BY DEF Q!Init, QuaIndInv, QuaTyped, QuaNames, QuaLists, QuaFlags, QuaTakenInv, QuaPhaseInv,
       QuaOutcomeInv, QuaRecoveryInv, Q!Points, Q!Phases, Q!Dispositions

\* Opening the arena, or reporting that it cannot be opened.
LEMMA QuaOpenArenaSafe ==
  ASSUME QuaIndInv, Q!OpenArena
  PROVE  QuaIndInv'
<1> USE DEF Q!OpenArena, Q!Abandon, Q!Proceed
<1>1. QuaTyped'
  <2>1. QuaNames' BY DEF QuaIndInv, QuaTyped, QuaNames, Q!Points, Q!Phases, Q!Dispositions
  <2>2. QuaLists' BY DEF QuaIndInv, QuaTyped, QuaLists
  <2>3. QuaFlags' BY Zenon DEF QuaIndInv, QuaTyped, QuaFlags
  <2> QED BY <2>1, <2>2, <2>3 DEF QuaTyped
<1>2. QuaTakenInv' BY DEF QuaIndInv, QuaTyped, QuaTakenInv, QuaPhaseInv
<1>3. QuaPhaseInv' BY DEF QuaIndInv, QuaTyped, QuaTakenInv, QuaPhaseInv, QuaOutcomeInv
<1>4. QuaOutcomeInv' BY DEF QuaIndInv, QuaTyped, QuaTakenInv, QuaPhaseInv, QuaOutcomeInv,
       QuaRecoveryInv
<1>5. QuaRecoveryInv' BY DEF QuaIndInv, QuaTyped, QuaTakenInv, QuaPhaseInv, QuaOutcomeInv,
       QuaRecoveryInv
<1> QED BY <1>1, <1>2, <1>3, <1>4, <1>5 DEF QuaIndInv

\* The first binding check.
LEMMA QuaCheckArenaSafe ==
  ASSUME QuaIndInv, Q!CheckArena
  PROVE  QuaIndInv'
<1> USE DEF Q!CheckArena, Q!Abandon, Q!Proceed, Q!Binding
<1>1. QuaTyped'
  <2>1. QuaNames' BY DEF QuaIndInv, QuaTyped, QuaNames, Q!Points, Q!Phases, Q!Dispositions
  <2>2. QuaLists' BY DEF QuaIndInv, QuaTyped, QuaLists
  <2>3. QuaFlags' BY Zenon DEF QuaIndInv, QuaTyped, QuaFlags
  <2> QED BY <2>1, <2>2, <2>3 DEF QuaTyped
<1>2. QuaTakenInv' BY DEF QuaIndInv, QuaTyped, QuaTakenInv, QuaPhaseInv
<1>3. QuaPhaseInv' BY DEF QuaIndInv, QuaTyped, QuaTakenInv, QuaPhaseInv, QuaOutcomeInv
<1>4. QuaOutcomeInv' BY DEF QuaIndInv, QuaTyped, QuaTakenInv, QuaPhaseInv, QuaOutcomeInv,
       QuaRecoveryInv
<1>5. QuaRecoveryInv' BY DEF QuaIndInv, QuaTyped, QuaTakenInv, QuaPhaseInv, QuaOutcomeInv,
       QuaRecoveryInv
<1> QED BY <1>1, <1>2, <1>3, <1>4, <1>5 DEF QuaIndInv

\* mkdir of the private directory.
LEMMA QuaMakeDirectorySafe ==
  ASSUME QuaIndInv, Q!MakeDirectory
  PROVE  QuaIndInv'
<1> USE DEF Q!MakeDirectory, Q!Abandon
<1>1. QuaTyped'
  <2>1. QuaNames' BY DEF QuaIndInv, QuaTyped, QuaNames, Q!Points, Q!Phases, Q!Dispositions
  <2>2. QuaLists' BY DEF QuaIndInv, QuaTyped, QuaLists
  <2>3. QuaFlags' BY Zenon DEF QuaIndInv, QuaTyped, QuaFlags
  <2> QED BY <2>1, <2>2, <2>3 DEF QuaTyped
<1>2. QuaTakenInv' BY DEF QuaIndInv, QuaTyped, QuaTakenInv, QuaPhaseInv
<1>3. QuaPhaseInv' BY DEF QuaIndInv, QuaTyped, QuaTakenInv, QuaPhaseInv, QuaOutcomeInv
<1>4. QuaOutcomeInv' BY DEF QuaIndInv, QuaTyped, QuaTakenInv, QuaPhaseInv, QuaOutcomeInv,
       QuaRecoveryInv
<1>5. QuaRecoveryInv' BY DEF QuaIndInv, QuaTyped, QuaTakenInv, QuaPhaseInv, QuaOutcomeInv,
       QuaRecoveryInv
<1> QED BY <1>1, <1>2, <1>3, <1>4, <1>5 DEF QuaIndInv

\* The private directory is checked and made durable.
LEMMA QuaSetUpSafe ==
  ASSUME QuaIndInv, Q!SetUp
  PROVE  QuaIndInv'
<1> USE DEF Q!SetUp, Q!Abandon
<1>1. QuaTyped'
  <2>1. QuaNames' BY DEF QuaIndInv, QuaTyped, QuaNames, Q!Points, Q!Phases, Q!Dispositions
  <2>2. QuaLists' BY DEF QuaIndInv, QuaTyped, QuaLists
  <2>3. QuaFlags' BY Zenon DEF QuaIndInv, QuaTyped, QuaFlags
  <2> QED BY <2>1, <2>2, <2>3 DEF QuaTyped
<1>2. QuaTakenInv' BY DEF QuaIndInv, QuaTyped, QuaTakenInv, QuaPhaseInv
<1>3. QuaPhaseInv' BY DEF QuaIndInv, QuaTyped, QuaTakenInv, QuaPhaseInv, QuaOutcomeInv
<1>4. QuaOutcomeInv' BY DEF QuaIndInv, QuaTyped, QuaTakenInv, QuaPhaseInv, QuaOutcomeInv,
       QuaRecoveryInv
<1>5. QuaRecoveryInv' BY DEF QuaIndInv, QuaTyped, QuaTakenInv, QuaPhaseInv, QuaOutcomeInv,
       QuaRecoveryInv
<1> QED BY <1>1, <1>2, <1>3, <1>4, <1>5 DEF QuaIndInv

\* The last binding check before the rename.
LEMMA QuaClaimSafe ==
  ASSUME QuaIndInv, Q!Claim
  PROVE  QuaIndInv'
<1> USE DEF Q!Claim, Q!Proceed, Q!Settle, Q!Binding
<1>1. QuaTyped'
  <2>1. QuaNames' BY DEF QuaIndInv, QuaTyped, QuaNames, Q!Points, Q!Phases, Q!Dispositions
  <2>2. QuaLists' BY DEF QuaIndInv, QuaTyped, QuaLists
  <2>3. QuaFlags' BY Zenon DEF QuaIndInv, QuaTyped, QuaFlags
  <2> QED BY <2>1, <2>2, <2>3 DEF QuaTyped
<1>2. QuaTakenInv' BY DEF QuaIndInv, QuaTyped, QuaTakenInv, QuaPhaseInv
<1>3. QuaPhaseInv' BY DEF QuaIndInv, QuaTyped, QuaTakenInv, QuaPhaseInv, QuaOutcomeInv
<1>4. QuaOutcomeInv' BY DEF QuaIndInv, QuaTyped, QuaTakenInv, QuaPhaseInv, QuaOutcomeInv,
       QuaRecoveryInv
<1>5. QuaRecoveryInv' BY DEF QuaIndInv, QuaTyped, QuaTakenInv, QuaPhaseInv, QuaOutcomeInv,
       QuaRecoveryInv
<1> QED BY <1>1, <1>2, <1>3, <1>4, <1>5 DEF QuaIndInv

\* The rename takes whatever the public name names.
LEMMA QuaRenameSafe ==
  ASSUME QuaIndInv, Q!Rename
  PROVE  QuaIndInv'
<1> USE DEF Q!Rename, Q!Proceed, Q!Settle, Q!RetainPreclaim
<1>1. QuaTyped'
  <2>1. QuaNames' BY DEF QuaIndInv, QuaTyped, QuaNames, Q!Points, Q!Phases, Q!Dispositions
  <2>2. QuaLists' BY DEF QuaIndInv, QuaTyped, QuaLists
  <2>3. QuaFlags' BY Zenon DEF QuaIndInv, QuaTyped, QuaFlags
  <2> QED BY <2>1, <2>2, <2>3 DEF QuaTyped
<1>2. QuaTakenInv' BY DEF QuaIndInv, QuaTyped, QuaTakenInv, QuaPhaseInv
<1>3. QuaPhaseInv' BY DEF QuaIndInv, QuaTyped, QuaTakenInv, QuaPhaseInv, QuaOutcomeInv
<1>4. QuaOutcomeInv' BY DEF QuaIndInv, QuaTyped, QuaTakenInv, QuaPhaseInv, QuaOutcomeInv,
       QuaRecoveryInv
<1>5. QuaRecoveryInv' BY DEF QuaIndInv, QuaTyped, QuaTakenInv, QuaPhaseInv, QuaOutcomeInv,
       QuaRecoveryInv
<1> QED BY <1>1, <1>2, <1>3, <1>4, <1>5 DEF QuaIndInv

\* Nothing to rename: the absence is confirmed.
LEMMA QuaMissingSafe ==
  ASSUME QuaIndInv, Q!Missing
  PROVE  QuaIndInv'
<1> USE DEF Q!Missing, Q!Settle, Q!RetainPreclaim
<1>1. QuaTyped'
  <2>1. QuaNames' BY DEF QuaIndInv, QuaTyped, QuaNames, Q!Points, Q!Phases, Q!Dispositions
  <2>2. QuaLists' BY DEF QuaIndInv, QuaTyped, QuaLists
  <2>3. QuaFlags' BY Zenon DEF QuaIndInv, QuaTyped, QuaFlags
  <2> QED BY <2>1, <2>2, <2>3 DEF QuaTyped
<1>2. QuaTakenInv' BY DEF QuaIndInv, QuaTyped, QuaTakenInv, QuaPhaseInv
<1>3. QuaPhaseInv' BY DEF QuaIndInv, QuaTyped, QuaTakenInv, QuaPhaseInv, QuaOutcomeInv
<1>4. QuaOutcomeInv' BY DEF QuaIndInv, QuaTyped, QuaTakenInv, QuaPhaseInv, QuaOutcomeInv,
       QuaRecoveryInv
<1>5. QuaRecoveryInv' BY DEF QuaIndInv, QuaTyped, QuaTakenInv, QuaPhaseInv, QuaOutcomeInv,
       QuaRecoveryInv
<1> QED BY <1>1, <1>2, <1>3, <1>4, <1>5 DEF QuaIndInv

\* The claim is made durable.
LEMMA QuaSyncClaimSafe ==
  ASSUME QuaIndInv, Q!SyncClaim
  PROVE  QuaIndInv'
<1> USE DEF Q!SyncClaim, Q!Settle
<1>1. QuaTyped'
  <2>1. QuaNames'
    <3>1. PICK bound \in BOOLEAN, synced \in BOOLEAN :
             CASE ~bound            -> Q!Settle("UNADDRESSABLE", "finish", {}, candidate, TRUE)
               [] bound /\ ~synced  -> Q!Settle("RETAINED", "finish", Q!Paths, candidate, FALSE)
               [] bound /\ synced   -> Q!Settle("CLAIMED_DURABLE", "verify", {}, candidate, FALSE)
      BY Zenon DEF Q!SyncClaim
    <3>2. UNCHANGED <<pub, claimed, unlinked, took>> OBVIOUS
    <3>3. CASE ~bound BY <3>1, <3>2, <3>3 DEF QuaIndInv, QuaTyped, QuaNames, Q!Points, Q!Phases
    <3>4. CASE bound /\ ~synced BY <3>1, <3>2, <3>4 DEF QuaIndInv, QuaTyped, QuaNames,
           Q!Points, Q!Phases
    <3>5. CASE bound /\ synced BY <3>1, <3>2, <3>5 DEF QuaIndInv, QuaTyped, QuaNames, Q!Points,
           Q!Phases
    <3> QED BY <3>3, <3>4, <3>5
  <2>2. QuaLists' BY DEF QuaIndInv, QuaTyped, QuaLists
  <2>3. QuaFlags' BY Zenon DEF QuaIndInv, QuaTyped, QuaFlags
  <2> QED BY <2>1, <2>2, <2>3 DEF QuaTyped
<1>2. QuaTakenInv' BY DEF QuaIndInv, QuaTyped, QuaTakenInv, QuaPhaseInv
<1>3. QuaPhaseInv' BY DEF QuaIndInv, QuaTyped, QuaTakenInv, QuaPhaseInv, QuaOutcomeInv
<1>4. QuaOutcomeInv' BY DEF QuaIndInv, QuaTyped, QuaTakenInv, QuaPhaseInv, QuaOutcomeInv,
       QuaRecoveryInv
<1>5. QuaRecoveryInv' BY DEF QuaIndInv, QuaTyped, QuaTakenInv, QuaPhaseInv, QuaOutcomeInv,
       QuaRecoveryInv
<1> QED BY <1>1, <1>2, <1>3, <1>4, <1>5 DEF QuaIndInv

\* Somebody may have put a new file under the public name.
LEMMA QuaVerifyPublicAbsentSafe ==
  ASSUME QuaIndInv, Q!VerifyPublicAbsent
  PROVE  QuaIndInv'
<1> USE DEF Q!VerifyPublicAbsent, Q!Proceed, Q!Settle, Q!Worse
<1>1. QuaTyped'
  <2>1. QuaNames' BY DEF QuaIndInv, QuaTyped, QuaNames, Q!Points, Q!Phases, Q!Dispositions
  <2>2. QuaLists' BY DEF QuaIndInv, QuaTyped, QuaLists
  <2>3. QuaFlags' BY Zenon DEF QuaIndInv, QuaTyped, QuaFlags
  <2> QED BY <2>1, <2>2, <2>3 DEF QuaTyped
<1>2. QuaTakenInv' BY DEF QuaIndInv, QuaTyped, QuaTakenInv, QuaPhaseInv
<1>3. QuaPhaseInv' BY DEF QuaIndInv, QuaTyped, QuaTakenInv, QuaPhaseInv, QuaOutcomeInv
<1>4. QuaOutcomeInv' BY DEF QuaIndInv, QuaTyped, QuaTakenInv, QuaPhaseInv, QuaOutcomeInv,
       QuaRecoveryInv
<1>5. QuaRecoveryInv' BY DEF QuaIndInv, QuaTyped, QuaTakenInv, QuaPhaseInv, QuaOutcomeInv,
       QuaRecoveryInv
<1> QED BY <1>1, <1>2, <1>3, <1>4, <1>5 DEF QuaIndInv

\* Only the own object is verified.
LEMMA QuaVerifyClaimedSafe ==
  ASSUME QuaIndInv, Q!VerifyClaimed
  PROVE  QuaIndInv'
<1> USE DEF Q!VerifyClaimed, Q!Settle, Q!Verdicts
<1>1. QuaTyped'
  <2>1. QuaNames' BY DEF QuaIndInv, QuaTyped, QuaNames, Q!Points, Q!Phases, Q!Dispositions
  <2>2. QuaLists' BY DEF QuaIndInv, QuaTyped, QuaLists
  <2>3. QuaFlags' BY Zenon DEF QuaIndInv, QuaTyped, QuaFlags
  <2> QED BY <2>1, <2>2, <2>3 DEF QuaTyped
<1>2. QuaTakenInv' BY DEF QuaIndInv, QuaTyped, QuaTakenInv, QuaPhaseInv
<1>3. QuaPhaseInv' BY DEF QuaIndInv, QuaTyped, QuaTakenInv, QuaPhaseInv, QuaOutcomeInv
<1>4. QuaOutcomeInv' BY DEF QuaIndInv, QuaTyped, QuaTakenInv, QuaPhaseInv, QuaOutcomeInv,
       QuaRecoveryInv
<1>5. QuaRecoveryInv' BY DEF QuaIndInv, QuaTyped, QuaTakenInv, QuaPhaseInv, QuaOutcomeInv,
       QuaRecoveryInv
<1> QED BY <1>1, <1>2, <1>3, <1>4, <1>5 DEF QuaIndInv

\* The binding check before the unlink.
LEMMA QuaRemoveVerifiedSafe ==
  ASSUME QuaIndInv, Q!RemoveVerified
  PROVE  QuaIndInv'
<1> USE DEF Q!RemoveVerified, Q!Proceed, Q!Settle
<1>1. QuaTyped'
  <2>1. QuaNames' BY DEF QuaIndInv, QuaTyped, QuaNames, Q!Points, Q!Phases, Q!Dispositions
  <2>2. QuaLists' BY DEF QuaIndInv, QuaTyped, QuaLists
  <2>3. QuaFlags' BY Zenon DEF QuaIndInv, QuaTyped, QuaFlags
  <2> QED BY <2>1, <2>2, <2>3 DEF QuaTyped
<1>2. QuaTakenInv' BY DEF QuaIndInv, QuaTyped, QuaTakenInv, QuaPhaseInv
<1>3. QuaPhaseInv' BY DEF QuaIndInv, QuaTyped, QuaTakenInv, QuaPhaseInv, QuaOutcomeInv
<1>4. QuaOutcomeInv' BY DEF QuaIndInv, QuaTyped, QuaTakenInv, QuaPhaseInv, QuaOutcomeInv,
       QuaRecoveryInv
<1>5. QuaRecoveryInv' BY DEF QuaIndInv, QuaTyped, QuaTakenInv, QuaPhaseInv, QuaOutcomeInv,
       QuaRecoveryInv
<1> QED BY <1>1, <1>2, <1>3, <1>4, <1>5 DEF QuaIndInv

\* A caller stops after the verification.
LEMMA QuaForgoSafe ==
  ASSUME QuaIndInv, Q!Forgo
  PROVE  QuaIndInv'
<1> USE DEF Q!Forgo, Q!Proceed
<1>1. QuaTyped'
  <2>1. QuaNames' BY DEF QuaIndInv, QuaTyped, QuaNames, Q!Points, Q!Phases, Q!Dispositions
  <2>2. QuaLists' BY DEF QuaIndInv, QuaTyped, QuaLists
  <2>3. QuaFlags' BY Zenon DEF QuaIndInv, QuaTyped, QuaFlags
  <2> QED BY <2>1, <2>2, <2>3 DEF QuaTyped
<1>2. QuaTakenInv' BY DEF QuaIndInv, QuaTyped, QuaTakenInv, QuaPhaseInv
<1>3. QuaPhaseInv' BY DEF QuaIndInv, QuaTyped, QuaTakenInv, QuaPhaseInv, QuaOutcomeInv
<1>4. QuaOutcomeInv' BY DEF QuaIndInv, QuaTyped, QuaTakenInv, QuaPhaseInv, QuaOutcomeInv,
       QuaRecoveryInv
<1>5. QuaRecoveryInv' BY DEF QuaIndInv, QuaTyped, QuaTakenInv, QuaPhaseInv, QuaOutcomeInv,
       QuaRecoveryInv
<1> QED BY <1>1, <1>2, <1>3, <1>4, <1>5 DEF QuaIndInv

\* The last look at the public name.
LEMMA QuaLookBeforeUnlinkSafe ==
  ASSUME QuaIndInv, Q!LookBeforeUnlink
  PROVE  QuaIndInv'
<1> USE DEF Q!LookBeforeUnlink, Q!Proceed, Q!Settle, Q!Worse
<1>1. QuaTyped'
  <2>1. QuaNames' BY DEF QuaIndInv, QuaTyped, QuaNames, Q!Points, Q!Phases, Q!Dispositions
  <2>2. QuaLists' BY DEF QuaIndInv, QuaTyped, QuaLists
  <2>3. QuaFlags' BY Zenon DEF QuaIndInv, QuaTyped, QuaFlags
  <2> QED BY <2>1, <2>2, <2>3 DEF QuaTyped
<1>2. QuaTakenInv' BY DEF QuaIndInv, QuaTyped, QuaTakenInv, QuaPhaseInv
<1>3. QuaPhaseInv' BY DEF QuaIndInv, QuaTyped, QuaTakenInv, QuaPhaseInv, QuaOutcomeInv
<1>4. QuaOutcomeInv' BY DEF QuaIndInv, QuaTyped, QuaTakenInv, QuaPhaseInv, QuaOutcomeInv,
       QuaRecoveryInv
<1>5. QuaRecoveryInv' BY DEF QuaIndInv, QuaTyped, QuaTakenInv, QuaPhaseInv, QuaOutcomeInv,
       QuaRecoveryInv
<1> QED BY <1>1, <1>2, <1>3, <1>4, <1>5 DEF QuaIndInv

\* The unlink of the verified object.
LEMMA QuaUnlinkClaimedSafe ==
  ASSUME QuaIndInv, Q!UnlinkClaimed
  PROVE  QuaIndInv'
<1> USE DEF Q!UnlinkClaimed, Q!Settle
<1>1. QuaTyped'
  <2>1. QuaNames' BY DEF QuaIndInv, QuaTyped, QuaNames, Q!Points, Q!Phases, Q!Dispositions
  <2>2. QuaLists' BY DEF QuaIndInv, QuaTyped, QuaLists, QuaTakenInv
  <2>3. QuaFlags' BY Zenon DEF QuaIndInv, QuaTyped, QuaFlags
  <2> QED BY <2>1, <2>2, <2>3 DEF QuaTyped
<1>2. QuaTakenInv' BY DEF QuaIndInv, QuaTyped, QuaTakenInv, QuaPhaseInv
<1>3. QuaPhaseInv' BY DEF QuaIndInv, QuaTyped, QuaTakenInv, QuaPhaseInv, QuaOutcomeInv
<1>4. QuaOutcomeInv' BY DEF QuaIndInv, QuaTyped, QuaTakenInv, QuaPhaseInv, QuaOutcomeInv,
       QuaRecoveryInv
<1>5. QuaRecoveryInv' BY DEF QuaIndInv, QuaTyped, QuaTakenInv, QuaPhaseInv, QuaOutcomeInv,
       QuaRecoveryInv
<1> QED BY <1>1, <1>2, <1>3, <1>4, <1>5 DEF QuaIndInv

\* finish decides what is reported.
LEMMA QuaFinishSafe ==
  ASSUME QuaIndInv, Q!Finish
  PROVE  QuaIndInv'
<1> USE DEF Q!Finish, Q!End, Q!terminal
<1>1. QuaTyped'
  <2>1. QuaNames'
    <3>1. disposition' \in {"unaddressable", "retained", "absent", "removed"}
          /\ phase' \in {"UNADDRESSABLE", "RETAINED", "CLOSED"} /\ pc' \in {"final", "rmdir"}
      OBVIOUS
    <3>2. UNCHANGED <<pub, claimed, candidate, took>> OBVIOUS
    <3> QED BY <3>1, <3>2 DEF QuaIndInv, QuaTyped, QuaNames, Q!Points, Q!Phases, Q!Dispositions
  <2>2. QuaLists' BY DEF QuaIndInv, QuaTyped, QuaLists
  <2>3. QuaFlags' BY Zenon DEF QuaIndInv, QuaTyped, QuaFlags
  <2> QED BY <2>1, <2>2, <2>3 DEF QuaTyped
<1>2. QuaTakenInv' BY DEF QuaIndInv, QuaTyped, QuaTakenInv, QuaPhaseInv
<1>3. QuaPhaseInv' BY DEF QuaIndInv, QuaTyped, QuaTakenInv, QuaPhaseInv, QuaOutcomeInv
<1>4. QuaOutcomeInv' BY DEF QuaIndInv, QuaTyped, QuaTakenInv, QuaPhaseInv, QuaOutcomeInv,
       QuaRecoveryInv
<1>5. QuaRecoveryInv' BY DEF QuaIndInv, QuaTyped, QuaTakenInv, QuaPhaseInv, QuaOutcomeInv,
       QuaRecoveryInv
<1> QED BY <1>1, <1>2, <1>3, <1>4, <1>5 DEF QuaIndInv

\* rmdir of the emptied directory.
LEMMA QuaRemoveDirectorySafe ==
  ASSUME QuaIndInv, Q!RemoveDirectory
  PROVE  QuaIndInv'
<1> USE DEF Q!RemoveDirectory, Q!End
<1>1. QuaTyped'
  <2>1. QuaNames' BY DEF QuaIndInv, QuaTyped, QuaNames, Q!Points, Q!Phases, Q!Dispositions
  <2>2. QuaLists' BY DEF QuaIndInv, QuaTyped, QuaLists
  <2>3. QuaFlags' BY Zenon DEF QuaIndInv, QuaTyped, QuaFlags
  <2> QED BY <2>1, <2>2, <2>3 DEF QuaTyped
<1>2. QuaTakenInv' BY DEF QuaIndInv, QuaTyped, QuaTakenInv, QuaPhaseInv
<1>3. QuaPhaseInv' BY DEF QuaIndInv, QuaTyped, QuaTakenInv, QuaPhaseInv, QuaOutcomeInv
<1>4. QuaOutcomeInv' BY DEF QuaIndInv, QuaTyped, QuaTakenInv, QuaPhaseInv, QuaOutcomeInv,
       QuaRecoveryInv
<1>5. QuaRecoveryInv' BY DEF QuaIndInv, QuaTyped, QuaTakenInv, QuaPhaseInv, QuaOutcomeInv,
       QuaRecoveryInv
<1> QED BY <1>1, <1>2, <1>3, <1>4, <1>5 DEF QuaIndInv

\* fsync of the arena.
LEMMA QuaSyncArenaSafe ==
  ASSUME QuaIndInv, Q!SyncArena
  PROVE  QuaIndInv'
<1> USE DEF Q!SyncArena, Q!End, Q!EndPhase
<1>1. QuaTyped'
  <2>1. QuaNames' BY DEF QuaIndInv, QuaTyped, QuaNames, Q!Points, Q!Phases, Q!Dispositions
  <2>2. QuaLists' BY DEF QuaIndInv, QuaTyped, QuaLists
  <2>3. QuaFlags' BY Zenon DEF QuaIndInv, QuaTyped, QuaFlags
  <2> QED BY <2>1, <2>2, <2>3 DEF QuaTyped
<1>2. QuaTakenInv' BY DEF QuaIndInv, QuaTyped, QuaTakenInv, QuaPhaseInv
<1>3. QuaPhaseInv' BY DEF QuaIndInv, QuaTyped, QuaTakenInv, QuaPhaseInv, QuaOutcomeInv
<1>4. QuaOutcomeInv' BY DEF QuaIndInv, QuaTyped, QuaTakenInv, QuaPhaseInv, QuaOutcomeInv,
       QuaRecoveryInv
<1>5. QuaRecoveryInv' BY DEF QuaIndInv, QuaTyped, QuaTakenInv, QuaPhaseInv, QuaOutcomeInv,
       QuaRecoveryInv
<1> QED BY <1>1, <1>2, <1>3, <1>4, <1>5 DEF QuaIndInv

\* The public name is looked at once more.
LEMMA QuaRecheckPublicSafe ==
  ASSUME QuaIndInv, Q!RecheckPublic
  PROVE  QuaIndInv'
<1> USE DEF Q!RecheckPublic, Q!End, Q!EndPhase
<1>1. QuaTyped'
  <2>1. QuaNames' BY DEF QuaIndInv, QuaTyped, QuaNames, Q!Points, Q!Phases, Q!Dispositions
  <2>2. QuaLists' BY DEF QuaIndInv, QuaTyped, QuaLists
  <2>3. QuaFlags' BY Zenon DEF QuaIndInv, QuaTyped, QuaFlags
  <2> QED BY <2>1, <2>2, <2>3 DEF QuaTyped
<1>2. QuaTakenInv' BY DEF QuaIndInv, QuaTyped, QuaTakenInv, QuaPhaseInv
<1>3. QuaPhaseInv' BY DEF QuaIndInv, QuaTyped, QuaTakenInv, QuaPhaseInv, QuaOutcomeInv
<1>4. QuaOutcomeInv' BY DEF QuaIndInv, QuaTyped, QuaTakenInv, QuaPhaseInv, QuaOutcomeInv,
       QuaRecoveryInv
<1>5. QuaRecoveryInv' BY DEF QuaIndInv, QuaTyped, QuaTakenInv, QuaPhaseInv, QuaOutcomeInv,
       QuaRecoveryInv
<1> QED BY <1>1, <1>2, <1>3, <1>4, <1>5 DEF QuaIndInv

\* finalize_arena_outcome.
LEMMA QuaFinalizeSafe ==
  ASSUME QuaIndInv, Q!Finalize
  PROVE  QuaIndInv'
<1> USE DEF Q!Finalize
<1>1. QuaTyped'
  <2>1. QuaNames' BY DEF QuaIndInv, QuaTyped, QuaNames, Q!Points, Q!Phases, Q!Dispositions
  <2>2. QuaLists' BY DEF QuaIndInv, QuaTyped, QuaLists
  <2>3. QuaFlags' BY Zenon DEF QuaIndInv, QuaTyped, QuaFlags
  <2> QED BY <2>1, <2>2, <2>3 DEF QuaTyped
<1>2. QuaTakenInv' BY DEF QuaIndInv, QuaTyped, QuaTakenInv, QuaPhaseInv
<1>3. QuaPhaseInv' BY DEF QuaIndInv, QuaTyped, QuaTakenInv, QuaPhaseInv, QuaOutcomeInv
<1>4. QuaOutcomeInv' BY DEF QuaIndInv, QuaTyped, QuaTakenInv, QuaPhaseInv, QuaOutcomeInv,
       QuaRecoveryInv
<1>5. QuaRecoveryInv'
  <2>1. pc' \in {"preclaim", "done"} /\ UNCHANGED <<dir, claimed>> OBVIOUS
  <2>2. recovery' = {} \/ (recovery' = recovery /\ disposition # "unaddressable") OBVIOUS
  <2>3. \/ disposition' = "unaddressable"
        \/ /\ disposition' = "retained" \/ disposition' = disposition
           /\ recovery' = recovery
    OBVIOUS
  <2>4. recovery # {} => disposition \in QuaBad BY DEF QuaIndInv, QuaRecoveryInv
  <2>5. disposition \in QuaClean => ~dir /\ claimed = Q!None
    BY DEF QuaIndInv, QuaOutcomeInv, QuaTakenInv
  <2>6. disposition = "retained" /\ (dir \/ claimed # Q!None) => recovery # {}
    BY DEF QuaIndInv, QuaRecoveryInv
  <2>7. disposition \in {"absent", "removed", "retained", "unaddressable"}
    BY DEF QuaIndInv, QuaOutcomeInv, QuaTyped, QuaNames, Q!Dispositions
  <2> QED BY <2>1, <2>2, <2>3, <2>4, <2>5, <2>6, <2>7 DEF QuaRecoveryInv
<1> QED BY <1>1, <1>2, <1>3, <1>4, <1>5 DEF QuaIndInv

\* A failed create still looks at the public name.
LEMMA QuaReportPreclaimSafe ==
  ASSUME QuaIndInv, Q!ReportPreclaim
  PROVE  QuaIndInv'
<1> USE DEF Q!ReportPreclaim
<1>1. QuaTyped'
  <2>1. QuaNames' BY DEF QuaIndInv, QuaTyped, QuaNames, Q!Points, Q!Phases, Q!Dispositions
  <2>2. QuaLists' BY DEF QuaIndInv, QuaTyped, QuaLists
  <2>3. QuaFlags' BY Zenon DEF QuaIndInv, QuaTyped, QuaFlags
  <2> QED BY <2>1, <2>2, <2>3 DEF QuaTyped
<1>2. QuaTakenInv' BY DEF QuaIndInv, QuaTyped, QuaTakenInv, QuaPhaseInv
<1>3. QuaPhaseInv' BY DEF QuaIndInv, QuaTyped, QuaTakenInv, QuaPhaseInv, QuaOutcomeInv
<1>4. QuaOutcomeInv' BY DEF QuaIndInv, QuaTyped, QuaTakenInv, QuaPhaseInv, QuaOutcomeInv,
       QuaRecoveryInv
<1>5. QuaRecoveryInv' BY DEF QuaIndInv, QuaTyped, QuaTakenInv, QuaPhaseInv, QuaOutcomeInv,
       QuaRecoveryInv
<1> QED BY <1>1, <1>2, <1>3, <1>4, <1>5 DEF QuaIndInv

\* A move of others under the public name.
LEMMA QuaOthersWriteSafe ==
  ASSUME QuaIndInv, Q!OthersWrite
  PROVE  QuaIndInv'
<1> USE DEF Q!OthersWrite
<1>1. QuaTyped'
  <2>1. QuaNames' BY DEF QuaIndInv, QuaTyped, QuaNames, Q!Points, Q!Phases, Q!Dispositions
  <2>2. QuaLists' BY DEF QuaIndInv, QuaTyped, QuaLists
  <2>3. QuaFlags' BY Zenon DEF QuaIndInv, QuaTyped, QuaFlags
  <2> QED BY <2>1, <2>2, <2>3 DEF QuaTyped
<1>2. QuaTakenInv' BY DEF QuaIndInv, QuaTyped, QuaTakenInv, QuaPhaseInv
<1>3. QuaPhaseInv' BY DEF QuaIndInv, QuaTyped, QuaTakenInv, QuaPhaseInv, QuaOutcomeInv
<1>4. QuaOutcomeInv' BY DEF QuaIndInv, QuaTyped, QuaTakenInv, QuaPhaseInv, QuaOutcomeInv,
       QuaRecoveryInv
<1>5. QuaRecoveryInv' BY DEF QuaIndInv, QuaTyped, QuaTakenInv, QuaPhaseInv, QuaOutcomeInv,
       QuaRecoveryInv
<1> QED BY <1>1, <1>2, <1>3, <1>4, <1>5 DEF QuaIndInv

\* A move of others of the arena.
LEMMA QuaOthersRenameArenaSafe ==
  ASSUME QuaIndInv, Q!OthersRenameArena
  PROVE  QuaIndInv'
<1> USE DEF Q!OthersRenameArena
<1>1. QuaTyped'
  <2>1. QuaNames' BY DEF QuaIndInv, QuaTyped, QuaNames, Q!Points, Q!Phases, Q!Dispositions
  <2>2. QuaLists' BY DEF QuaIndInv, QuaTyped, QuaLists
  <2>3. QuaFlags' BY Zenon DEF QuaIndInv, QuaTyped, QuaFlags
  <2> QED BY <2>1, <2>2, <2>3 DEF QuaTyped
<1>2. QuaTakenInv' BY DEF QuaIndInv, QuaTyped, QuaTakenInv, QuaPhaseInv
<1>3. QuaPhaseInv' BY DEF QuaIndInv, QuaTyped, QuaTakenInv, QuaPhaseInv, QuaOutcomeInv
<1>4. QuaOutcomeInv' BY DEF QuaIndInv, QuaTyped, QuaTakenInv, QuaPhaseInv, QuaOutcomeInv,
       QuaRecoveryInv
<1>5. QuaRecoveryInv' BY DEF QuaIndInv, QuaTyped, QuaTakenInv, QuaPhaseInv, QuaOutcomeInv,
       QuaRecoveryInv
<1> QED BY <1>1, <1>2, <1>3, <1>4, <1>5 DEF QuaIndInv

\* The process dies.
LEMMA QuaDieSafe ==
  ASSUME QuaIndInv, Q!Die
  PROVE  QuaIndInv'
<1> USE DEF Q!Die
<1>1. QuaTyped'
  <2>1. QuaNames' BY DEF QuaIndInv, QuaTyped, QuaNames, Q!Points, Q!Phases, Q!Dispositions
  <2>2. QuaLists' BY DEF QuaIndInv, QuaTyped, QuaLists
  <2>3. QuaFlags' BY Zenon DEF QuaIndInv, QuaTyped, QuaFlags
  <2> QED BY <2>1, <2>2, <2>3 DEF QuaTyped
<1>2. QuaTakenInv' BY DEF QuaIndInv, QuaTyped, QuaTakenInv, QuaPhaseInv
<1>3. QuaPhaseInv' BY DEF QuaIndInv, QuaTyped, QuaTakenInv, QuaPhaseInv, QuaOutcomeInv
<1>4. QuaOutcomeInv' BY DEF QuaIndInv, QuaTyped, QuaTakenInv, QuaPhaseInv, QuaOutcomeInv,
       QuaRecoveryInv
<1>5. QuaRecoveryInv' BY DEF QuaIndInv, QuaTyped, QuaTakenInv, QuaPhaseInv, QuaOutcomeInv,
       QuaRecoveryInv
<1> QED BY <1>1, <1>2, <1>3, <1>4, <1>5 DEF QuaIndInv

\* Every step, of the protocol or of others, preserves the invariant.
LEMMA QuaStepSafe == QuaIndInv /\ [Q!Next]_(Q!vars) => QuaIndInv'
<1> SUFFICES ASSUME QuaIndInv, [Q!Next]_(Q!vars) PROVE QuaIndInv' OBVIOUS
<1>1. CASE UNCHANGED Q!vars
  BY <1>1 DEF Q!vars, QuaIndInv, QuaTyped, QuaNames, QuaLists, QuaFlags, QuaTakenInv,
         QuaPhaseInv, QuaOutcomeInv, QuaRecoveryInv
<1>2. CASE Q!Next
  BY <1>2, QuaOpenArenaSafe, QuaCheckArenaSafe, QuaMakeDirectorySafe, QuaSetUpSafe, QuaClaimSafe, QuaRenameSafe,
  QuaMissingSafe, QuaSyncClaimSafe, QuaVerifyPublicAbsentSafe, QuaVerifyClaimedSafe, QuaRemoveVerifiedSafe,
  QuaForgoSafe, QuaLookBeforeUnlinkSafe, QuaUnlinkClaimedSafe, QuaFinishSafe, QuaRemoveDirectorySafe,
  QuaSyncArenaSafe, QuaRecheckPublicSafe, QuaFinalizeSafe, QuaReportPreclaimSafe, QuaOthersWriteSafe,
  QuaOthersRenameArenaSafe, QuaDieSafe
  DEF Q!Next, Q!Step
<1> QED BY <1>1, <1>2

\* The invariant holds whatever others do, and however often.
THEOREM QuaInvariance == Q!Spec => []QuaIndInv
<1> QED BY QuaInitSafe, QuaStepSafe, PTL DEF Q!Spec

\* Every variable keeps to its values; the count of moves is bounded by assumption.
THEOREM QuaTypeCorrect == Q!Spec => []QuaTyped
<1>1. QuaIndInv => QuaTyped BY DEF QuaIndInv
<1> QED BY <1>1, QuaInvariance, PTL

\* The count of the moves of others stays within its bound.
QuaCounted == outside \in 0 .. MaxClaimMoves

\* It starts with none.
LEMMA QuaInitCounted == Q!OutsideAssumption /\ Q!Init => QuaCounted
BY DEF Q!OutsideAssumption, Q!Init, QuaCounted

\* Only the others' steps count, and only up to the bound.
LEMMA QuaStepCounted == Q!OutsideAssumption /\ QuaCounted /\ [Q!Next]_(Q!vars) => QuaCounted'
<1> SUFFICES ASSUME Q!OutsideAssumption, QuaCounted, [Q!Next]_(Q!vars) PROVE QuaCounted' OBVIOUS
<1>1. Q!OthersWrite \/ Q!OthersRenameArena => outside < MaxClaimMoves /\ outside' = outside + 1
  BY DEF Q!OthersWrite, Q!OthersRenameArena
<1>2. Q!Step \/ Q!Die => outside' = outside
  <2>1. Q!OpenArena \/ Q!CheckArena \/ Q!MakeDirectory \/ Q!SetUp \/ Q!Claim \/ Q!Rename \/ Q!Missing \/ Q!SyncClaim
          => outside' = outside
    BY DEF Q!OpenArena, Q!CheckArena, Q!MakeDirectory, Q!SetUp, Q!Claim, Q!Rename, Q!Missing,
           Q!SyncClaim,
       Q!Abandon, Q!Proceed, Q!Settle, Q!RetainPreclaim
  <2>2. Q!VerifyPublicAbsent \/ Q!VerifyClaimed \/ Q!RemoveVerified \/ Q!Forgo \/ Q!LookBeforeUnlink \/ Q!UnlinkClaimed
          => outside' = outside
    BY DEF Q!VerifyPublicAbsent, Q!VerifyClaimed, Q!RemoveVerified, Q!Forgo, Q!LookBeforeUnlink,
       Q!UnlinkClaimed, Q!Proceed, Q!Settle
  <2>3. Q!Finish \/ Q!RemoveDirectory \/ Q!SyncArena \/ Q!RecheckPublic \/ Q!Finalize \/ Q!ReportPreclaim \/ Q!Die
          => outside' = outside
    BY DEF Q!Finish, Q!RemoveDirectory, Q!SyncArena, Q!RecheckPublic, Q!Finalize,
           Q!ReportPreclaim, Q!Die
  <2> QED BY <2>1, <2>2, <2>3 DEF Q!Step
<1>3. [Q!Step \/ Q!Die \/ Q!OthersWrite \/ Q!OthersRenameArena]_(Q!vars) BY DEF Q!Next
<1> QED BY <1>1, <1>2, <1>3 DEF Q!OutsideAssumption, QuaCounted, Q!vars

\* The two together are the types of the module.
LEMMA QuaTypesAre == QuaIndInv /\ QuaCounted => Q!TypeOK
BY DEF QuaIndInv, QuaTyped, QuaNames, QuaLists, QuaFlags, QuaCounted, Q!TypeOK

\* An object that is not the caller's is never unlinked, whatever is swapped in
\* under the public name before the rename.
LEMMA QuaOnlyOwnUnlinked == QuaIndInv => Q!ForeignKept
BY DEF QuaIndInv, QuaTakenInv, Q!ForeignKept

\* The caller's own object is the only one a removal can destroy.
THEOREM QuaForeignIsKept == Q!Spec => []Q!ForeignKept
BY QuaOnlyOwnUnlinked, QuaInvariance, PTL

\* What stays behind in an addressable quarantine is named by a recovery path.
LEMMA QuaKeptIsNamed == QuaIndInv => Q!NothingStranded
<1>1. ASSUME QuaIndInv, pc = "done", disposition # "unaddressable", dir \/ claimed # Q!None
      PROVE  recovery # {}
  <2>1. disposition \in {"absent", "removed", "retained"}
    BY <1>1 DEF QuaIndInv, QuaOutcomeInv, QuaTyped, QuaNames, Q!Dispositions
  <2>2. disposition = "retained"
    BY <1>1, <2>1 DEF QuaIndInv, QuaOutcomeInv, QuaTakenInv
  <2> QED BY <1>1, <2>2 DEF QuaIndInv, QuaRecoveryInv
<1> QED BY <1>1 DEF Q!NothingStranded

\* A caller can find everything that stays behind.
THEOREM QuaNothingIsStranded == Q!Spec => []Q!NothingStranded
BY QuaKeptIsNamed, QuaInvariance, PTL

\* An intruder seen under the public name rules out ABSENT and REMOVED.
LEMMA QuaSeenIsNotClean == QuaIndInv => Q!SeenIsReported
BY DEF QuaIndInv, QuaOutcomeInv, Q!SeenIsReported

\* A caller never takes an intruder's file for its own removal.
THEOREM QuaIntruderIsReported == Q!Spec => []Q!SeenIsReported
BY QuaSeenIsNotClean, QuaInvariance, PTL

\* Recovery paths leave finalize_arena_outcome only with a bound arena.
LEMMA QuaPathsAreBound == QuaIndInv /\ [Q!Next]_(Q!vars) => [Q!PathsAddressable]_(Q!vars)
<1>1. ASSUME QuaIndInv, [Q!Next]_(Q!vars), pc = "final", pc' # "final", recovery' # {}
      PROVE  pc' = "dead" \/ (arena /\ disposition' = "retained")
  <2>1. Q!Finalize \/ Q!Die
    BY <1>1 DEF Q!vars, Q!Next, Q!Step, Q!OpenArena, Q!CheckArena, Q!MakeDirectory, Q!SetUp,
           Q!Claim, Q!Rename, Q!Missing,
       Q!SyncClaim, Q!VerifyPublicAbsent, Q!VerifyClaimed, Q!RemoveVerified, Q!Forgo, Q!LookBeforeUnlink,
       Q!UnlinkClaimed, Q!Finish, Q!RemoveDirectory, Q!SyncArena, Q!RecheckPublic, Q!ReportPreclaim,
       Q!OthersWrite, Q!OthersRenameArena
  <2>2. CASE Q!Die BY <2>2 DEF Q!Die
  <2>3. CASE Q!Finalize
    <3>1. PICK bound \in BOOLEAN, cleared \in BOOLEAN :
             /\ bound => arena
             /\ LET away == disposition = "unaddressable" \/ unbound \/ ~bound
                IN /\ disposition' = CASE away             -> "unaddressable"
                                       [] ~away /\ ~cleared -> "retained"
                                       [] ~away /\ cleared  -> disposition
                   /\ recovery' = IF away THEN {} ELSE recovery
      BY <2>3, Zenon DEF Q!Finalize, Q!Binding
    <3>2. bound /\ disposition # "unaddressable" /\ recovery # {} /\ ~unbound
      BY <1>1, <3>1
    <3>3. disposition = "retained" BY <1>1, <3>2 DEF QuaIndInv, QuaRecoveryInv
    <3> QED BY <3>1, <3>2, <3>3
  <2> QED BY <2>1, <2>2, <2>3
<1> QED BY <1>1 DEF Q!PathsAddressable

\* No caller is sent to a path that leads elsewhere.
THEOREM QuaPathsStayAddressable == Q!Spec => [][Q!PathsAddressable]_(Q!vars)
BY QuaPathsAreBound, QuaInvariance, PTL DEF Q!Spec

\* Ways to end whatever happened to the arena's path.
LEMMA QuaEndings ==
  ASSUME NEW x, NEW l \in BOOLEAN
  PROVE  /\ \A ans \in {"unclaimed", "kept"} :
               [name |-> x, kept |-> Q!None, answer |-> ans, lost |-> l] \in Q!Removal("ours", x)
         /\ x # Q!None =>
               [name |-> Q!None, kept |-> x, answer |-> "kept", lost |-> l] \in Q!Removal("ours", x)
BY DEF Q!Removal

\* What the callers' models take for one removal covers every way it can end.
LEMMA QuaEndsAsExpected == QuaIndInv => Q!OutcomeIsKnown
<1>1. ASSUME QuaIndInv, pc = "done"
      PROVE  \E x \in Q!Objects \cup {Q!None} : \E r \in Q!Removal("ours", x) :
               /\ took # Q!None => x = took
               /\ r.kept = claimed
               /\ r.lost = (disposition = "unaddressable")
               /\ r.answer = CASE phase = "UNSET"                        -> "unclaimed"
                                [] disposition \in {"removed", "absent"} -> disposition
                                [] OTHER                                 -> "kept"
  <2> DEFINE away == disposition = "unaddressable"
             answer == CASE phase = "UNSET"                        -> "unclaimed"
                         [] disposition \in {"removed", "absent"} -> disposition
                         [] OTHER                                 -> "kept"
  <2>1. /\ took \in Q!Objects \cup {Q!None} /\ claimed \in {Q!None, took}
        /\ disposition \in {"absent", "removed", "retained", "unaddressable"}
    BY <1>1 DEF QuaIndInv, QuaTyped, QuaNames, QuaTakenInv, QuaOutcomeInv, Q!Dispositions
  <2>2. away \in BOOLEAN OBVIOUS
  <2>3. SUFFICES \E r \in Q!Removal("ours", took) : r.kept = claimed /\ r.lost = away /\ r.answer = answer
    BY <2>1
  <2>4. CASE phase = "UNSET"
    <3>1. claimed = Q!None BY <1>1, <2>4 DEF QuaIndInv, QuaPhaseInv
    <3>2. [name |-> took, kept |-> Q!None, answer |-> "unclaimed", lost |-> away] \in Q!Removal("ours", took)
      BY <2>2, QuaEndings
    <3>3. disposition \notin {"removed", "absent"} BY <1>1, <2>4 DEF QuaIndInv, QuaPhaseInv
    <3>4. answer = "unclaimed" BY <2>4, <3>3
    <3> QED BY <3>1, <3>2, <3>4
  <2>5. CASE phase # "UNSET" /\ disposition = "absent"
    <3>1. took = Q!None /\ claimed = Q!None BY <1>1, <2>1, <2>5 DEF QuaIndInv, QuaOutcomeInv
    <3>2. answer = "absent" /\ away = FALSE BY <2>5
    <3>3. [name |-> Q!None, kept |-> Q!None, answer |-> "absent", lost |-> FALSE] \in Q!Removal("ours", took)
      BY <3>1 DEF Q!Removal
    <3> QED BY <3>1, <3>2, <3>3
  <2>6. CASE phase # "UNSET" /\ disposition = "removed"
    <3>1. took = "ours" /\ claimed = Q!None BY <1>1, <2>6 DEF QuaIndInv, QuaOutcomeInv,
           QuaTakenInv
    <3>2. answer = "removed" /\ away = FALSE BY <2>6
    <3>3. [name |-> Q!None, kept |-> Q!None, answer |-> "removed", lost |-> FALSE] \in Q!Removal("ours", took)
      BY <3>1 DEF Q!Removal
    <3> QED BY <3>1, <3>2, <3>3
  <2>7. CASE phase # "UNSET" /\ disposition \in QuaBad
    <3>1. answer = "kept" BY <2>7
    <3>2. CASE claimed = Q!None
      <4>1. [name |-> took, kept |-> Q!None, answer |-> "kept", lost |-> away] \in Q!Removal("ours", took)
        BY <2>2, QuaEndings
      <4> QED BY <3>1, <3>2, <4>1
    <3>3. CASE claimed # Q!None
      <4>1. [name |-> Q!None, kept |-> took, answer |-> "kept", lost |-> away] \in Q!Removal("ours", took)
        BY <2>1, <2>2, <3>3, QuaEndings
      <4> QED BY <2>1, <3>1, <3>3, <4>1
    <3> QED BY <3>2, <3>3
  <2> QED BY <2>1, <2>4, <2>5, <2>6, <2>7
<1> QED BY <1>1 DEF Q!OutcomeIsKnown

\* The callers of a removal reckon with every way it can end.
THEOREM QuaOutcomesAreKnown == Q!Spec => []Q!OutcomeIsKnown
BY QuaEndsAsExpected, QuaInvariance, PTL

-----------------------------------------------------------------------------
(* The removal as Cleanup promises it.                                     *)

QuaReport == IF pc = "done" THEN disposition ELSE "none"

\* Only the rename takes an object from public view, and only once.
LEMMA QuaRenamePromised ==
  ASSUME QuaIndInv, Q!Rename PROVE Q!Promise!Next \/ UNCHANGED Q!Promise!vars
<1>1. QuaReport' = QuaReport BY DEF Q!Rename, Q!RetainPreclaim, Q!Settle, Q!Proceed, QuaReport
<1>2. pc = "rename" /\ took = Q!None /\ claimed = Q!None /\ unlinked = {}
  BY DEF QuaIndInv, QuaTakenInv, Q!Rename
<1>3. CASE UNCHANGED <<pub, claimed, unlinked>>
  BY <1>1, <1>3 DEF Q!Promise!vars, QuaReport
<1>4. CASE pub # Q!None /\ claimed' = pub /\ pub' = Q!None /\ UNCHANGED unlinked
  <2>1. Q!Promise!Take BY <1>1, <1>2, <1>4 DEF Q!Promise!Take, QuaReport
  <2> QED BY <2>1 DEF Q!Promise!Next
<1> QED BY <1>3, <1>4 DEF Q!Rename, Q!RetainPreclaim, Q!Settle, Q!Proceed

\* Only the verified own object is discarded.
LEMMA QuaUnlinkPromised ==
  ASSUME QuaIndInv, Q!UnlinkClaimed PROVE Q!Promise!Next \/ UNCHANGED Q!Promise!vars
<1>1. QuaReport' = QuaReport BY DEF Q!UnlinkClaimed, Q!Settle, QuaReport
<1>2. pc = "unlink" /\ claimed = "ours" /\ pub' = pub BY DEF QuaIndInv, QuaTakenInv,
       Q!UnlinkClaimed
<1>3. CASE UNCHANGED <<claimed, unlinked>>
  BY <1>1, <1>2, <1>3 DEF Q!Promise!vars, QuaReport
<1>4. CASE claimed' = Q!None /\ unlinked' = unlinked \cup {claimed}
  <2>1. "ours" \in unlinked' BY <1>2, <1>4
  <2>2. Q!Promise!Discard BY <1>1, <1>2, <1>4, <2>1 DEF Q!Promise!Discard, QuaReport
  <2> QED BY <2>2 DEF Q!Promise!Next
<1> QED BY <1>3, <1>4 DEF Q!UnlinkClaimed

\* The report is true of what was discarded.
LEMMA QuaReportPromised ==
  ASSUME QuaIndInv, Q!Finalize \/ Q!ReportPreclaim PROVE Q!Promise!Next \/ UNCHANGED Q!Promise!vars
<1>1. pc \in {"final", "preclaim"} /\ UNCHANGED <<pub, claimed, unlinked>>
  BY DEF Q!Finalize, Q!ReportPreclaim
<1>2. CASE pc' # "done"
  BY <1>1, <1>2 DEF Q!Promise!vars, QuaReport
<1>3. CASE pc' = "done"
  <2>1. disposition' \in {"retained", "unaddressable"} \/ disposition' = disposition
    BY DEF Q!Finalize, Q!ReportPreclaim
  <2>2. disposition \in {"absent", "removed", "retained", "unaddressable"}
    BY <1>1 DEF QuaIndInv, QuaOutcomeInv, QuaTyped, QuaNames, Q!Dispositions
  <2>3. disposition = "absent" => claimed = Q!None /\ "ours" \notin unlinked
    BY DEF QuaIndInv, QuaOutcomeInv, QuaTakenInv
  <2>4. disposition = "removed" => claimed = Q!None /\ "ours" \in unlinked
    BY DEF QuaIndInv, QuaOutcomeInv
  <2>5. QuaReport = "none" /\ QuaReport' = disposition' BY <1>1, <1>3 DEF QuaReport
  <2>6. Q!Promise!Report BY <1>1, <2>1, <2>2, <2>3, <2>4, <2>5 DEF Q!Promise!Report, QuaReport
  <2> QED BY <2>6 DEF Q!Promise!Next
<1> QED BY <1>2, <1>3

\* What others do to the public name the promise allows at any moment.
LEMMA QuaOthersPromised ==
  ASSUME QuaIndInv, Q!OthersWrite PROVE Q!Promise!Next
<1>1. QuaReport' = QuaReport BY DEF Q!OthersWrite, QuaReport
<1>2. Q!Promise!Elsewhere BY <1>1 DEF Q!OthersWrite, Q!Promise!Elsewhere, QuaReport
<1> QED BY <1>2 DEF Q!Promise!Next

\* The remaining steps decide, look and sync; nothing of it can be seen.
LEMMA QuaRestHidden ==
  ASSUME QuaIndInv,
         \/ Q!OpenArena \/ Q!CheckArena \/ Q!MakeDirectory \/ Q!SetUp \/ Q!Claim \/ Q!Missing \/ Q!SyncClaim
         \/ Q!VerifyPublicAbsent \/ Q!VerifyClaimed \/ Q!RemoveVerified \/ Q!Forgo \/ Q!LookBeforeUnlink
         \/ Q!Finish \/ Q!RemoveDirectory \/ Q!SyncArena \/ Q!RecheckPublic
         \/ Q!OthersRenameArena \/ Q!Die
  PROVE  UNCHANGED Q!Promise!vars
<1>1. UNCHANGED <<pub, claimed, unlinked>>
  BY DEF Q!OpenArena, Q!CheckArena, Q!MakeDirectory, Q!SetUp, Q!Claim, Q!Missing, Q!SyncClaim,
         Q!VerifyPublicAbsent, Q!VerifyClaimed, Q!RemoveVerified, Q!Forgo, Q!LookBeforeUnlink, Q!Finish,
         Q!RemoveDirectory, Q!SyncArena, Q!RecheckPublic, Q!OthersRenameArena, Q!Die, Q!Proceed, Q!Settle,
         Q!Abandon, Q!RetainPreclaim
<1>2. QuaReport' = QuaReport
  BY DEF Q!OpenArena, Q!CheckArena, Q!MakeDirectory, Q!SetUp, Q!Claim, Q!Missing, Q!SyncClaim,
         Q!VerifyPublicAbsent, Q!VerifyClaimed, Q!RemoveVerified, Q!Forgo, Q!LookBeforeUnlink, Q!Finish,
         Q!RemoveDirectory, Q!SyncArena, Q!RecheckPublic, Q!OthersRenameArena, Q!Die, Q!Proceed, Q!Settle,
         Q!Abandon, Q!RetainPreclaim, Q!End, QuaReport, Q!Running
<1> QED BY <1>1, <1>2 DEF Q!Promise!vars, QuaReport

\* Every step is a step of the promise, or invisible.
LEMMA QuaStepPromised == QuaIndInv /\ [Q!Next]_(Q!vars) => [Q!Promise!Next]_(Q!Promise!vars)
<1> SUFFICES ASSUME QuaIndInv, [Q!Next]_(Q!vars) PROVE Q!Promise!Next \/ UNCHANGED Q!Promise!vars OBVIOUS
<1>1. CASE UNCHANGED Q!vars BY <1>1 DEF Q!vars, Q!Promise!vars
<1>2. CASE Q!Next
  BY <1>2, QuaRenamePromised, QuaUnlinkPromised, QuaReportPromised, QuaOthersPromised, QuaRestHidden
  DEF Q!Next, Q!Step
<1> QED BY <1>1, <1>2

\* CleanupQuarantine removes at most once what it took, only the caller's own
\* object, and reports what happened: it implements Cleanup.
LEMMA QuaInitPromised == Q!Init => Q!Promise!Init
BY DEF Q!Init, Q!Promise!Init

\* The whole protocol is the removal its callers rely on.
THEOREM QuaImplements == Q!Spec => Q!Refines
<1> QED BY QuaInitPromised, QuaStepPromised, QuaInvariance, PTL DEF Q!Spec, Q!Refines,
       Q!Promise!Spec

HIDE DEF QuaEarly, QuaClaiming, QuaHolding, QuaSure, QuaDecided, QuaTold, QuaBad, QuaClean,
       Q!Objects, Q!Paths, Q!None,
        Q!files, Q!others

-----------------------------------------------------------------------------
(* The publication of reports.                                             *)

RP == INSTANCE ReportPublicationProofs WITH
        Files <- ReportFiles, InNewDir <- NewDirFiles, Sidecars <- FALSE,
        MaxOutside <- MaxMoves
SP == INSTANCE ReportPublicationProofs WITH
        Files <- ReportFiles, InNewDir <- {}, Sidecars <- TRUE, MaxOutside <- MaxMoves

\* The same number of files.
LEMMA ReportsCount ==
  /\ \A set : R!Cardinality(set) = RP!Cardinality(set)
  /\ R!Last = RP!Last
  BY DEF R!Last, RP!Last, R!Cardinality, RP!Cardinality, R!IsFiniteSet, RP!IsFiniteSet

\* The publication of reports is the one the proofs about it speak of.
LEMMA ReportsAlike ==
  /\ R!FilesAssumption <=> RP!FilesAssumption
  /\ R!Init <=> RP!Init
  /\ R!Next <=> RP!Next
  /\ R!TypeOK <=> RP!TypeOK
  /\ R!SuccessIsClean <=> RP!SuccessIsClean
  /\ R!PlainFailureIsClean <=> RP!PlainFailureIsClean
  /\ R!KeptIsListed <=> RP!KeptIsListed
  /\ R!OldBytesReachable <=> RP!OldBytesReachable
  /\ R!OthersKept <=> RP!OthersKept
  /\ R!CompleteStays <=> RP!CompleteStays
<1> USE ReportsCount DEF
           R!Advance, RP!Advance, R!AuditBackups, RP!AuditBackups, R!ClaimCommitted,
           RP!ClaimCommitted, R!CleanBackup, RP!CleanBackup, R!CleanSync, RP!CleanSync,
           R!Cleaning, RP!Cleaning, R!CompletePlain, RP!CompletePlain, R!CompleteStays,
           RP!CompleteStays, R!Contents, RP!Contents, R!Die, RP!Die, R!DirectoryIsEmpty,
           RP!DirectoryIsEmpty, R!Down, RP!Down, R!Fail, RP!Fail, R!FilesAssumption,
           RP!FilesAssumption, R!FinishClaim, RP!FinishClaim, R!Foreign, RP!Foreign, R!Forward,
           RP!Forward, R!Fresh, RP!Fresh, R!Go, RP!Go, R!HasBackup, RP!HasBackup, R!Holds,
           RP!Holds, R!Init, RP!Init, R!Keep, RP!Keep, R!KeepUncertain, RP!KeepUncertain,
           R!KeptIsListed, RP!KeptIsListed, R!Next, RP!Next, R!None, RP!None, R!Observe,
           RP!Observe, R!Observed, RP!Observed, R!OldBytesReachable, RP!OldBytesReachable,
           R!Others, RP!Others, R!OthersKept, RP!OthersKept, R!OthersTouchSidecars,
           RP!OthersTouchSidecars, R!OthersWriteDestination, RP!OthersWriteDestination,
           R!PlainFailureIsClean, RP!PlainFailureIsClean, R!Preflight, RP!Preflight,
           R!PrepareBackup, RP!PrepareBackup, R!PrepareStage, RP!PrepareStage, R!Quiet,
           RP!Quiet, R!RecoveryPaths, RP!RecoveryPaths, R!Removal, RP!Removal, R!RemoveNew,
           RP!RemoveNew, R!RemoveNewDirectory, RP!RemoveNewDirectory, R!ReplaceName,
           RP!ReplaceName, R!Report, RP!Report, R!RestoreOriginal, RP!RestoreOriginal,
           R!RetainBackup, RP!RetainBackup, R!Rollback, RP!Rollback, R!RollbackBackup,
           RP!RollbackBackup, R!RollbackStage, RP!RollbackStage, R!SkipUnstaged,
           RP!SkipUnstaged, R!Slots, RP!Slots, R!Still, RP!Still, R!SuccessIsClean,
           RP!SuccessIsClean, R!TypeOK, RP!TypeOK, R!Uncommit, RP!Uncommit, R!Unfinished,
           RP!Unfinished, R!Vaulted, RP!Vaulted, R!VerifyBackups, RP!VerifyBackups,
           R!VerifyCommitted, RP!VerifyCommitted, R!VerifyParents, RP!VerifyParents,
           R!VerifyPrecommit, RP!VerifyPrecommit, R!VerifyPublished, RP!VerifyPublished,
           R!control, RP!control, R!history, RP!history, R!names, RP!names, R!precommitHolds,
           RP!precommitHolds, R!publishedHolds, RP!publishedHolds, R!SeenAs, RP!SeenAs,
           R!Recorded, RP!Recorded, R!Stale, RP!Stale, R!BelowKept, RP!BelowKept,
           R!Directory, RP!Directory
<1>1. R!FilesAssumption <=> RP!FilesAssumption
  OBVIOUS
<1>2. R!Init <=> RP!Init
  OBVIOUS
<1>3. R!Next <=> RP!Next
  OBVIOUS
<1>4. R!TypeOK <=> RP!TypeOK
  OBVIOUS
<1>5. R!SuccessIsClean <=> RP!SuccessIsClean
  OBVIOUS
<1>6. R!PlainFailureIsClean <=> RP!PlainFailureIsClean
  OBVIOUS
<1>7. R!KeptIsListed <=> RP!KeptIsListed
  OBVIOUS
<1>8. R!OldBytesReachable <=> RP!OldBytesReachable
  OBVIOUS
<1>9. R!OthersKept <=> RP!OthersKept
  OBVIOUS
<1>10. R!CompleteStays <=> RP!CompleteStays
  OBVIOUS
<1> QED
  BY ONLY <1>1, <1>2, <1>3, <1>4, <1>5, <1>6, <1>7, <1>8, <1>9, <1>10

\* The same number of files.
LEMMA SidecarsCount ==
  /\ \A set : S!Cardinality(set) = SP!Cardinality(set)
  /\ S!Last = SP!Last
  BY DEF S!Last, SP!Last, S!Cardinality, SP!Cardinality, S!IsFiniteSet, SP!IsFiniteSet

\* So is the publication where others touch the sidecars.
LEMMA SidecarsAlike ==
  /\ S!FilesAssumption <=> SP!FilesAssumption
  /\ S!Init <=> SP!Init
  /\ S!Next <=> SP!Next
  /\ S!TypeOK <=> SP!TypeOK
  /\ S!BackupOutlivesFailure <=> SP!BackupOutlivesFailure
  /\ S!OthersKept <=> SP!OthersKept
<1> USE SidecarsCount DEF
           S!Advance, SP!Advance, S!AuditBackups, SP!AuditBackups, S!BackupOutlivesFailure,
           SP!BackupOutlivesFailure, S!ClaimCommitted, SP!ClaimCommitted, S!CleanBackup,
           SP!CleanBackup, S!CleanSync, SP!CleanSync, S!Cleaning, SP!Cleaning, S!CompletePlain,
           SP!CompletePlain, S!Contents, SP!Contents, S!Die, SP!Die, S!DirectoryIsEmpty,
           SP!DirectoryIsEmpty, S!Down, SP!Down, S!Fail, SP!Fail, S!FilesAssumption,
           SP!FilesAssumption, S!FinishClaim, SP!FinishClaim, S!Foreign, SP!Foreign, S!Forward,
           SP!Forward, S!Fresh, SP!Fresh, S!Go, SP!Go, S!HasBackup, SP!HasBackup, S!Holds,
           SP!Holds, S!Init, SP!Init, S!Keep, SP!Keep, S!KeepUncertain, SP!KeepUncertain,
           S!Next, SP!Next, S!None, SP!None, S!Observe, SP!Observe, S!Observed, SP!Observed,
           S!Others, SP!Others, S!OthersKept, SP!OthersKept, S!OthersTouchSidecars,
           SP!OthersTouchSidecars, S!OthersWriteDestination, SP!OthersWriteDestination,
           S!Preflight, SP!Preflight, S!PrepareBackup, SP!PrepareBackup, S!PrepareStage,
           SP!PrepareStage, S!Quiet, SP!Quiet, S!RecoveryPaths, SP!RecoveryPaths, S!Removal,
           SP!Removal, S!RemoveNew, SP!RemoveNew, S!RemoveNewDirectory, SP!RemoveNewDirectory,
           S!ReplaceName, SP!ReplaceName, S!Report, SP!Report, S!RestoreOriginal,
           SP!RestoreOriginal, S!RetainBackup, SP!RetainBackup, S!Rollback, SP!Rollback,
           S!RollbackBackup, SP!RollbackBackup, S!RollbackStage, SP!RollbackStage,
           S!SkipUnstaged, SP!SkipUnstaged, S!Slots, SP!Slots, S!Still, SP!Still, S!TypeOK,
           SP!TypeOK, S!Uncommit, SP!Uncommit, S!Unfinished, SP!Unfinished, S!Vaulted,
           SP!Vaulted, S!VerifyBackups, SP!VerifyBackups, S!VerifyCommitted,
           SP!VerifyCommitted, S!VerifyParents, SP!VerifyParents, S!VerifyPrecommit,
           SP!VerifyPrecommit, S!VerifyPublished, SP!VerifyPublished, S!control, SP!control,
           S!history, SP!history, S!names, SP!names, S!precommitHolds, SP!precommitHolds,
           S!publishedHolds, SP!publishedHolds, S!SeenAs, SP!SeenAs, S!Recorded, SP!Recorded,
           S!Stale, SP!Stale, S!BelowKept, SP!BelowKept, S!Directory, SP!Directory
<1>1. S!FilesAssumption <=> SP!FilesAssumption
  OBVIOUS
<1>2. S!Init <=> SP!Init
  OBVIOUS
<1>3. S!Next <=> SP!Next
  OBVIOUS
<1>4. S!TypeOK <=> SP!TypeOK
  OBVIOUS
<1>5. S!BackupOutlivesFailure <=> SP!BackupOutlivesFailure
  OBVIOUS
<1>6. S!OthersKept <=> SP!OthersKept
  OBVIOUS
<1> QED
  BY ONLY <1>1, <1>2, <1>3, <1>4, <1>5, <1>6

-----------------------------------------------------------------------------
(* The composition.                                                        *)

\* What is invariant of the component that a behaviour is about.
PartInv ==
    /\ part \in {"quarantine", "reports", "sidecars", "package", "inventory", "tests"}
    /\ part = "quarantine" => QuaIndInv /\ QuaCounted
    /\ part = "reports" => RP!RollsBack
    /\ part = "sidecars" => SP!RollsBack
    /\ part = "package" => PkgInv
    /\ part = "inventory" => InvInv
    /\ part = "tests" => TstInv

\* It holds at the start.
LEMMA PartInitial == Init => PartInv
<1> SUFFICES ASSUME Init PROVE PartInv
  OBVIOUS
<1>1. /\ part \in {"quarantine", "reports", "sidecars", "package", "inventory", "tests"}
      /\ part = "quarantine" => Q!Init
      /\ part = "reports" => R!Init
      /\ part = "sidecars" => S!Init
      /\ part = "package" => P!Init
      /\ part = "inventory" => I!Init
      /\ part = "tests" => T!Init
  BY DEF Init
<1>2. part = "quarantine" => QuaIndInv /\ QuaCounted
  BY <1>1, SizesAssumption, QuaInitSafe, QuaInitCounted
<1>3. part = "reports" => RP!RollsBack
  BY <1>1, SizesAssumption, ReportsAlike, RP!Sized, RP!Initial, RP!VaultInitial DEF RP!RollsBack
<1>4. part = "sidecars" => SP!RollsBack
  BY <1>1, SizesAssumption, SidecarsAlike, SP!Sized, SP!Initial, SP!VaultInitial DEF SP!RollsBack
<1>5. part = "package" => PkgInv
  BY <1>1, SizesAssumption, PkgInitial
<1>6. part = "inventory" => InvInv
  BY <1>1, SizesAssumption, InvInitial
<1>7. part = "tests" => TstInv
  BY <1>1, SizesAssumption, TstInitial
<1> QED
  BY <1>1, <1>2, <1>3, <1>4, <1>5, <1>6, <1>7 DEF PartInv

\* A step is one of the component that goes on, or changes nothing of it.
LEMMA PartMoves ==
  ASSUME [Next]_vars
  PROVE  /\ part' = part
         /\ part = "quarantine" => [Q!Next]_(Q!vars)
         /\ part = "reports" => [R!Next]_(R!vars)
         /\ part = "sidecars" => [S!Next]_(S!vars)
         /\ part = "package" => [P!Next]_(P!vars)
         /\ part = "inventory" => [I!Next]_(I!vars)
         /\ part = "tests" => [T!Next]_(T!vars)
<1>1. CASE UNCHANGED vars
  <2>1. part' = part
    BY <1>1 DEF vars
  <2>2. /\ UNCHANGED Q!vars /\ UNCHANGED R!vars /\ UNCHANGED S!vars /\ UNCHANGED P!vars
        /\ UNCHANGED I!vars /\ UNCHANGED T!vars
    BY <1>1 DEF vars, Q!vars, R!vars, S!vars, P!vars, I!vars, T!vars, Q!files, Q!others,
       R!names, R!control, R!history, S!names, S!control, S!history, P!names, P!disk,
       P!ends, P!history, I!files, I!local, I!history, I!world
  <2> QED
    BY <2>1, <2>2
<1>2. CASE Next
  <2>1. part' = part
    BY <1>2 DEF Next, QuarantineStep, ReportsStep, SidecarsStep, PackageStep, InventoryStep,
       TestsStep, TheRestStays
  <2>2. \/ part = "quarantine" /\ Q!Next
        \/ part = "reports" /\ R!Next
        \/ part = "sidecars" /\ S!Next
        \/ part = "package" /\ P!Next
        \/ part = "inventory" /\ I!Next
        \/ part = "tests" /\ T!Next
    BY <1>2 DEF Next, QuarantineStep, ReportsStep, SidecarsStep, PackageStep, InventoryStep,
       TestsStep
  <2> QED
    BY <2>1, <2>2
<1> QED
  BY <1>1, <1>2

\* The steps of the components whose proofs are in modules of their own.
LEMMA AlikeMoves ==
  ASSUME [Next]_vars
  PROVE  /\ part = "reports" => [RP!Next]_(RP!vars)
         /\ part = "sidecars" => [SP!Next]_(SP!vars)
<1>1. R!vars = RP!vars /\ R!vars' = RP!vars'
  BY DEF R!vars, RP!vars, R!names, RP!names, R!control, RP!control, R!history, RP!history
<1>2. S!vars = SP!vars /\ S!vars' = SP!vars'
  BY DEF S!vars, SP!vars, S!names, SP!names, S!control, SP!control, S!history, SP!history
<1> QED
  BY <1>1, <1>2, PartMoves, ReportsAlike, SidecarsAlike

\* The constants.
LEMMA PartsSized == RP!Size /\ SP!Size
  BY SizesAssumption, ReportsAlike, SidecarsAlike, RP!Sized, SP!Sized

\* Every step keeps it.
LEMMA PartSteps == PartInv /\ [Next]_vars => PartInv'
<1> SUFFICES ASSUME PartInv, [Next]_vars PROVE PartInv'
  OBVIOUS
<1>1. part' = part /\ part \in {"quarantine", "reports", "sidecars", "package", "inventory", "tests"}
  BY PartMoves DEF PartInv
<1>2. part = "quarantine" => QuaIndInv' /\ QuaCounted'
  BY PartMoves, SizesAssumption, QuaStepSafe, QuaStepCounted DEF PartInv
<1>3. part = "reports" => RP!RollsBack'
  BY AlikeMoves, PartsSized, RP!Steps, RP!VaultSteps DEF PartInv, RP!RollsBack
<1>4. part = "sidecars" => SP!RollsBack'
  BY AlikeMoves, PartsSized, SP!Steps, SP!VaultSteps DEF PartInv, SP!RollsBack
<1>5. part = "package" => PkgInv'
  BY PartMoves, SizesAssumption, PkgSteps DEF PartInv
<1>6. part = "inventory" => InvInv'
  BY PartMoves, SizesAssumption, InvSteps DEF PartInv
<1>7. part = "tests" => TstInv'
  BY PartMoves, SizesAssumption, TstSteps DEF PartInv
<1> QED
  BY <1>1, <1>2, <1>3, <1>4, <1>5, <1>6, <1>7 DEF PartInv

\* The invariant of the composition, whichever component runs.
THEOREM Invariance == Spec => []PartInv
  BY PartInitial, PartSteps, PTL DEF Spec

\* Every component keeps to its own types.
THEOREM TypeCorrect == Spec => []TypeOK
<1>1. PartInv => TypeOK
  <2> SUFFICES ASSUME PartInv PROVE TypeOK
    OBVIOUS
  <2>1. part = "quarantine" => Q!TypeOK
    BY QuaTypesAre DEF PartInv
  <2>2. part = "reports" => R!TypeOK
    BY RP!Promises, PartsSized, ReportsAlike DEF PartInv, RP!RollsBack
  <2>3. part = "sidecars" => S!TypeOK
    BY SP!Promises, PartsSized, SidecarsAlike DEF PartInv, SP!RollsBack
  <2>4. /\ part = "package" => P!TypeOK
        /\ part = "inventory" => I!TypeOK
        /\ part = "tests" => T!TypeOK
    BY PkgPromises, InvPromises, TstPromises DEF PartInv
  <2> QED
    BY <2>1, <2>2, <2>3, <2>4 DEF TypeOK, PartInv
<1> QED
  BY <1>1, Invariance, PTL

\* What was there before stays reachable until the new generation is complete, through every
\* failure and rollback and wherever the process dies (_prepare_backup, _rollback,
\* _rollback_publication).
THEOREM OldBytesKept == Spec => []OldBytesReachable
<1>1. PartInv => OldBytesReachable
  BY RP!Promises, SP!Promises, PkgPromises, PartsSized, ReportsAlike, SidecarsAlike
     DEF PartInv, RP!RollsBack, SP!RollsBack, OldBytesReachable
<1> QED
  BY <1>1, Invariance, PTL

\* What a cleanup, a publication and a refresh report is what happened.
THEOREM OutcomeTold == Spec => []OutcomeIsTrue
<1>1. PartInv => OutcomeIsTrue
  BY QuaEndsAsExpected, RP!Promises, PkgPromises, InvPromises, PartsSized,
     ReportsAlike DEF PartInv, RP!RollsBack, OutcomeIsTrue
<1> QED
  BY <1>1, Invariance, PTL

\* What is left behind is named, and a recovery path leads to the arena that is held.
THEOREM LeftNamed == Spec => LeftIsNamed
<1> DEFINE names == /\ part = "quarantine" => Q!NothingStranded /\ Q!SeenIsReported
                    /\ part = "reports" => R!KeptIsListed
                    /\ part = "package" => P!BackupIsNamed
                    /\ part = "inventory" => I!NothingUnreported
           leads == part = "quarantine" => Q!PathsAddressable
<1>1. PartInv => names
  BY QuaKeptIsNamed, QuaSeenIsNotClean, RP!Promises, PkgPromises, InvPromises, PartsSized,
     ReportsAlike DEF PartInv, RP!RollsBack
<1>2. PartInv /\ [Next]_vars => [leads]_vars
  <2> SUFFICES ASSUME PartInv, [Next]_vars, part = "quarantine" PROVE Q!PathsAddressable
    OBVIOUS
  <2>1. [Q!PathsAddressable]_(Q!vars)
    BY PartMoves, QuaPathsAreBound DEF PartInv
  <2>2. UNCHANGED Q!vars => Q!PathsAddressable
    BY DEF Q!PathsAddressable, Q!vars, Q!files, Q!others
  <2> QED
    BY <2>1, <2>2
<1> HIDE DEF names, leads
<1>3. Spec => []names
  BY <1>1, Invariance, PTL
<1>4. Spec => [][leads]_vars
  BY <1>2, Invariance, PTL DEF Spec
<1> QED
  BY <1>3, <1>4 DEF LeftIsNamed, names, leads

\* Files of others are moved aside at most: no step but the last rename destroys one.
THEOREM OthersKeptAside == Spec => OthersKept
<1> DEFINE owned == part = "quarantine" => Q!ForeignKept
           kept == /\ part = "reports" => R!OthersKept
                   /\ part = "sidecars" => S!OthersKept
                   /\ part = "package" => P!OthersKept
                   /\ part = "inventory" => I!ForeignKept /\ I!LostOnlyInWindow
<1>1. PartInv => owned
  BY QuaOnlyOwnUnlinked DEF PartInv
<1>2. PartInv /\ [Next]_vars => [kept]_vars
  <2> SUFFICES ASSUME PartInv, [Next]_vars PROVE kept
    OBVIOUS
  <2>1. part = "reports" => R!OthersKept
    BY AlikeMoves, PartsSized, RP!OthersStay, ReportsAlike DEF PartInv, RP!RollsBack
  <2>2. part = "sidecars" => S!OthersKept
    BY AlikeMoves, PartsSized, SP!OthersStay, SidecarsAlike DEF PartInv, SP!RollsBack
  <2>3. part = "package" => P!OthersKept
    BY PartMoves, SizesAssumption, PkgOthersKept DEF PartInv
  <2>4. part = "inventory" => I!ForeignKept /\ I!LostOnlyInWindow
    BY PartMoves, SizesAssumption, InvForeignKept, InvInstalls DEF PartInv
  <2> QED
    BY <2>1, <2>2, <2>3, <2>4
<1> HIDE DEF owned, kept
<1>3. Spec => []owned
  BY <1>1, Invariance, PTL
<1>4. Spec => [][kept]_vars
  BY <1>2, Invariance, PTL DEF Spec
<1> QED
  BY <1>3, <1>4 DEF OthersKept, owned, kept

\* A new generation is installed whole and, past its boundary, never taken back.
THEOREM CompleteKept == Spec => CompleteStays
<1> DEFINE stays == /\ part = "reports" => R!CompleteStays
                    /\ part = "package" => P!CompleteStays
                    /\ part = "inventory" => I!InstallsWholeCandidate
<1>1. PartInv /\ [Next]_vars => [stays]_vars
  <2> SUFFICES ASSUME PartInv, [Next]_vars PROVE stays
    OBVIOUS
  <2>1. part = "reports" => R!CompleteStays
    BY AlikeMoves, PartsSized, RP!CompleteKeeps, ReportsAlike DEF PartInv, RP!RollsBack
  <2>2. part = "package" => P!CompleteStays
    BY PartMoves, SizesAssumption, PkgCompleteStays DEF PartInv
  <2>3. part = "inventory" => I!InstallsWholeCandidate
    BY PartMoves, SizesAssumption, InvInstalls DEF PartInv
  <2> QED
    BY <2>1, <2>2, <2>3
<1> HIDE DEF stays
<1>2. Spec => [][stays]_vars
  BY <1>1, Invariance, PTL DEF Spec
<1> QED
  BY <1>2 DEF CompleteStays, stays

\* A row of the test inventory holds what was observed for it, and a row without a log stays.
THEOREM RowsObserved == Spec => RowsAreObserved
<1> DEFINE observes == part = "tests" => T!NativeProvenance /\ T!MergeIsConsistent
           leaves == part = "tests" => T!UnobservedRowsKept
<1>1. PartInv => observes
  BY TstPromises DEF PartInv
<1>2. PartInv /\ [Next]_vars => [leaves]_vars
  BY PartMoves, TstKeepsRows DEF PartInv
<1> HIDE DEF observes, leaves
<1>3. Spec => []observes
  BY <1>1, Invariance, PTL
<1>4. Spec => [][leaves]_vars
  BY <1>2, Invariance, PTL DEF Spec
<1> QED
  BY <1>3, <1>4 DEF RowsAreObserved, observes, leaves

\* The quarantine, as it runs in the composition, implements the abstract removal.
THEOREM Implements == Spec => Refines
<1> DEFINE starts == part = "quarantine" => Q!Promise!Init
           removes == part = "quarantine" => [Q!Promise!Next]_(Q!Promise!vars)
<1>1. Init => starts
  BY QuaInitPromised DEF Init
<1>2. PartInv /\ [Next]_vars => [removes]_vars
  BY PartMoves, QuaStepPromised DEF PartInv
<1> HIDE DEF starts, removes
<1>3. Spec => starts
  BY <1>1, PTL DEF Spec
<1>4. Spec => [][removes]_vars
  BY <1>2, Invariance, PTL DEF Spec
<1> QED
  BY <1>3, <1>4 DEF Refines, starts, removes
=============================================================================
