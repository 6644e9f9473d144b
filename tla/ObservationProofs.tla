-------------------------- MODULE ObservationProofs --------------------------
(***************************************************************************)
(* The observers of MCObservation for every size: the sealed tree and its  *)
(* callers, the private copies of artifacts, the answers of Git and the    *)
(* runner of the test suite, each from an inductive invariant of its own,  *)
(* and what the run states about them.                                     *)
(***************************************************************************)
EXTENDS MCObservation, SequenceTheorems, TLAPS

-----------------------------------------------------------------------------
(* The private copies: where the snapshot is says which descriptors are    *)
(* open, what the bytes read so far are of, and what cleanup still owes.   *)

\* Where the snapshot is: before the artifact is read, while it is read, after its digest is
\* recorded, while its own files are read back, and in the two halves of cleanup.
CopyEarly     == {"root", "open", "make"}
CopyReading   == {"read", "extra", "stat", "path"}
CopyVerifying == {"look", "leaf", "verify", "compare"}
CopyRecorded  == {"finish", "register", "ready"} \cup CopyVerifying
CopyCleaning  == {"bind", "target", "close"}
CopyRemoving  == {"claim", "teardown", "anchor"}

CopyBytes == Seq(0 .. A!Foreign)
CopyByteTypes ==
    /\ source \in CopyBytes /\ got \in CopyBytes /\ sha \in CopyBytes /\ opened \in CopyBytes
    /\ copy \in [Roles -> CopyBytes] /\ target \in [Roles -> CopyBytes \cup {A!NoTarget}]
    /\ \A i \in 1 .. Len(source) : source[i] <= outside
    /\ size \in 0 .. MaxChunks
CopyFlagTypes ==
    /\ leads \in BOOLEAN /\ root \in BOOLEAN /\ rooted \in BOOLEAN /\ arena \in BOOLEAN
    /\ permitted \in BOOLEAN /\ issues \in BOOLEAN /\ lost \in BOOLEAN /\ raised \in BOOLEAN
    /\ led \in BOOLEAN
CopyNameTypes ==
    /\ since \subseteq {"source", "link", "copy"}
    /\ name \in [Roles -> {"ours", "other", A!None}]
    /\ vault \subseteq Roles \X {"ours", "edited", "other"}
    /\ named \subseteq {"root"} \cup Roles
    /\ placed \subseteq Roles /\ copies \subseteq Roles /\ pending \subseteq Roles
CopyFileTypes ==
    /\ fds \subseteq {"owner", "sealed", "writer", "reader"} \X Roles
    /\ role \in Roles \cup {A!None}
    /\ todo \subseteq Roles /\ uncertain \subseteq Roles
CopyPointTypes ==
    /\ pc \in CopyEarly \cup CopyReading \cup CopyRecorded \cup CopyCleaning \cup CopyRemoving \cup {"closed"}
    /\ status \in {"open", "complete", "recovery_required", "unaddressable"}
    /\ used \in {"none", "ok", "refused"}
    /\ uses \in 0 .. MaxUses /\ outside \in 0 .. MaxOutside
CopyTyped == CopyByteTypes /\ CopyFlagTypes /\ CopyNameTypes /\ CopyFileTypes /\ CopyPointTypes

\* Which descriptors are open. The writer of a copy stays open until the copy is registered;
\* a reader is of the copy being verified or of a registered one.
CopySealing ==
    /\ pc \in CopyEarly => fds = {} /\ copies = {}
    /\ pc \in CopyReading => fds = {"owner", "writer"} \X Roles /\ copies = {}
    /\ pc = "finish" =>
         /\ todo = Roles \ copies
         /\ \A f \in fds : /\ f[1] = "owner" => f[2] \notin copies
                           /\ f[1] = "writer" => f[2] \in todo
                           /\ f[1] = "reader" => f[2] \in copies
    /\ pc \in CopyVerifying \cup {"register"} =>
         /\ role \in Roles
         /\ IF role \in copies THEN copies = Roles /\ pc # "register"
                              ELSE todo = Roles \ (copies \cup {role})
         /\ \A f \in fds : /\ f[1] = "owner" => f[2] \notin copies
                           /\ f[1] = "writer" => f[2] \in todo /\ role \notin copies
                           /\ f[1] = "reader" => f[2] \in copies \cup {role}
    /\ pc = "ready" => copies = Roles /\ \A f \in fds : f[1] # "owner" /\ f[1] # "writer"

\* What was read is what the artifact held when it was opened, unless it changed since.
CopyFreezing ==
    /\ pc \in {"make"} \cup CopyReading => size = Len(opened)
    /\ pc \in {"make", "read", "extra", "stat"} /\ "source" \notin since => source = opened
    /\ pc = "make" => got = <<>>
    /\ pc = "read" => Len(got) <= size
    /\ pc \in {"extra", "stat"} => Len(got) = size
    /\ pc \in {"read", "extra", "stat"} /\ "source" \notin since =>
         \A i \in 1 .. Len(got) : got[i] = opened[i]
    /\ pc = "path" => got = opened
    /\ pc \in CopyRecorded => sha = opened

\* The path led to the artifact when it was looked at again, unless it was moved since.
CopyTracing ==
    /\ pc \in {"extra", "stat", "path"} /\ leads = TRUE /\ "link" \notin since => led = TRUE
    /\ pc \in CopyRecorded => led = TRUE

\* What was read back of a copy is what the copy holds, unless it was edited since.
CopyChecking ==
    pc \in {"verify", "compare"} =>
      /\ Len(copy[role]) = Len(sha) /\ Len(got) <= Len(sha)
      /\ pc = "compare" => Len(got) = Len(sha)
      /\ "copy" \notin since => \A i \in 1 .. Len(got) : got[i] = copy[role][i]

\* What cleanup has to say: a descriptor that may be open makes its file uncertain, and a
\* file in quarantine is named unless the path of the quarantine may lead elsewhere.
CopyClosing ==
    /\ pc \in CopyCleaning =>
         \A f \in fds : f[1] = "writer" \/ (f[1] = "reader" /\ f[2] \notin copies) => f[2] \in uncertain
    /\ pc \in {"target", "close"} => uncertain = {} \/ issues = TRUE
    /\ pc \notin CopyRemoving \cup {"closed"} => vault = {}
    /\ pc \in CopyRemoving => issues = TRUE \/ (fds = {} /\ vault = {})
    /\ pc = "claim" => \A f \in fds : f[2] \notin todo
    /\ pc = "anchor" => (issues = TRUE \/ root = FALSE) /\ (lost = TRUE \/ root = FALSE \/ "root" \in named)
    /\ pc \in CopyRemoving => lost = TRUE \/ \A v \in vault : v[1] \in named

\* A snapshot that is closed has told the outcome that its files and descriptors show.
CopyClosed ==
    /\ pc # "closed" => status = "open"
    /\ A!CompleteIsClean /\ A!LeftIsNamed

CopyInv == CopyTyped /\ CopySealing /\ CopyFreezing /\ CopyTracing /\ CopyChecking /\ A!OthersKept /\ CopyClosing /\ CopyClosed

USE DEF A!sources, A!inside, A!reading, A!records, A!faults, A!ends, A!history, CopyEarly,
       CopyReading, CopyVerifying, CopyRecorded, CopyCleaning, CopyRemoving, CopyBytes

\* The bounds are numbers.
LEMMA CopySizes == A!ArtifactAssumption => MaxChunks \in Nat /\ MaxUses \in Nat /\ MaxOutside \in Nat /\ A!Foreign \in Nat
                   /\ A!Foreign = MaxOutside + 1 /\ Roles # {}
BY DEF A!ArtifactAssumption, A!Foreign

\* What a string of bytes holds.
LEMMA CopyValues ==
  ASSUME A!ArtifactAssumption, NEW s \in CopyBytes
  PROVE  /\ Len(s) \in Nat /\ \A i \in 1 .. Len(s) : s[i] \in 0 .. A!Foreign
BY CopySizes, ElementOfSeq, LenProperties

\* One chunk more.
LEMMA CopyExtended ==
  ASSUME A!ArtifactAssumption, NEW s \in CopyBytes, NEW c \in 0 .. A!Foreign
  PROVE  /\ Append(s, c) \in CopyBytes /\ Len(Append(s, c)) = Len(s) + 1
         /\ \A i \in 1 .. Len(s) : Append(s, c)[i] = s[i]
         /\ Append(s, c)[Len(s) + 1] = c
BY CopySizes, AppendProperties

\* Strings of bytes of one length are compared byte by byte.
LEMMA CopySameBytes ==
  ASSUME NEW s \in CopyBytes, NEW t \in CopyBytes, Len(s) = Len(t), \A i \in 1 .. Len(s) : s[i] = t[i]
  PROVE  s = t
BY SeqEqual, LenProperties

\* A change of the artifact writes a value that no byte had before.
LEMMA CopySourceBytes == ASSUME A!ArtifactAssumption, CopyByteTypes, CopyPointTypes,
                                outside' = outside + 1, outside < MaxOutside
                         PROVE  /\ \A i \in 1 .. Len(source) : source[i] <= outside' /\ source[i] + 1 <= outside'
                                /\ \A i \in 1 .. Len(source) : source[i] + 1 \in 0 .. A!Foreign
<1>1. \A i \in 1 .. Len(source) : source[i] \in 0 .. A!Foreign
  BY CopyValues DEF CopyByteTypes
<1>2. outside \in Nat /\ outside + 1 <= MaxOutside /\ A!Foreign = MaxOutside + 1 /\ MaxOutside \in Nat
  BY CopySizes DEF CopyPointTypes
<1>3. \A i \in 1 .. Len(source) : source[i] <= outside
  BY DEF CopyByteTypes
<1> SUFFICES ASSUME NEW i \in 1 .. Len(source)
             PROVE  source[i] <= outside' /\ source[i] + 1 <= outside' /\ source[i] + 1 \in 0 .. A!Foreign
  OBVIOUS
<1>4. source[i] \in Nat /\ source[i] <= outside
  BY <1>1, <1>3
<1> HIDE DEF A!Foreign
<1> QED
  BY <1>2, <1>4

\* How the removal of one copy can end: a file of others stays or is in the quarantine.
LEMMA CopyWays ==
  ASSUME NEW x, NEW c \in A!Removal("ours", x)
  PROVE  /\ c.name \in {x, A!None} /\ c.kept \in {x, A!None} /\ c.lost \in BOOLEAN
         /\ c.kept # A!None => c.answer = "kept"
         /\ x = "other" => c.name = "other" \/ c.kept = "other"
BY DEF A!Removal

\* One removal, written out.
LEMMA CopyRemovesOne ==
  ASSUME A!RemoveCopy
  PROVE  \E r \in todo : \E c \in A!Removal("ours", A!Seen(r)) :
           /\ name' = [name EXCEPT ![r] = IF A!Seen(r) = "edited" /\ c.name # A!None THEN name[r] ELSE c.name]
           /\ vault' = IF c.kept = A!None THEN vault ELSE vault \cup {<<r, c.kept>>}
           /\ lost' = (lost \/ c.lost)
           /\ issues' = (issues \/ c.answer \notin {"removed", "absent"})
           /\ named' = IF c.answer = "kept" /\ ~c.lost THEN named \cup {r} ELSE named
           /\ todo' = todo \ {r}
BY DEF A!RemoveCopy, A!Claims, A!Reported

\* CreatePrivateRoot keeps the invariant.
LEMMA CopyCreatePrivateRootKeeps ==
  ASSUME A!ArtifactAssumption, CopyInv, A!CreatePrivateRoot, A!Observe
  PROVE  CopyInv'
<1> USE CopySizes DEF A!CreatePrivateRoot, A!Go
<1>1. CopyByteTypes'
  BY DEF CopyInv, CopyTyped, CopyByteTypes, CopyFileTypes, CopyPointTypes
<1>2. CopyFlagTypes'
  BY DEF CopyInv, CopyTyped, CopyFlagTypes, A!Observe
<1>3. CopyNameTypes'
  BY DEF CopyInv, CopyTyped, CopyNameTypes, CopyFileTypes, CopySealing
<1>4. CopyFileTypes'
  BY DEF CopyInv, CopyTyped, CopyFileTypes, CopyNameTypes
<1>5. CopyPointTypes'
  BY DEF CopyInv, CopyTyped, CopyPointTypes
<1>6. CopySealing'
  BY DEF CopyInv, CopySealing, CopyTyped, CopyFileTypes, CopyNameTypes
<1>7. CopyFreezing'
  BY DEF CopyInv, CopyFreezing, CopyTyped, CopyByteTypes
<1>8. CopyTracing'
  BY DEF CopyInv, CopyTracing, A!Observe, CopyTyped, CopyFlagTypes
<1>9. CopyChecking'
  BY DEF CopyInv, CopyChecking, CopyTyped, CopyByteTypes, CopySealing
<1>10. A!OthersKept'
  BY DEF CopyInv, A!OthersKept, CopyTyped, CopyNameTypes
<1>11. CopyClosing'
  BY DEF CopyInv, CopyClosing, CopySealing, CopyTyped, CopyFileTypes, CopyNameTypes,
         CopyFlagTypes
<1>12. CopyClosed'
  BY DEF CopyInv, CopyClosed, CopyClosing, A!CompleteIsClean, A!LeftIsNamed, CopyTyped,
         CopyFlagTypes
<1> QED
  BY <1>1, <1>2, <1>3, <1>4, <1>5, <1>6, <1>7, <1>8, <1>9, <1>10, <1>11, <1>12 DEF CopyInv,
         CopyTyped

\* OpenSource keeps the invariant.
LEMMA CopyOpenSourceKeeps ==
  ASSUME A!ArtifactAssumption, CopyInv, A!OpenSource, A!Observe
  PROVE  CopyInv'
<1> USE CopySizes DEF A!OpenSource, A!Go, A!CaptureFails, A!SourceIsFit
<1>1. CopyByteTypes'
  <2>1. <<>> \in CopyBytes
    BY EmptySeq
  <2>2. source \in CopyBytes /\ Len(source) \in Nat
    BY LenProperties DEF CopyInv, CopyTyped, CopyByteTypes
  <2>a. A!SourceIsFit /\ size' = Len(source) => size' \in 0 .. MaxChunks
    BY <2>2
  <2>b. size \in 0 .. MaxChunks /\ got \in CopyBytes /\ opened \in CopyBytes
    BY DEF CopyInv, CopyTyped, CopyByteTypes
  <2>3. size' \in 0 .. MaxChunks /\ got' \in CopyBytes /\ opened' \in CopyBytes
    BY <2>1, <2>2, <2>a, <2>b
  <2> QED
    BY <2>3 DEF CopyInv, CopyTyped, CopyByteTypes
<1>2. CopyFlagTypes'
  BY DEF CopyInv, CopyTyped, CopyFlagTypes, A!Observe
<1>3. CopyNameTypes'
  BY DEF CopyInv, CopyTyped, CopyNameTypes, CopyFileTypes, CopySealing
<1>4. CopyFileTypes'
  BY DEF CopyInv, CopyTyped, CopyFileTypes, CopyNameTypes
<1>5. CopyPointTypes'
  BY DEF CopyInv, CopyTyped, CopyPointTypes
<1>6. CopySealing'
  BY DEF CopyInv, CopySealing, CopyTyped, CopyFileTypes, CopyNameTypes
<1>7. CopyFreezing'
  BY DEF CopyInv, CopyFreezing, CopyTyped, CopyByteTypes
<1>8. CopyTracing'
  BY DEF CopyInv, CopyTracing, A!Observe, CopyTyped, CopyFlagTypes
<1>9. CopyChecking'
  BY DEF CopyInv, CopyChecking, CopyTyped, CopyByteTypes, CopySealing
<1>10. A!OthersKept'
  BY DEF CopyInv, A!OthersKept, CopyTyped, CopyNameTypes
<1>11. CopyClosing'
  BY DEF CopyInv, CopyClosing, CopySealing, CopyTyped, CopyFileTypes, CopyNameTypes,
         CopyFlagTypes
<1>12. CopyClosed'
  BY DEF CopyInv, CopyClosed, CopyClosing, A!CompleteIsClean, A!LeftIsNamed, CopyTyped,
         CopyFlagTypes
<1> QED
  BY <1>1, <1>2, <1>3, <1>4, <1>5, <1>6, <1>7, <1>8, <1>9, <1>10, <1>11, <1>12 DEF CopyInv,
         CopyTyped

\* CreateOutputDescriptors keeps the invariant.
LEMMA CopyCreateOutputDescriptorsKeeps ==
  ASSUME A!ArtifactAssumption, CopyInv, A!CreateOutputDescriptors, A!Observe
  PROVE  CopyInv'
<1> USE CopySizes DEF A!CreateOutputDescriptors, A!Go, A!CaptureFails
<1>1. CopyByteTypes'
  BY DEF CopyInv, CopyTyped, CopyByteTypes, CopyFileTypes, CopyPointTypes
<1>2. CopyFlagTypes'
  BY DEF CopyInv, CopyTyped, CopyFlagTypes, A!Observe
<1>3. CopyNameTypes'
  BY DEF CopyInv, CopyTyped, CopyNameTypes, CopyFileTypes, CopySealing
<1>4. CopyFileTypes'
  BY DEF CopyInv, CopyTyped, CopyFileTypes, CopyNameTypes
<1>5. CopyPointTypes'
  BY DEF CopyInv, CopyTyped, CopyPointTypes
<1>6. CopySealing'
  BY DEF CopyInv, CopySealing, CopyTyped, CopyFileTypes, CopyNameTypes
<1>7. CopyFreezing'
  BY DEF CopyInv, CopyFreezing, CopyTyped, CopyByteTypes
<1>8. CopyTracing'
  BY DEF CopyInv, CopyTracing, A!Observe, CopyTyped, CopyFlagTypes
<1>9. CopyChecking'
  BY DEF CopyInv, CopyChecking, CopyTyped, CopyByteTypes, CopySealing
<1>10. A!OthersKept'
  <2>1. \A r \in Roles : name'[r] = name[r] \/ name[r] = A!None
    OBVIOUS
  <2>2. UNCHANGED <<placed, vault>>
    OBVIOUS
  <2>3. placed \subseteq Roles /\ A!None # "other"
    BY DEF CopyInv, CopyTyped, CopyNameTypes, A!None
  <2> QED
    BY <2>1, <2>2, <2>3 DEF CopyInv, A!OthersKept
<1>11. CopyClosing'
  BY DEF CopyInv, CopyClosing, CopySealing, CopyTyped, CopyFileTypes, CopyNameTypes,
         CopyFlagTypes
<1>12. CopyClosed'
  BY DEF CopyInv, CopyClosed, CopyClosing, A!CompleteIsClean, A!LeftIsNamed, CopyTyped,
         CopyFlagTypes
<1> QED
  BY <1>1, <1>2, <1>3, <1>4, <1>5, <1>6, <1>7, <1>8, <1>9, <1>10, <1>11, <1>12 DEF CopyInv,
         CopyTyped

\* ReadChunk keeps the invariant.
LEMMA CopyReadChunkKeeps ==
  ASSUME A!ArtifactAssumption, CopyInv, A!ReadChunk, A!Observe
  PROVE  CopyInv'
<1> USE CopySizes DEF A!ReadChunk, A!Go, A!CaptureFails, A!Written
<1>1. CopyByteTypes'
  <2>1. source \in CopyBytes /\ got \in CopyBytes /\ copy \in [Roles -> CopyBytes] /\ Len(got) \in Nat /\ Len(source) \in Nat
    BY LenProperties DEF CopyInv, CopyTyped, CopyByteTypes
  <2>a. \A i \in 1 .. Len(source) : source[i] \in 0 .. A!Foreign
    BY <2>1, CopyValues
  <2>2. Len(got) < Len(source) => source[Len(got) + 1] \in 0 .. A!Foreign
    BY <2>1, <2>a
  <2>3. ASSUME Len(got) < Len(source), NEW some \in SUBSET Roles
        PROVE  A!Written(some, source[Len(got) + 1]) \in [Roles -> CopyBytes]
    BY <2>1, <2>2, <2>3, CopyExtended
  <2>4. got' \in CopyBytes
    <3>1. CASE Len(got) < Len(source) /\ got' = Append(got, source[Len(got) + 1])
      BY <2>1, <2>2, <3>1, CopyExtended
    <3>2. CASE got' = got
      BY <2>1, <3>2
    <3> QED
      BY <3>1, <3>2
  <2>5. copy' \in [Roles -> CopyBytes]
    <3> HIDE DEF A!Written
    <3> QED
      BY <2>1, <2>3
  <2> QED
    BY <2>4, <2>5 DEF CopyInv, CopyTyped, CopyByteTypes
<1>2. CopyFlagTypes'
  BY DEF CopyInv, CopyTyped, CopyFlagTypes, A!Observe
<1>3. CopyNameTypes'
  BY DEF CopyInv, CopyTyped, CopyNameTypes, CopyFileTypes, CopySealing
<1>4. CopyFileTypes'
  BY DEF CopyInv, CopyTyped, CopyFileTypes, CopyNameTypes
<1>5. CopyPointTypes'
  BY DEF CopyInv, CopyTyped, CopyPointTypes
<1>6. CopySealing'
  BY DEF CopyInv, CopySealing, CopyTyped, CopyFileTypes, CopyNameTypes
<1>7. CopyFreezing'
  <2>1. source \in CopyBytes /\ got \in CopyBytes /\ Len(got) \in Nat /\ Len(source) \in Nat
    BY LenProperties DEF CopyInv, CopyTyped, CopyByteTypes
  <2>2. CASE /\ Len(got) < size /\ Len(got) < Len(source)
             /\ got' = Append(got, source[Len(got) + 1]) /\ pc' = "read"
    <3>1. source[Len(got) + 1] \in 0 .. A!Foreign
      BY <2>1, <2>2, CopyValues
    <3>2. /\ Len(got') = Len(got) + 1 /\ \A i \in 1 .. Len(got) : got'[i] = got[i]
          /\ got'[Len(got) + 1] = source[Len(got) + 1]
      BY <2>1, <2>2, <3>1, CopyExtended
    <3>3. \A i \in 1 .. Len(got') : i \in 1 .. Len(got) \/ i = Len(got) + 1
      BY <2>1, <3>2
    <3>4. size \in Nat /\ Len(got') <= size
      BY <2>1, <2>2, <3>2 DEF CopyInv, CopyTyped, CopyByteTypes
    <3> QED
      BY <2>2, <3>2, <3>3, <3>4 DEF CopyInv, CopyFreezing
  <2>3. CASE Len(got) = size /\ pc' = "extra" /\ got' = got
    BY <2>3 DEF CopyInv, CopyFreezing
  <2>4. CASE pc' = "bind"
    BY <2>4 DEF CopyInv, CopyFreezing
  <2> QED
    BY <2>2, <2>3, <2>4
<1>8. CopyTracing'
  BY DEF CopyInv, CopyTracing, A!Observe, CopyTyped, CopyFlagTypes
<1>9. CopyChecking'
  BY DEF CopyInv, CopyChecking, CopyTyped, CopyByteTypes, CopySealing
<1>10. A!OthersKept'
  BY DEF CopyInv, A!OthersKept, CopyTyped, CopyNameTypes
<1>11. CopyClosing'
  BY DEF CopyInv, CopyClosing, CopySealing, CopyTyped, CopyFileTypes, CopyNameTypes,
         CopyFlagTypes
<1>12. CopyClosed'
  BY DEF CopyInv, CopyClosed, CopyClosing, A!CompleteIsClean, A!LeftIsNamed, CopyTyped,
         CopyFlagTypes
<1> QED
  BY <1>1, <1>2, <1>3, <1>4, <1>5, <1>6, <1>7, <1>8, <1>9, <1>10, <1>11, <1>12 DEF CopyInv,
         CopyTyped

\* CheckGrowth keeps the invariant.
LEMMA CopyCheckGrowthKeeps ==
  ASSUME A!ArtifactAssumption, CopyInv, A!CheckGrowth, A!Observe
  PROVE  CopyInv'
<1> USE CopySizes DEF A!CheckGrowth, A!Go, A!CaptureFails
<1>1. CopyByteTypes'
  BY DEF CopyInv, CopyTyped, CopyByteTypes, CopyFileTypes, CopyPointTypes
<1>2. CopyFlagTypes'
  BY DEF CopyInv, CopyTyped, CopyFlagTypes, A!Observe
<1>3. CopyNameTypes'
  BY DEF CopyInv, CopyTyped, CopyNameTypes, CopyFileTypes, CopySealing
<1>4. CopyFileTypes'
  BY DEF CopyInv, CopyTyped, CopyFileTypes, CopyNameTypes
<1>5. CopyPointTypes'
  BY DEF CopyInv, CopyTyped, CopyPointTypes
<1>6. CopySealing'
  BY DEF CopyInv, CopySealing, CopyTyped, CopyFileTypes, CopyNameTypes
<1>7. CopyFreezing'
  BY DEF CopyInv, CopyFreezing, CopyTyped, CopyByteTypes
<1>8. CopyTracing'
  BY DEF CopyInv, CopyTracing, A!Observe, CopyTyped, CopyFlagTypes
<1>9. CopyChecking'
  BY DEF CopyInv, CopyChecking, CopyTyped, CopyByteTypes, CopySealing
<1>10. A!OthersKept'
  BY DEF CopyInv, A!OthersKept, CopyTyped, CopyNameTypes
<1>11. CopyClosing'
  BY DEF CopyInv, CopyClosing, CopySealing, CopyTyped, CopyFileTypes, CopyNameTypes,
         CopyFlagTypes
<1>12. CopyClosed'
  BY DEF CopyInv, CopyClosed, CopyClosing, A!CompleteIsClean, A!LeftIsNamed, CopyTyped,
         CopyFlagTypes
<1> QED
  BY <1>1, <1>2, <1>3, <1>4, <1>5, <1>6, <1>7, <1>8, <1>9, <1>10, <1>11, <1>12 DEF CopyInv,
         CopyTyped

\* CheckDrift keeps the invariant.
LEMMA CopyCheckDriftKeeps ==
  ASSUME A!ArtifactAssumption, CopyInv, A!CheckDrift, A!Observe
  PROVE  CopyInv'
<1> USE CopySizes DEF A!CheckDrift, A!Go, A!CaptureFails
<1>1. CopyByteTypes'
  BY DEF CopyInv, CopyTyped, CopyByteTypes, CopyFileTypes, CopyPointTypes
<1>2. CopyFlagTypes'
  BY DEF CopyInv, CopyTyped, CopyFlagTypes, A!Observe
<1>3. CopyNameTypes'
  BY DEF CopyInv, CopyTyped, CopyNameTypes, CopyFileTypes, CopySealing
<1>4. CopyFileTypes'
  BY DEF CopyInv, CopyTyped, CopyFileTypes, CopyNameTypes
<1>5. CopyPointTypes'
  BY DEF CopyInv, CopyTyped, CopyPointTypes
<1>6. CopySealing'
  BY DEF CopyInv, CopySealing, CopyTyped, CopyFileTypes, CopyNameTypes
<1>7. CopyFreezing'
  BY DEF CopyInv, CopyFreezing, CopyTyped, CopyByteTypes
<1>8. CopyTracing'
  BY DEF CopyInv, CopyTracing, A!Observe, CopyTyped, CopyFlagTypes
<1>9. CopyChecking'
  BY DEF CopyInv, CopyChecking, CopyTyped, CopyByteTypes, CopySealing
<1>10. A!OthersKept'
  BY DEF CopyInv, A!OthersKept, CopyTyped, CopyNameTypes
<1>11. CopyClosing'
  BY DEF CopyInv, CopyClosing, CopySealing, CopyTyped, CopyFileTypes, CopyNameTypes,
         CopyFlagTypes
<1>12. CopyClosed'
  BY DEF CopyInv, CopyClosed, CopyClosing, A!CompleteIsClean, A!LeftIsNamed, CopyTyped,
         CopyFlagTypes
<1> QED
  BY <1>1, <1>2, <1>3, <1>4, <1>5, <1>6, <1>7, <1>8, <1>9, <1>10, <1>11, <1>12 DEF CopyInv,
         CopyTyped

\* CheckPath keeps the invariant.
LEMMA CopyCheckPathKeeps ==
  ASSUME A!ArtifactAssumption, CopyInv, A!CheckPath, A!Observe
  PROVE  CopyInv'
<1> USE CopySizes DEF A!CheckPath, A!Go, A!CaptureFails
<1>1. CopyByteTypes'
  BY DEF CopyInv, CopyTyped, CopyByteTypes, CopyFileTypes, CopyPointTypes
<1>2. CopyFlagTypes'
  BY DEF CopyInv, CopyTyped, CopyFlagTypes, A!Observe
<1>3. CopyNameTypes'
  BY DEF CopyInv, CopyTyped, CopyNameTypes, CopyFileTypes, CopySealing
<1>4. CopyFileTypes'
  BY DEF CopyInv, CopyTyped, CopyFileTypes, CopyNameTypes
<1>5. CopyPointTypes'
  BY DEF CopyInv, CopyTyped, CopyPointTypes
<1>6. CopySealing'
  BY DEF CopyInv, CopySealing, CopyTyped, CopyFileTypes, CopyNameTypes
<1>7. CopyFreezing'
  BY DEF CopyInv, CopyFreezing, CopyTyped, CopyByteTypes
<1>8. CopyTracing'
  BY DEF CopyInv, CopyTracing, A!Observe, CopyTyped, CopyFlagTypes
<1>9. CopyChecking'
  BY DEF CopyInv, CopyChecking, CopyTyped, CopyByteTypes, CopySealing
<1>10. A!OthersKept'
  BY DEF CopyInv, A!OthersKept, CopyTyped, CopyNameTypes
<1>11. CopyClosing'
  BY DEF CopyInv, CopyClosing, CopySealing, CopyTyped, CopyFileTypes, CopyNameTypes,
         CopyFlagTypes
<1>12. CopyClosed'
  BY DEF CopyInv, CopyClosed, CopyClosing, A!CompleteIsClean, A!LeftIsNamed, CopyTyped,
         CopyFlagTypes
<1> QED
  BY <1>1, <1>2, <1>3, <1>4, <1>5, <1>6, <1>7, <1>8, <1>9, <1>10, <1>11, <1>12 DEF CopyInv,
         CopyTyped

\* FinishOutput keeps the invariant.
LEMMA CopyFinishOutputKeeps ==
  ASSUME A!ArtifactAssumption, CopyInv, A!FinishOutput, A!Observe
  PROVE  CopyInv'
<1> USE CopySizes DEF A!FinishOutput, A!Go, A!CaptureFails
<1>1. CopyByteTypes'
  BY DEF CopyInv, CopyTyped, CopyByteTypes, CopyFileTypes, CopyPointTypes
<1>2. CopyFlagTypes'
  BY DEF CopyInv, CopyTyped, CopyFlagTypes, A!Observe
<1>3. CopyNameTypes'
  BY DEF CopyInv, CopyTyped, CopyNameTypes, CopyFileTypes, CopySealing
<1>4. CopyFileTypes'
  BY DEF CopyInv, CopyTyped, CopyFileTypes, CopyNameTypes
<1>5. CopyPointTypes'
  BY DEF CopyInv, CopyTyped, CopyPointTypes
<1>6. CopySealing'
  <2>1. PICK r \in todo :
           /\ role' = r /\ todo' = todo \ {r}
           /\ \/ fds' = (fds \ {<<"writer", r>>}) \cup {<<"reader", r>>} /\ pc' = "look"
              \/ pc' = "bind"
    OBVIOUS
  <2>2. pc = "finish" /\ copies' = copies /\ r \in Roles /\ r \notin copies /\ todo = Roles \ copies
    BY DEF CopyInv, CopyTyped, CopyFileTypes, CopySealing
  <2>3. CASE pc' = "bind"
    BY <2>3 DEF CopySealing
  <2>4. CASE fds' = (fds \ {<<"writer", r>>}) \cup {<<"reader", r>>} /\ pc' = "look"
    <3>1. todo' = Roles \ (copies \cup {r})
      BY <2>1, <2>2
    <3>2. \A f \in fds : f = <<f[1], f[2]>>
      BY DEF CopyInv, CopyTyped, CopyFileTypes
    <3>3. \A f \in fds' : /\ f[1] = "owner" => f[2] \notin copies
                          /\ f[1] = "writer" => f[2] \in todo'
                          /\ f[1] = "reader" => f[2] \in copies \cup {r}
      <4>1. \A f \in fds' : f = <<"reader", r>> \/ (f \in fds /\ f # <<"writer", r>>)
        BY <2>4
      <4> QED
        BY <2>1, <2>2, <3>2, <4>1 DEF CopyInv, CopySealing
    <3> QED
      BY <2>1, <2>2, <2>4, <3>1, <3>3 DEF CopySealing
  <2> QED
    BY <2>1, <2>3, <2>4
<1>7. CopyFreezing'
  BY DEF CopyInv, CopyFreezing, CopyTyped, CopyByteTypes
<1>8. CopyTracing'
  BY DEF CopyInv, CopyTracing, A!Observe, CopyTyped, CopyFlagTypes
<1>9. CopyChecking'
  BY DEF CopyInv, CopyChecking, CopyTyped, CopyByteTypes, CopySealing
<1>10. A!OthersKept'
  BY DEF CopyInv, A!OthersKept, CopyTyped, CopyNameTypes
<1>11. CopyClosing'
  BY DEF CopyInv, CopyClosing, CopySealing, CopyTyped, CopyFileTypes, CopyNameTypes,
         CopyFlagTypes
<1>12. CopyClosed'
  BY DEF CopyInv, CopyClosed, CopyClosing, A!CompleteIsClean, A!LeftIsNamed, CopyTyped,
         CopyFlagTypes
<1> QED
  BY <1>1, <1>2, <1>3, <1>4, <1>5, <1>6, <1>7, <1>8, <1>9, <1>10, <1>11, <1>12 DEF CopyInv,
         CopyTyped

\* RegisterCopy keeps the invariant.
LEMMA CopyRegisterCopyKeeps ==
  ASSUME A!ArtifactAssumption, CopyInv, A!RegisterCopy, A!Observe
  PROVE  CopyInv'
<1> USE CopySizes DEF A!RegisterCopy
<1>1. CopyByteTypes'
  BY DEF CopyInv, CopyTyped, CopyByteTypes, CopyFileTypes, CopyPointTypes
<1>2. CopyFlagTypes'
  BY DEF CopyInv, CopyTyped, CopyFlagTypes, A!Observe
<1>3. CopyNameTypes'
  BY DEF CopyInv, CopyTyped, CopyNameTypes, CopyFileTypes, CopySealing
<1>4. CopyFileTypes'
  <2>1. role \in Roles
    BY DEF CopyInv, CopySealing
  <2>2. fds \subseteq {"owner", "sealed", "writer", "reader"} \X Roles
    BY DEF CopyInv, CopyTyped, CopyFileTypes
  <2>3. CASE fds' = (fds \ {<<"owner", role>>}) \cup {<<"sealed", role>>} /\ uncertain' = uncertain
    <3>1. <<"sealed", role>> \in {"owner", "sealed", "writer", "reader"} \X Roles
      BY <2>1
    <3> QED
      BY <2>2, <2>3, <3>1 DEF CopyInv, CopyTyped, CopyFileTypes
  <2>4. ASSUME NEW damage \in SUBSET { f \in fds : f[1] = "writer" },
               fds' = { f \in fds : f[1] # "writer" } \cup damage,
               uncertain' = uncertain \cup { f[2] : f \in damage }
        PROVE  CopyFileTypes'
    <3>1. fds' \subseteq fds
      BY <2>4
    <3>2. \A f \in damage : f[2] \in Roles
      BY <2>2
    <3> QED
      BY <2>2, <2>4, <3>1, <3>2 DEF CopyInv, CopyTyped, CopyFileTypes
  <2> QED
    BY <2>3, <2>4
<1>5. CopyPointTypes'
  BY DEF CopyInv, CopyTyped, CopyPointTypes
<1>6. CopySealing'
  BY DEF CopyInv, CopySealing, CopyTyped, CopyFileTypes, CopyNameTypes
<1>7. CopyFreezing'
  BY DEF CopyInv, CopyFreezing, CopyTyped, CopyByteTypes
<1>8. CopyTracing'
  BY DEF CopyInv, CopyTracing, A!Observe, CopyTyped, CopyFlagTypes
<1>9. CopyChecking'
  BY DEF CopyInv, CopyChecking, CopyTyped, CopyByteTypes, CopySealing
<1>10. A!OthersKept'
  BY DEF CopyInv, A!OthersKept, CopyTyped, CopyNameTypes
<1>11. CopyClosing'
  BY DEF CopyInv, CopyClosing, CopySealing, CopyTyped, CopyFileTypes, CopyNameTypes,
         CopyFlagTypes
<1>12. CopyClosed'
  BY DEF CopyInv, CopyClosed, CopyClosing, A!CompleteIsClean, A!LeftIsNamed, CopyTyped,
         CopyFlagTypes
<1> QED
  BY <1>1, <1>2, <1>3, <1>4, <1>5, <1>6, <1>7, <1>8, <1>9, <1>10, <1>11, <1>12 DEF CopyInv,
         CopyTyped

\* VerifyRoot keeps the invariant.
LEMMA CopyVerifyRootKeeps ==
  ASSUME A!ArtifactAssumption, CopyInv, A!VerifyRoot, A!Observe
  PROVE  CopyInv'
<1> USE CopySizes DEF A!VerifyRoot, A!Go, A!CaptureFails, A!InUse, A!VerificationFails
<1>1. CopyByteTypes'
  BY DEF CopyInv, CopyTyped, CopyByteTypes, CopyFileTypes, CopyPointTypes
<1>2. CopyFlagTypes'
  BY DEF CopyInv, CopyTyped, CopyFlagTypes, A!Observe
<1>3. CopyNameTypes'
  BY DEF CopyInv, CopyTyped, CopyNameTypes, CopyFileTypes, CopySealing
<1>4. CopyFileTypes'
  BY DEF CopyInv, CopyTyped, CopyFileTypes, CopyNameTypes
<1>5. CopyPointTypes'
  BY DEF CopyInv, CopyTyped, CopyPointTypes
<1>6. CopySealing'
  BY DEF CopyInv, CopySealing, CopyTyped, CopyFileTypes, CopyNameTypes
<1>7. CopyFreezing'
  BY DEF CopyInv, CopyFreezing, CopyTyped, CopyByteTypes
<1>8. CopyTracing'
  BY DEF CopyInv, CopyTracing, A!Observe, CopyTyped, CopyFlagTypes
<1>9. CopyChecking'
  BY DEF CopyInv, CopyChecking, CopyTyped, CopyByteTypes, CopySealing
<1>10. A!OthersKept'
  BY DEF CopyInv, A!OthersKept, CopyTyped, CopyNameTypes
<1>11. CopyClosing'
  BY DEF CopyInv, CopyClosing, CopySealing, CopyTyped, CopyFileTypes, CopyNameTypes,
         CopyFlagTypes
<1>12. CopyClosed'
  BY DEF CopyInv, CopyClosed, CopyClosing, A!CompleteIsClean, A!LeftIsNamed, CopyTyped,
         CopyFlagTypes
<1> QED
  BY <1>1, <1>2, <1>3, <1>4, <1>5, <1>6, <1>7, <1>8, <1>9, <1>10, <1>11, <1>12 DEF CopyInv,
         CopyTyped

\* OpenCopy keeps the invariant.
LEMMA CopyOpenCopyKeeps ==
  ASSUME A!ArtifactAssumption, CopyInv, A!OpenCopy, A!Observe
  PROVE  CopyInv'
<1> USE CopySizes DEF A!OpenCopy, A!Go, A!CaptureFails, A!InUse, A!VerificationFails
<1>1. CopyByteTypes'
  <2>1. <<>> \in CopyBytes
    BY EmptySeq
  <2>2. got' \in CopyBytes
    BY <2>1 DEF CopyInv, CopyTyped, CopyByteTypes
  <2> QED
    BY <2>2 DEF CopyInv, CopyTyped, CopyByteTypes
<1>2. CopyFlagTypes'
  BY DEF CopyInv, CopyTyped, CopyFlagTypes, A!Observe
<1>3. CopyNameTypes'
  BY DEF CopyInv, CopyTyped, CopyNameTypes, CopyFileTypes, CopySealing
<1>4. CopyFileTypes'
  BY DEF CopyInv, CopyTyped, CopyFileTypes, CopyNameTypes
<1>5. CopyPointTypes'
  BY DEF CopyInv, CopyTyped, CopyPointTypes
<1>6. CopySealing'
  BY DEF CopyInv, CopySealing, CopyTyped, CopyFileTypes, CopyNameTypes
<1>7. CopyFreezing'
  BY DEF CopyInv, CopyFreezing, CopyTyped, CopyByteTypes
<1>8. CopyTracing'
  BY DEF CopyInv, CopyTracing, A!Observe, CopyTyped, CopyFlagTypes
<1>9. CopyChecking'
  BY DEF CopyInv, CopyChecking, CopyTyped, CopyByteTypes, CopySealing
<1>10. A!OthersKept'
  BY DEF CopyInv, A!OthersKept, CopyTyped, CopyNameTypes
<1>11. CopyClosing'
  BY DEF CopyInv, CopyClosing, CopySealing, CopyTyped, CopyFileTypes, CopyNameTypes,
         CopyFlagTypes
<1>12. CopyClosed'
  BY DEF CopyInv, CopyClosed, CopyClosing, A!CompleteIsClean, A!LeftIsNamed, CopyTyped,
         CopyFlagTypes
<1> QED
  BY <1>1, <1>2, <1>3, <1>4, <1>5, <1>6, <1>7, <1>8, <1>9, <1>10, <1>11, <1>12 DEF CopyInv,
         CopyTyped

\* VerifyChunk keeps the invariant.
LEMMA CopyVerifyChunkKeeps ==
  ASSUME A!ArtifactAssumption, CopyInv, A!VerifyChunk, A!Observe
  PROVE  CopyInv'
<1> USE CopySizes DEF A!VerifyChunk, A!Go, A!CaptureFails, A!InUse, A!VerificationFails
<1>1. CopyByteTypes'
  <2>1. got \in CopyBytes /\ copy[role] \in CopyBytes /\ Len(got) \in Nat /\ Len(copy[role]) = Len(sha)
    BY LenProperties DEF CopyInv, CopyTyped, CopyByteTypes, CopyChecking, CopySealing
  <2>2. Len(got) < Len(sha) => copy[role][Len(got) + 1] \in 0 .. A!Foreign
    BY <2>1, CopyValues
  <2>3. got' \in CopyBytes
    BY <2>1, <2>2, CopyExtended
  <2> QED
    BY <2>3 DEF CopyInv, CopyTyped, CopyByteTypes
<1>2. CopyFlagTypes'
  BY DEF CopyInv, CopyTyped, CopyFlagTypes, A!Observe
<1>3. CopyNameTypes'
  BY DEF CopyInv, CopyTyped, CopyNameTypes, CopyFileTypes, CopySealing
<1>4. CopyFileTypes'
  BY DEF CopyInv, CopyTyped, CopyFileTypes, CopyNameTypes
<1>5. CopyPointTypes'
  BY DEF CopyInv, CopyTyped, CopyPointTypes
<1>6. CopySealing'
  BY DEF CopyInv, CopySealing, CopyTyped, CopyFileTypes, CopyNameTypes
<1>7. CopyFreezing'
  BY DEF CopyInv, CopyFreezing, CopyTyped, CopyByteTypes
<1>8. CopyTracing'
  BY DEF CopyInv, CopyTracing, A!Observe, CopyTyped, CopyFlagTypes
<1>9. CopyChecking'
  <2>1. got \in CopyBytes /\ sha \in CopyBytes /\ copy[role] \in CopyBytes /\ Len(got) \in Nat /\ Len(copy[role]) = Len(sha) /\ Len(sha) \in Nat
    BY LenProperties DEF CopyInv, CopyTyped, CopyByteTypes, CopyChecking, CopySealing
  <2>2. CASE /\ Len(got) < Len(sha) /\ got' = Append(got, copy[role][Len(got) + 1]) /\ pc' = "verify"
    <3>1. copy[role][Len(got) + 1] \in 0 .. A!Foreign
      BY <2>1, <2>2, CopyValues
    <3>2. /\ Len(got') = Len(got) + 1 /\ \A i \in 1 .. Len(got) : got'[i] = got[i]
          /\ got'[Len(got) + 1] = copy[role][Len(got) + 1]
      BY <2>1, <2>2, <3>1, CopyExtended
    <3>3. \A i \in 1 .. Len(got') : i \in 1 .. Len(got) \/ i = Len(got) + 1
      BY <2>1, <3>2
    <3>4. Len(got') <= Len(sha)
      BY <2>1, <2>2, <3>2
    <3> QED
      BY <2>2, <3>2, <3>3, <3>4 DEF CopyInv, CopyChecking
  <2>3. CASE Len(got) = Len(sha) /\ pc' = "compare" /\ got' = got
    BY <2>3 DEF CopyInv, CopyChecking
  <2>4. CASE pc' \in {"bind", "ready"}
    BY <2>4 DEF CopyInv, CopyChecking
  <2> QED
    BY <2>2, <2>3, <2>4
<1>10. A!OthersKept'
  BY DEF CopyInv, A!OthersKept, CopyTyped, CopyNameTypes
<1>11. CopyClosing'
  BY DEF CopyInv, CopyClosing, CopySealing, CopyTyped, CopyFileTypes, CopyNameTypes,
         CopyFlagTypes
<1>12. CopyClosed'
  BY DEF CopyInv, CopyClosed, CopyClosing, A!CompleteIsClean, A!LeftIsNamed, CopyTyped,
         CopyFlagTypes
<1> QED
  BY <1>1, <1>2, <1>3, <1>4, <1>5, <1>6, <1>7, <1>8, <1>9, <1>10, <1>11, <1>12 DEF CopyInv,
         CopyTyped

\* CompareCopy keeps the invariant.
LEMMA CopyCompareCopyKeeps ==
  ASSUME A!ArtifactAssumption, CopyInv, A!CompareCopy, A!Observe
  PROVE  CopyInv'
<1> USE CopySizes DEF A!CompareCopy, A!Go, A!CaptureFails, A!InUse, A!VerificationFails,
       A!CopyIsFrozen
<1>1. CopyByteTypes'
  BY DEF CopyInv, CopyTyped, CopyByteTypes, CopyFileTypes, CopyPointTypes
<1>2. CopyFlagTypes'
  BY DEF CopyInv, CopyTyped, CopyFlagTypes, A!Observe
<1>3. CopyNameTypes'
  BY DEF CopyInv, CopyTyped, CopyNameTypes, CopyFileTypes, CopySealing
<1>4. CopyFileTypes'
  BY DEF CopyInv, CopyTyped, CopyFileTypes, CopyNameTypes
<1>5. CopyPointTypes'
  BY DEF CopyInv, CopyTyped, CopyPointTypes
<1>6. CopySealing'
  BY DEF CopyInv, CopySealing, CopyTyped, CopyFileTypes, CopyNameTypes
<1>7. CopyFreezing'
  BY DEF CopyInv, CopyFreezing, CopyTyped, CopyByteTypes
<1>8. CopyTracing'
  BY DEF CopyInv, CopyTracing, A!Observe, CopyTyped, CopyFlagTypes
<1>9. CopyChecking'
  BY DEF CopyInv, CopyChecking, CopyTyped, CopyByteTypes, CopySealing
<1>10. A!OthersKept'
  BY DEF CopyInv, A!OthersKept, CopyTyped, CopyNameTypes
<1>11. CopyClosing'
  BY DEF CopyInv, CopyClosing, CopySealing, CopyTyped, CopyFileTypes, CopyNameTypes,
         CopyFlagTypes
<1>12. CopyClosed'
  BY DEF CopyInv, CopyClosed, CopyClosing, A!CompleteIsClean, A!LeftIsNamed, CopyTyped,
         CopyFlagTypes
<1> QED
  BY <1>1, <1>2, <1>3, <1>4, <1>5, <1>6, <1>7, <1>8, <1>9, <1>10, <1>11, <1>12 DEF CopyInv,
         CopyTyped

\* Use keeps the invariant.
LEMMA CopyUseKeeps ==
  ASSUME A!ArtifactAssumption, CopyInv, A!Use, A!Observe
  PROVE  CopyInv'
<1> USE CopySizes DEF A!Use, A!Go
<1>1. CopyByteTypes'
  BY DEF CopyInv, CopyTyped, CopyByteTypes, CopyFileTypes, CopyPointTypes
<1>2. CopyFlagTypes'
  BY DEF CopyInv, CopyTyped, CopyFlagTypes, A!Observe
<1>3. CopyNameTypes'
  BY DEF CopyInv, CopyTyped, CopyNameTypes, CopyFileTypes, CopySealing
<1>4. CopyFileTypes'
  BY DEF CopyInv, CopyTyped, CopyFileTypes, CopyNameTypes
<1>5. CopyPointTypes'
  BY DEF CopyInv, CopyTyped, CopyPointTypes
<1>6. CopySealing'
  BY DEF CopyInv, CopySealing, CopyTyped, CopyFileTypes, CopyNameTypes
<1>7. CopyFreezing'
  BY DEF CopyInv, CopyFreezing, CopyTyped, CopyByteTypes
<1>8. CopyTracing'
  BY DEF CopyInv, CopyTracing, A!Observe, CopyTyped, CopyFlagTypes
<1>9. CopyChecking'
  BY DEF CopyInv, CopyChecking, CopyTyped, CopyByteTypes, CopySealing
<1>10. A!OthersKept'
  BY DEF CopyInv, A!OthersKept, CopyTyped, CopyNameTypes
<1>11. CopyClosing'
  BY DEF CopyInv, CopyClosing, CopySealing, CopyTyped, CopyFileTypes, CopyNameTypes,
         CopyFlagTypes
<1>12. CopyClosed'
  BY DEF CopyInv, CopyClosed, CopyClosing, A!CompleteIsClean, A!LeftIsNamed, CopyTyped,
         CopyFlagTypes
<1> QED
  BY <1>1, <1>2, <1>3, <1>4, <1>5, <1>6, <1>7, <1>8, <1>9, <1>10, <1>11, <1>12 DEF CopyInv,
         CopyTyped

\* Close keeps the invariant.
LEMMA CopyCloseKeeps ==
  ASSUME A!ArtifactAssumption, CopyInv, A!Close, A!Observe
  PROVE  CopyInv'
<1> USE CopySizes DEF A!Close, A!Go
<1>1. CopyByteTypes'
  BY DEF CopyInv, CopyTyped, CopyByteTypes, CopyFileTypes, CopyPointTypes
<1>2. CopyFlagTypes'
  BY DEF CopyInv, CopyTyped, CopyFlagTypes, A!Observe
<1>3. CopyNameTypes'
  BY DEF CopyInv, CopyTyped, CopyNameTypes, CopyFileTypes, CopySealing
<1>4. CopyFileTypes'
  BY DEF CopyInv, CopyTyped, CopyFileTypes, CopyNameTypes
<1>5. CopyPointTypes'
  BY DEF CopyInv, CopyTyped, CopyPointTypes
<1>6. CopySealing'
  BY DEF CopyInv, CopySealing, CopyTyped, CopyFileTypes, CopyNameTypes
<1>7. CopyFreezing'
  BY DEF CopyInv, CopyFreezing, CopyTyped, CopyByteTypes
<1>8. CopyTracing'
  BY DEF CopyInv, CopyTracing, A!Observe, CopyTyped, CopyFlagTypes
<1>9. CopyChecking'
  BY DEF CopyInv, CopyChecking, CopyTyped, CopyByteTypes, CopySealing
<1>10. A!OthersKept'
  BY DEF CopyInv, A!OthersKept, CopyTyped, CopyNameTypes
<1>11. CopyClosing'
  BY DEF CopyInv, CopyClosing, CopySealing, CopyTyped, CopyFileTypes, CopyNameTypes,
         CopyFlagTypes
<1>12. CopyClosed'
  BY DEF CopyInv, CopyClosed, CopyClosing, A!CompleteIsClean, A!LeftIsNamed, CopyTyped,
         CopyFlagTypes
<1> QED
  BY <1>1, <1>2, <1>3, <1>4, <1>5, <1>6, <1>7, <1>8, <1>9, <1>10, <1>11, <1>12 DEF CopyInv,
         CopyTyped

\* CheckBinding keeps the invariant.
LEMMA CopyCheckBindingKeeps ==
  ASSUME A!ArtifactAssumption, CopyInv, A!CheckBinding, A!Observe
  PROVE  CopyInv'
<1> USE CopySizes DEF A!CheckBinding, A!Go
<1>1. CopyByteTypes'
  BY DEF CopyInv, CopyTyped, CopyByteTypes, CopyFileTypes, CopyPointTypes
<1>2. CopyFlagTypes'
  BY DEF CopyInv, CopyTyped, CopyFlagTypes, A!Observe
<1>3. CopyNameTypes'
  BY DEF CopyInv, CopyTyped, CopyNameTypes, CopyFileTypes, CopySealing
<1>4. CopyFileTypes'
  BY DEF CopyInv, CopyTyped, CopyFileTypes, CopyNameTypes
<1>5. CopyPointTypes'
  BY DEF CopyInv, CopyTyped, CopyPointTypes
<1>6. CopySealing'
  BY DEF CopyInv, CopySealing, CopyTyped, CopyFileTypes, CopyNameTypes
<1>7. CopyFreezing'
  BY DEF CopyInv, CopyFreezing, CopyTyped, CopyByteTypes
<1>8. CopyTracing'
  BY DEF CopyInv, CopyTracing, A!Observe, CopyTyped, CopyFlagTypes
<1>9. CopyChecking'
  BY DEF CopyInv, CopyChecking, CopyTyped, CopyByteTypes, CopySealing
<1>10. A!OthersKept'
  BY DEF CopyInv, A!OthersKept, CopyTyped, CopyNameTypes
<1>11. CopyClosing'
  BY DEF CopyInv, CopyClosing, CopySealing, CopyTyped, CopyFileTypes, CopyNameTypes,
         CopyFlagTypes
<1>12. CopyClosed'
  BY DEF CopyInv, CopyClosed, CopyClosing, A!CompleteIsClean, A!LeftIsNamed, CopyTyped,
         CopyFlagTypes
<1> QED
  BY <1>1, <1>2, <1>3, <1>4, <1>5, <1>6, <1>7, <1>8, <1>9, <1>10, <1>11, <1>12 DEF CopyInv,
         CopyTyped

\* ChooseTargets keeps the invariant.
LEMMA CopyChooseTargetsKeeps ==
  ASSUME A!ArtifactAssumption, CopyInv, A!ChooseTargets, A!Observe
  PROVE  CopyInv'
<1> USE CopySizes DEF A!ChooseTargets, A!Go
<1>1. CopyByteTypes'
  BY DEF CopyInv, CopyTyped, CopyByteTypes, CopyFileTypes, CopyPointTypes
<1>2. CopyFlagTypes'
  BY DEF CopyInv, CopyTyped, CopyFlagTypes, A!Observe
<1>3. CopyNameTypes'
  BY DEF CopyInv, CopyTyped, CopyNameTypes, CopyFileTypes, CopySealing
<1>4. CopyFileTypes'
  BY DEF CopyInv, CopyTyped, CopyFileTypes, CopyNameTypes
<1>5. CopyPointTypes'
  BY DEF CopyInv, CopyTyped, CopyPointTypes
<1>6. CopySealing'
  BY DEF CopyInv, CopySealing, CopyTyped, CopyFileTypes, CopyNameTypes
<1>7. CopyFreezing'
  BY DEF CopyInv, CopyFreezing, CopyTyped, CopyByteTypes
<1>8. CopyTracing'
  BY DEF CopyInv, CopyTracing, A!Observe, CopyTyped, CopyFlagTypes
<1>9. CopyChecking'
  BY DEF CopyInv, CopyChecking, CopyTyped, CopyByteTypes, CopySealing
<1>10. A!OthersKept'
  BY DEF CopyInv, A!OthersKept, CopyTyped, CopyNameTypes
<1>11. CopyClosing'
  BY DEF CopyInv, CopyClosing, CopySealing, CopyTyped, CopyFileTypes, CopyNameTypes,
         CopyFlagTypes
<1>12. CopyClosed'
  BY DEF CopyInv, CopyClosed, CopyClosing, A!CompleteIsClean, A!LeftIsNamed, CopyTyped,
         CopyFlagTypes
<1> QED
  BY <1>1, <1>2, <1>3, <1>4, <1>5, <1>6, <1>7, <1>8, <1>9, <1>10, <1>11, <1>12 DEF CopyInv,
         CopyTyped

\* CloseDescriptors keeps the invariant.
LEMMA CopyCloseDescriptorsKeeps ==
  ASSUME A!ArtifactAssumption, CopyInv, A!CloseDescriptors, A!Observe
  PROVE  CopyInv'
<1> USE CopySizes DEF A!CloseDescriptors, A!Targets
<1>1. CopyByteTypes'
  BY DEF CopyInv, CopyTyped, CopyByteTypes, CopyFileTypes, CopyPointTypes
<1>2. CopyFlagTypes'
  BY DEF CopyInv, CopyTyped, CopyFlagTypes, A!Observe
<1>3. CopyNameTypes'
  <2>1. PICK damage \in SUBSET fds : named' = IF lost THEN named ELSE named \cup { f[2] : f \in damage }
    OBVIOUS
  <2>2. \A f \in damage : f[2] \in Roles
    BY DEF CopyInv, CopyTyped, CopyFileTypes
  <2>3. named' \subseteq {"root"} \cup Roles
    BY <2>1, <2>2 DEF CopyInv, CopyTyped, CopyNameTypes
  <2> QED
    BY <2>3 DEF CopyInv, CopyTyped, CopyNameTypes
<1>4. CopyFileTypes'
  BY DEF CopyInv, CopyTyped, CopyFileTypes, CopyNameTypes
<1>5. CopyPointTypes'
  BY DEF CopyInv, CopyTyped, CopyPointTypes
<1>6. CopySealing'
  BY DEF CopyInv, CopySealing, CopyTyped, CopyFileTypes, CopyNameTypes
<1>7. CopyFreezing'
  BY DEF CopyInv, CopyFreezing, CopyTyped, CopyByteTypes
<1>8. CopyTracing'
  BY DEF CopyInv, CopyTracing, A!Observe, CopyTyped, CopyFlagTypes
<1>9. CopyChecking'
  BY DEF CopyInv, CopyChecking, CopyTyped, CopyByteTypes, CopySealing
<1>10. A!OthersKept'
  BY DEF CopyInv, A!OthersKept, CopyTyped, CopyNameTypes
<1>11. CopyClosing'
  BY DEF CopyInv, CopyClosing, CopySealing, CopyTyped, CopyFileTypes, CopyNameTypes,
         CopyFlagTypes
<1>12. CopyClosed'
  BY DEF CopyInv, CopyClosed, CopyClosing, A!CompleteIsClean, A!LeftIsNamed, CopyTyped,
         CopyFlagTypes
<1> QED
  BY <1>1, <1>2, <1>3, <1>4, <1>5, <1>6, <1>7, <1>8, <1>9, <1>10, <1>11, <1>12 DEF CopyInv,
         CopyTyped

\* RemoveCopy keeps the invariant.
LEMMA CopyRemoveCopyKeeps ==
  ASSUME A!ArtifactAssumption, CopyInv, A!RemoveCopy, A!Observe
  PROVE  CopyInv'
<1> USE CopySizes DEF A!RemoveCopy
<1>1. CopyByteTypes'
  BY DEF CopyInv, CopyTyped, CopyByteTypes, CopyFileTypes, CopyPointTypes
<1>2. CopyFlagTypes'
  <2>1. issues' \in BOOLEAN /\ permitted' \in BOOLEAN
    BY DEF A!Reported
  <2>2. lost' \in BOOLEAN
    OBVIOUS
  <2>3. led' \in BOOLEAN
    BY DEF A!Observe
  <2> QED
    BY <2>1, <2>2, <2>3 DEF CopyInv, CopyTyped, CopyFlagTypes
<1>3. CopyNameTypes'
  <2>a. PICK r \in todo : \E c \in A!Removal("ours", A!Seen(r)) :
           /\ name' = [name EXCEPT ![r] = IF A!Seen(r) = "edited" /\ c.name # A!None THEN name[r] ELSE c.name]
           /\ vault' = IF c.kept = A!None THEN vault ELSE vault \cup {<<r, c.kept>>}
           /\ named' = IF c.answer = "kept" /\ ~c.lost THEN named \cup {r} ELSE named
    BY CopyRemovesOne
  <2>1. PICK c \in A!Removal("ours", A!Seen(r)) :
           /\ name' = [name EXCEPT ![r] = IF A!Seen(r) = "edited" /\ c.name # A!None THEN name[r] ELSE c.name]
           /\ vault' = IF c.kept = A!None THEN vault ELSE vault \cup {<<r, c.kept>>}
           /\ named' = IF c.answer = "kept" /\ ~c.lost THEN named \cup {r} ELSE named
    BY <2>a
  <2>2. r \in Roles
    BY DEF CopyInv, CopyTyped, CopyFileTypes
  <2>3. name[r] \in {"ours", "other", A!None} /\ A!Seen(r) \in {"ours", "edited", "other", A!None}
    BY <2>2 DEF CopyInv, CopyTyped, CopyNameTypes, A!Seen
  <2>4. c.name \in {A!Seen(r), A!None} /\ c.kept \in {A!Seen(r), A!None}
    BY CopyWays
  <2>5. name' \in [Roles -> {"ours", "other", A!None}]
    BY <2>1, <2>2, <2>3, <2>4 DEF CopyInv, CopyTyped, CopyNameTypes
  <2>6. vault' \subseteq Roles \X {"ours", "edited", "other"}
    BY <2>1, <2>2, <2>3, <2>4 DEF CopyInv, CopyTyped, CopyNameTypes
  <2> QED
    BY <2>1, <2>2, <2>5, <2>6 DEF CopyInv, CopyTyped, CopyNameTypes
<1>4. CopyFileTypes'
  BY DEF CopyInv, CopyTyped, CopyFileTypes, CopyNameTypes
<1>5. CopyPointTypes'
  BY DEF CopyInv, CopyTyped, CopyPointTypes
<1>6. CopySealing'
  BY DEF CopyInv, CopySealing, CopyTyped, CopyFileTypes, CopyNameTypes
<1>7. CopyFreezing'
  BY DEF CopyInv, CopyFreezing, CopyTyped, CopyByteTypes
<1>8. CopyTracing'
  BY DEF CopyInv, CopyTracing, A!Observe, CopyTyped, CopyFlagTypes
<1>9. CopyChecking'
  BY DEF CopyInv, CopyChecking, CopyTyped, CopyByteTypes, CopySealing
<1>10. A!OthersKept'
  <2>a. PICK r \in todo : \E c \in A!Removal("ours", A!Seen(r)) :
           /\ name' = [name EXCEPT ![r] = IF A!Seen(r) = "edited" /\ c.name # A!None THEN name[r] ELSE c.name]
           /\ vault' = IF c.kept = A!None THEN vault ELSE vault \cup {<<r, c.kept>>}
    BY CopyRemovesOne
  <2>1. PICK c \in A!Removal("ours", A!Seen(r)) :
           /\ name' = [name EXCEPT ![r] = IF A!Seen(r) = "edited" /\ c.name # A!None THEN name[r] ELSE c.name]
           /\ vault' = IF c.kept = A!None THEN vault ELSE vault \cup {<<r, c.kept>>}
    BY <2>a
  <2>2. r \in Roles /\ placed' = placed /\ vault \subseteq vault'
    BY <2>1 DEF CopyInv, CopyTyped, CopyFileTypes
  <2>3. name \in [Roles -> {"ours", "other", A!None}] /\ placed \subseteq Roles
    BY DEF CopyInv, CopyTyped, CopyNameTypes
  <2>4. \A q \in Roles : q # r => name'[q] = name[q]
    BY <2>1, <2>2, <2>3
  <2>5. CASE name[r] = "other"
    <3>1. A!Seen(r) = "other" /\ A!None # "other"
      BY <2>5 DEF A!Seen, A!None
    <3>2. c.name = "other" \/ c.kept = "other"
      BY <3>1, CopyWays
    <3>3. name'[r] = c.name
      BY <2>1, <2>2, <2>3, <3>1
    <3> QED
      BY <2>1, <2>2, <2>3, <2>4, <3>1, <3>2, <3>3 DEF CopyInv, A!OthersKept
  <2>6. CASE name[r] # "other"
    BY <2>2, <2>3, <2>4, <2>6 DEF CopyInv, A!OthersKept
  <2> QED
    BY <2>5, <2>6
<1>11. CopyClosing'
  <2>a. PICK r \in todo : \E c \in A!Removal("ours", A!Seen(r)) :
           /\ vault' = IF c.kept = A!None THEN vault ELSE vault \cup {<<r, c.kept>>}
           /\ named' = IF c.answer = "kept" /\ ~c.lost THEN named \cup {r} ELSE named
           /\ lost' = (lost \/ c.lost)
           /\ issues' = (issues \/ c.answer \notin {"removed", "absent"})
           /\ todo' = todo \ {r}
    BY CopyRemovesOne
  <2>1. PICK c \in A!Removal("ours", A!Seen(r)) :
           /\ vault' = IF c.kept = A!None THEN vault ELSE vault \cup {<<r, c.kept>>}
           /\ named' = IF c.answer = "kept" /\ ~c.lost THEN named \cup {r} ELSE named
           /\ lost' = (lost \/ c.lost)
           /\ issues' = (issues \/ c.answer \notin {"removed", "absent"})
           /\ todo' = todo \ {r}
    BY <2>a
  <2>2. c.kept # A!None => c.answer = "kept"
    BY CopyWays
  <2>3. c.lost \in BOOLEAN
    BY CopyWays
  <2>4. pc = "claim" /\ pc' \in {"claim", "teardown"} /\ UNCHANGED <<fds, uncertain, copies>>
    OBVIOUS
  <2>5. issues' = TRUE \/ (fds' = {} /\ vault' = {})
    <3>1. CASE issues = TRUE
      BY <2>1, <3>1
    <3>2. CASE c.answer \notin {"removed", "absent"}
      BY <2>1, <3>2
    <3>3. CASE issues # TRUE /\ c.answer \in {"removed", "absent"}
      BY <2>1, <2>2, <2>4, <3>3 DEF CopyInv, CopyClosing
    <3> QED
      BY <3>1, <3>2, <3>3
  <2>6. lost' = TRUE \/ \A v \in vault' : v[1] \in named'
    <3>1. CASE lost = TRUE \/ c.lost = TRUE
      BY <2>1, <3>1
    <3>2. CASE lost # TRUE /\ c.lost # TRUE
      <4>1. \A v \in vault : v[1] \in named
        BY <2>4, <3>2 DEF CopyInv, CopyClosing
      <4>2. CASE c.kept = A!None
        <5>1. vault' = vault /\ named \subseteq named'
          BY <2>1, <4>2
        <5> QED
          BY <4>1, <5>1
      <4>3. CASE c.kept # A!None
        <5>1. vault' = vault \cup {<<r, c.kept>>} /\ named' = named \cup {r}
          BY <2>1, <2>2, <3>2, <4>3
        <5> QED
          BY <4>1, <5>1
      <4> QED
        BY <4>2, <4>3
    <3> QED
      BY <3>1, <3>2
  <2> QED
    BY <2>1, <2>4, <2>5, <2>6 DEF CopyInv, CopyClosing
<1>12. CopyClosed'
  BY DEF CopyInv, CopyClosed, CopyClosing, A!CompleteIsClean, A!LeftIsNamed, CopyTyped,
         CopyFlagTypes
<1> QED
  BY <1>1, <1>2, <1>3, <1>4, <1>5, <1>6, <1>7, <1>8, <1>9, <1>10, <1>11, <1>12 DEF CopyInv,
         CopyTyped

\* TearDown keeps the invariant.
LEMMA CopyTearDownKeeps ==
  ASSUME A!ArtifactAssumption, CopyInv, A!TearDown, A!Observe
  PROVE  CopyInv'
<1> USE CopySizes DEF A!TearDown, A!Go
<1>1. CopyByteTypes'
  BY DEF CopyInv, CopyTyped, CopyByteTypes, CopyFileTypes, CopyPointTypes
<1>2. CopyFlagTypes'
  BY DEF CopyInv, CopyTyped, CopyFlagTypes, A!Observe
<1>3. CopyNameTypes'
  BY DEF CopyInv, CopyTyped, CopyNameTypes, CopyFileTypes, CopySealing
<1>4. CopyFileTypes'
  BY DEF CopyInv, CopyTyped, CopyFileTypes, CopyNameTypes
<1>5. CopyPointTypes'
  BY DEF CopyInv, CopyTyped, CopyPointTypes
<1>6. CopySealing'
  BY DEF CopyInv, CopySealing, CopyTyped, CopyFileTypes, CopyNameTypes
<1>7. CopyFreezing'
  BY DEF CopyInv, CopyFreezing, CopyTyped, CopyByteTypes
<1>8. CopyTracing'
  BY DEF CopyInv, CopyTracing, A!Observe, CopyTyped, CopyFlagTypes
<1>9. CopyChecking'
  BY DEF CopyInv, CopyChecking, CopyTyped, CopyByteTypes, CopySealing
<1>10. A!OthersKept'
  BY DEF CopyInv, A!OthersKept, CopyTyped, CopyNameTypes
<1>11. CopyClosing'
  BY DEF CopyInv, CopyClosing, CopySealing, CopyTyped, CopyFileTypes, CopyNameTypes,
         CopyFlagTypes
<1>12. CopyClosed'
  BY DEF CopyInv, CopyClosed, CopyClosing, A!CompleteIsClean, A!LeftIsNamed, CopyTyped,
         CopyFlagTypes
<1> QED
  BY <1>1, <1>2, <1>3, <1>4, <1>5, <1>6, <1>7, <1>8, <1>9, <1>10, <1>11, <1>12 DEF CopyInv,
         CopyTyped

\* FinishCleanup keeps the invariant.
LEMMA CopyFinishCleanupKeeps ==
  ASSUME A!ArtifactAssumption, CopyInv, A!FinishCleanup, A!Observe
  PROVE  CopyInv'
<1> USE CopySizes DEF A!FinishCleanup, A!Go
<1>1. CopyByteTypes'
  BY DEF CopyInv, CopyTyped, CopyByteTypes, CopyFileTypes, CopyPointTypes
<1>2. CopyFlagTypes'
  BY DEF CopyInv, CopyTyped, CopyFlagTypes, A!Observe
<1>3. CopyNameTypes'
  BY DEF CopyInv, CopyTyped, CopyNameTypes, CopyFileTypes, CopySealing
<1>4. CopyFileTypes'
  BY DEF CopyInv, CopyTyped, CopyFileTypes, CopyNameTypes
<1>5. CopyPointTypes'
  BY DEF CopyInv, CopyTyped, CopyPointTypes
<1>6. CopySealing'
  BY DEF CopyInv, CopySealing, CopyTyped, CopyFileTypes, CopyNameTypes
<1>7. CopyFreezing'
  BY DEF CopyInv, CopyFreezing, CopyTyped, CopyByteTypes
<1>8. CopyTracing'
  BY DEF CopyInv, CopyTracing, A!Observe, CopyTyped, CopyFlagTypes
<1>9. CopyChecking'
  BY DEF CopyInv, CopyChecking, CopyTyped, CopyByteTypes, CopySealing
<1>10. A!OthersKept'
  BY DEF CopyInv, A!OthersKept, CopyTyped, CopyNameTypes
<1>11. CopyClosing'
  BY DEF CopyInv, CopyClosing, CopySealing, CopyTyped, CopyFileTypes, CopyNameTypes,
         CopyFlagTypes
<1>12. CopyClosed'
  BY DEF CopyInv, CopyClosed, CopyClosing, A!CompleteIsClean, A!LeftIsNamed, CopyTyped,
         CopyFlagTypes
<1> QED
  BY <1>1, <1>2, <1>3, <1>4, <1>5, <1>6, <1>7, <1>8, <1>9, <1>10, <1>11, <1>12 DEF CopyInv,
         CopyTyped

\* OthersWriteSource keeps the invariant.
LEMMA CopyOthersWriteSourceKeeps ==
  ASSUME A!ArtifactAssumption, CopyInv, A!OthersWriteSource, A!Observe
  PROVE  CopyInv'
<1> USE CopySizes DEF A!OthersWriteSource, A!Move, A!SourceMatters
<1>1. CopyByteTypes'
  <2>1. source \in CopyBytes /\ Len(source) \in Nat /\ 0 \in 0 .. A!Foreign
    BY LenProperties DEF CopyInv, CopyTyped, CopyByteTypes
  <2>2. source' \in CopyBytes /\ \A i \in 1 .. Len(source') : source'[i] <= outside'
    <3>1. CASE \E i \in DOMAIN source : source' = [source EXCEPT ![i] = @ + 1]
      <4>1. PICK i \in 1 .. Len(source) : source' = [source EXCEPT ![i] = source[i] + 1]
        BY <2>1, <3>1, LenProperties
      <4>2. source[i] + 1 \in 0 .. A!Foreign
        BY CopySourceBytes DEF CopyInv, CopyTyped
      <4>3. source' \in CopyBytes /\ Len(source') = Len(source) /\ \A j \in 1 .. Len(source) : source'[j] = IF j = i THEN source[i] + 1 ELSE source[j]
        BY <2>1, <4>1, <4>2, ExceptSeq
      <4> QED
        BY <4>3, CopySourceBytes DEF CopyInv, CopyTyped
    <3>2. CASE source' = Append(source, 0)
      <4>1. source' \in CopyBytes /\ Len(source') = Len(source) + 1 /\ source'[Len(source) + 1] = 0
            /\ \A j \in 1 .. Len(source) : source'[j] = source[j]
        BY <2>1, <3>2, CopyExtended
      <4>2. outside' >= 0
        BY DEF CopyInv, CopyTyped, CopyPointTypes
      <4>3. \A j \in 1 .. Len(source') : j \in 1 .. Len(source) \/ j = Len(source) + 1
        BY <2>1, <4>1
      <4> QED
        BY <4>1, <4>2, <4>3, CopySourceBytes DEF CopyInv, CopyTyped
    <3>3. CASE source # <<>> /\ source' = SubSeq(source, 1, Len(source) - 1)
      <4>1. Len(source) \in Nat \ {0}
        BY <2>1, <3>3, EmptySeq
      <4>a. \A j \in 1 .. Len(source) - 1 : source[j] \in 0 .. A!Foreign
        BY <2>1, <4>1, CopyValues
      <4>b. SubSeq(source, 1, Len(source) - 1) \in Seq(0 .. A!Foreign)
        BY <4>1, <4>a, SubSeqProperties
      <4>c. Len(SubSeq(source, 1, Len(source) - 1)) = Len(source) - 1
        <5>1. Len(source) - 1 \in Int
          BY <4>1
        <5>2. Len(SubSeq(source, 1, Len(source) - 1)) = IF 1 <= Len(source) - 1 THEN Len(source) - 1 - 1 + 1 ELSE 0
          BY <4>a, <5>1, SubSeqProperties
        <5> DEFINE L == Len(source)
                   T == Len(SubSeq(source, 1, Len(source) - 1))
        <5>3. L \in Nat \ {0} /\ T = IF 1 <= L - 1 THEN L - 1 - 1 + 1 ELSE 0
          BY <4>1, <5>2
        <5> HIDE DEF L, T
        <5>4. T = L - 1
          BY <5>3
        <5> QED
          BY <5>4 DEF L, T
      <4>2. source' \in CopyBytes /\ Len(source') = Len(source) - 1
        BY <3>3, <4>b, <4>c
      <4>3. \A j \in 1 .. Len(source) - 1 : source'[j] = source[j]
        BY <2>1, <3>3, <4>1, SubSeqProperties
      <4> QED
        BY <2>1, <4>1, <4>2, <4>3, CopySourceBytes DEF CopyInv, CopyTyped
    <3> QED
      BY <3>1, <3>2, <3>3
  <2> QED
    BY <2>2 DEF CopyInv, CopyTyped, CopyByteTypes
<1>2. CopyFlagTypes'
  BY DEF CopyInv, CopyTyped, CopyFlagTypes, A!Observe
<1>3. CopyNameTypes'
  BY DEF CopyInv, CopyTyped, CopyNameTypes, CopyFileTypes, CopySealing
<1>4. CopyFileTypes'
  BY DEF CopyInv, CopyTyped, CopyFileTypes, CopyNameTypes
<1>5. CopyPointTypes'
  BY DEF CopyInv, CopyTyped, CopyPointTypes
<1>6. CopySealing'
  BY DEF CopyInv, CopySealing, CopyTyped, CopyFileTypes, CopyNameTypes
<1>7. CopyFreezing'
  BY DEF CopyInv, CopyFreezing, CopyTyped, CopyByteTypes
<1>8. CopyTracing'
  BY DEF CopyInv, CopyTracing, A!Observe, CopyTyped, CopyFlagTypes
<1>9. CopyChecking'
  BY DEF CopyInv, CopyChecking, CopyTyped, CopyByteTypes, CopySealing
<1>10. A!OthersKept'
  BY DEF CopyInv, A!OthersKept, CopyTyped, CopyNameTypes
<1>11. CopyClosing'
  BY DEF CopyInv, CopyClosing, CopySealing, CopyTyped, CopyFileTypes, CopyNameTypes,
         CopyFlagTypes
<1>12. CopyClosed'
  BY DEF CopyInv, CopyClosed, CopyClosing, A!CompleteIsClean, A!LeftIsNamed, CopyTyped,
         CopyFlagTypes
<1> QED
  BY <1>1, <1>2, <1>3, <1>4, <1>5, <1>6, <1>7, <1>8, <1>9, <1>10, <1>11, <1>12 DEF CopyInv,
         CopyTyped

\* OthersLeadElsewhere keeps the invariant.
LEMMA CopyOthersLeadElsewhereKeeps ==
  ASSUME A!ArtifactAssumption, CopyInv, A!OthersLeadElsewhere, A!Observe
  PROVE  CopyInv'
<1> USE CopySizes DEF A!OthersLeadElsewhere, A!Move, A!SourceMatters
<1>1. CopyByteTypes'
  BY CopySourceBytes DEF CopyInv, CopyTyped, CopyByteTypes, CopyFileTypes, CopyPointTypes
<1>2. CopyFlagTypes'
  BY DEF CopyInv, CopyTyped, CopyFlagTypes, A!Observe
<1>3. CopyNameTypes'
  BY DEF CopyInv, CopyTyped, CopyNameTypes, CopyFileTypes, CopySealing
<1>4. CopyFileTypes'
  BY DEF CopyInv, CopyTyped, CopyFileTypes, CopyNameTypes
<1>5. CopyPointTypes'
  BY DEF CopyInv, CopyTyped, CopyPointTypes
<1>6. CopySealing'
  BY DEF CopyInv, CopySealing, CopyTyped, CopyFileTypes, CopyNameTypes
<1>7. CopyFreezing'
  BY DEF CopyInv, CopyFreezing, CopyTyped, CopyByteTypes
<1>8. CopyTracing'
  BY DEF CopyInv, CopyTracing, A!Observe, CopyTyped, CopyFlagTypes
<1>9. CopyChecking'
  BY DEF CopyInv, CopyChecking, CopyTyped, CopyByteTypes, CopySealing
<1>10. A!OthersKept'
  BY DEF CopyInv, A!OthersKept, CopyTyped, CopyNameTypes
<1>11. CopyClosing'
  BY DEF CopyInv, CopyClosing, CopySealing, CopyTyped, CopyFileTypes, CopyNameTypes,
         CopyFlagTypes
<1>12. CopyClosed'
  BY DEF CopyInv, CopyClosed, CopyClosing, A!CompleteIsClean, A!LeftIsNamed, CopyTyped,
         CopyFlagTypes
<1> QED
  BY <1>1, <1>2, <1>3, <1>4, <1>5, <1>6, <1>7, <1>8, <1>9, <1>10, <1>11, <1>12 DEF CopyInv,
         CopyTyped

\* OthersEditCopy keeps the invariant.
LEMMA CopyOthersEditCopyKeeps ==
  ASSUME A!ArtifactAssumption, CopyInv, A!OthersEditCopy, A!Observe
  PROVE  CopyInv'
<1> USE CopySizes DEF A!OthersEditCopy, A!Move
<1>1. CopyByteTypes'
  <2>a. PICK r \in Roles : \E i \in DOMAIN copy[r] : copy' = [copy EXCEPT ![r] = [copy[r] EXCEPT ![i] = A!Foreign]]
    OBVIOUS
  <2>1. PICK i \in DOMAIN copy[r] : copy' = [copy EXCEPT ![r] = [copy[r] EXCEPT ![i] = A!Foreign]]
    BY <2>a
  <2>2. copy[r] \in CopyBytes /\ A!Foreign \in 0 .. A!Foreign
    BY DEF CopyInv, CopyTyped, CopyByteTypes
  <2>3. [copy[r] EXCEPT ![i] = A!Foreign] \in CopyBytes
    BY <2>2, ExceptSeq
  <2>4. copy' \in [Roles -> CopyBytes]
    BY <2>1, <2>3 DEF CopyInv, CopyTyped, CopyByteTypes
  <2> QED
    BY <2>4, CopySourceBytes DEF CopyInv, CopyTyped, CopyByteTypes
<1>2. CopyFlagTypes'
  BY DEF CopyInv, CopyTyped, CopyFlagTypes, A!Observe
<1>3. CopyNameTypes'
  BY DEF CopyInv, CopyTyped, CopyNameTypes, CopyFileTypes, CopySealing
<1>4. CopyFileTypes'
  BY DEF CopyInv, CopyTyped, CopyFileTypes, CopyNameTypes
<1>5. CopyPointTypes'
  BY DEF CopyInv, CopyTyped, CopyPointTypes
<1>6. CopySealing'
  BY DEF CopyInv, CopySealing, CopyTyped, CopyFileTypes, CopyNameTypes
<1>7. CopyFreezing'
  BY DEF CopyInv, CopyFreezing, CopyTyped, CopyByteTypes
<1>8. CopyTracing'
  BY DEF CopyInv, CopyTracing, A!Observe, CopyTyped, CopyFlagTypes
<1>9. CopyChecking'
  <2>a. PICK r \in Roles : \E i \in DOMAIN copy[r] :
           /\ copy' = [copy EXCEPT ![r] = [copy[r] EXCEPT ![i] = A!Foreign]]
           /\ since' = IF r = role THEN since \cup {"copy"} ELSE since
    OBVIOUS
  <2>1. PICK i \in DOMAIN copy[r] :
           /\ copy' = [copy EXCEPT ![r] = [copy[r] EXCEPT ![i] = A!Foreign]]
           /\ since' = IF r = role THEN since \cup {"copy"} ELSE since
    BY <2>a
  <2>2. copy \in [Roles -> CopyBytes] /\ copy[r] \in CopyBytes /\ A!Foreign \in 0 .. A!Foreign
    <3>1. copy \in [Roles -> CopyBytes] /\ A!Foreign \in Nat
      BY DEF CopyInv, CopyTyped, CopyByteTypes
    <3> QED
      BY <3>1
  <2>3. Len([copy[r] EXCEPT ![i] = A!Foreign]) = Len(copy[r])
    BY <2>2, ExceptSeq
  <2>4. \A q \in Roles : Len(copy'[q]) = Len(copy[q]) /\ (q # r => copy'[q] = copy[q])
    BY <2>1, <2>2, <2>3
  <2>5. pc \in {"verify", "compare"} => role \in Roles
    BY DEF CopyInv, CopySealing
  <2>6. "copy" \in since' \/ (since' = since /\ r # role)
    BY <2>1
  <2>7. UNCHANGED <<pc, role, sha, got>>
    OBVIOUS
  <2> QED
    BY <2>4, <2>5, <2>6, <2>7 DEF CopyInv, CopyChecking
<1>10. A!OthersKept'
  BY DEF CopyInv, A!OthersKept, CopyTyped, CopyNameTypes
<1>11. CopyClosing'
  BY DEF CopyInv, CopyClosing, CopySealing, CopyTyped, CopyFileTypes, CopyNameTypes,
         CopyFlagTypes
<1>12. CopyClosed'
  BY DEF CopyInv, CopyClosed, CopyClosing, A!CompleteIsClean, A!LeftIsNamed, CopyTyped,
         CopyFlagTypes
<1> QED
  BY <1>1, <1>2, <1>3, <1>4, <1>5, <1>6, <1>7, <1>8, <1>9, <1>10, <1>11, <1>12 DEF CopyInv,
         CopyTyped

\* OthersReplaceLeaf keeps the invariant.
LEMMA CopyOthersReplaceLeafKeeps ==
  ASSUME A!ArtifactAssumption, CopyInv, A!OthersReplaceLeaf, A!Observe
  PROVE  CopyInv'
<1> USE CopySizes DEF A!OthersReplaceLeaf, A!Move
<1>1. CopyByteTypes'
  BY CopySourceBytes DEF CopyInv, CopyTyped, CopyByteTypes, CopyFileTypes, CopyPointTypes
<1>2. CopyFlagTypes'
  BY DEF CopyInv, CopyTyped, CopyFlagTypes, A!Observe
<1>3. CopyNameTypes'
  BY DEF CopyInv, CopyTyped, CopyNameTypes, CopyFileTypes, CopySealing
<1>4. CopyFileTypes'
  BY DEF CopyInv, CopyTyped, CopyFileTypes, CopyNameTypes
<1>5. CopyPointTypes'
  BY DEF CopyInv, CopyTyped, CopyPointTypes
<1>6. CopySealing'
  BY DEF CopyInv, CopySealing, CopyTyped, CopyFileTypes, CopyNameTypes
<1>7. CopyFreezing'
  BY DEF CopyInv, CopyFreezing, CopyTyped, CopyByteTypes
<1>8. CopyTracing'
  BY DEF CopyInv, CopyTracing, A!Observe, CopyTyped, CopyFlagTypes
<1>9. CopyChecking'
  BY DEF CopyInv, CopyChecking, CopyTyped, CopyByteTypes, CopySealing
<1>10. A!OthersKept'
  <2>1. PICK r \in Roles :
           \/ name' = [name EXCEPT ![r] = "other"] /\ placed' = placed \cup {r}
           \/ name' = [name EXCEPT ![r] = A!None] /\ placed' = placed \ {r}
    OBVIOUS
  <2>2. name \in [Roles -> {"ours", "other", A!None}] /\ placed \subseteq Roles /\ vault' = vault
    BY DEF CopyInv, CopyTyped, CopyNameTypes
  <2>3. \A q \in Roles : q # r => name'[q] = name[q] /\ (q \in placed' <=> q \in placed)
    BY <2>1, <2>2
  <2>4. r \in placed' => name'[r] = "other"
    BY <2>1, <2>2
  <2>5. placed' \subseteq Roles
    BY <2>1, <2>2
  <2> QED
    BY <2>2, <2>3, <2>4, <2>5 DEF CopyInv, A!OthersKept
<1>11. CopyClosing'
  BY DEF CopyInv, CopyClosing, CopySealing, CopyTyped, CopyFileTypes, CopyNameTypes,
         CopyFlagTypes
<1>12. CopyClosed'
  BY DEF CopyInv, CopyClosed, CopyClosing, A!CompleteIsClean, A!LeftIsNamed, CopyTyped,
         CopyFlagTypes
<1> QED
  BY <1>1, <1>2, <1>3, <1>4, <1>5, <1>6, <1>7, <1>8, <1>9, <1>10, <1>11, <1>12 DEF CopyInv,
         CopyTyped

\* OthersMoveDirectories keeps the invariant.
LEMMA CopyOthersMoveDirectoriesKeeps ==
  ASSUME A!ArtifactAssumption, CopyInv, A!OthersMoveDirectories, A!Observe
  PROVE  CopyInv'
<1> USE CopySizes DEF A!OthersMoveDirectories, A!Move
<1>1. CopyByteTypes'
  BY CopySourceBytes DEF CopyInv, CopyTyped, CopyByteTypes, CopyFileTypes, CopyPointTypes
<1>2. CopyFlagTypes'
  BY DEF CopyInv, CopyTyped, CopyFlagTypes, A!Observe
<1>3. CopyNameTypes'
  BY DEF CopyInv, CopyTyped, CopyNameTypes, CopyFileTypes, CopySealing
<1>4. CopyFileTypes'
  BY DEF CopyInv, CopyTyped, CopyFileTypes, CopyNameTypes
<1>5. CopyPointTypes'
  BY DEF CopyInv, CopyTyped, CopyPointTypes
<1>6. CopySealing'
  BY DEF CopyInv, CopySealing, CopyTyped, CopyFileTypes, CopyNameTypes
<1>7. CopyFreezing'
  BY DEF CopyInv, CopyFreezing, CopyTyped, CopyByteTypes
<1>8. CopyTracing'
  BY DEF CopyInv, CopyTracing, A!Observe, CopyTyped, CopyFlagTypes
<1>9. CopyChecking'
  BY DEF CopyInv, CopyChecking, CopyTyped, CopyByteTypes, CopySealing
<1>10. A!OthersKept'
  BY DEF CopyInv, A!OthersKept, CopyTyped, CopyNameTypes
<1>11. CopyClosing'
  BY DEF CopyInv, CopyClosing, CopySealing, CopyTyped, CopyFileTypes, CopyNameTypes,
         CopyFlagTypes
<1>12. CopyClosed'
  BY DEF CopyInv, CopyClosed, CopyClosing, A!CompleteIsClean, A!LeftIsNamed, CopyTyped,
         CopyFlagTypes
<1> QED
  BY <1>1, <1>2, <1>3, <1>4, <1>5, <1>6, <1>7, <1>8, <1>9, <1>10, <1>11, <1>12 DEF CopyInv,
         CopyTyped

\* The invariant holds before the snapshot is made.
LEMMA CopyInitially ==
  ASSUME A!ArtifactAssumption, A!Init
  PROVE  CopyInv
<1> USE CopySizes DEF A!Init
<1>1. CopyByteTypes
  <2>1. PICK n \in 1 .. MaxChunks + 1 : source = [i \in 1 .. n |-> 0]
    OBVIOUS
  <2>2. n \in Nat /\ 0 \in 0 .. A!Foreign
    BY <2>1
  <2>3. source \in CopyBytes /\ Len(source) = n
    BY <2>1, <2>2, IsASeq
  <2>4. <<>> \in CopyBytes
    BY EmptySeq
  <2>5. \A i \in 1 .. Len(source) : source[i] <= outside
    BY <2>1, <2>3
  <2> QED
    BY <2>3, <2>4, <2>5 DEF CopyByteTypes
<1>2. CopyFlagTypes /\ CopyNameTypes /\ CopyFileTypes /\ CopyPointTypes
  <2>1. CopyFlagTypes /\ CopyNameTypes
    BY DEF CopyFlagTypes, CopyNameTypes
  <2>2. CopyFileTypes
    BY DEF CopyFileTypes
  <2>3. CopyPointTypes
    BY DEF CopyPointTypes
  <2> QED
    BY <2>1, <2>2, <2>3
<1>3. CopySealing /\ CopyTracing /\ CopyChecking /\ CopyClosing
  BY DEF CopySealing, CopyTracing, CopyChecking, CopyClosing
<1>4. CopyFreezing /\ A!OthersKept /\ CopyClosed
  BY DEF CopyFreezing, A!OthersKept, CopyClosed, A!CompleteIsClean, A!LeftIsNamed
<1> QED
  BY <1>1, <1>2, <1>3, <1>4 DEF CopyInv, CopyTyped

\* A step of others keeps the invariant.
LEMMA CopyStutters == ASSUME CopyInv, UNCHANGED A!vars PROVE CopyInv'
<1> USE DEF A!vars
<1>1. CopyByteTypes' /\ CopyFlagTypes' /\ CopyNameTypes' /\ CopyFileTypes' /\ CopyPointTypes'
  BY DEF CopyInv, CopyTyped, CopyByteTypes, CopyFlagTypes, CopyNameTypes, CopyFileTypes,
         CopyPointTypes
<1>2. CopySealing' /\ CopyTracing' /\ CopyChecking' /\ CopyClosing'
  BY DEF CopyInv, CopySealing, CopyTracing, CopyChecking, CopyClosing
<1>3. CopyFreezing' /\ A!OthersKept' /\ CopyClosed'
  BY DEF CopyInv, CopyFreezing, A!OthersKept, CopyClosed, A!CompleteIsClean, A!LeftIsNamed
<1> QED
  BY <1>1, <1>2, <1>3 DEF CopyInv, CopyTyped

\* Every step keeps the invariant.
LEMMA CopySteps ==
  ASSUME A!ArtifactAssumption, CopyInv, [A!Next]_(A!vars)
  PROVE  CopyInv'
<1>1. CASE UNCHANGED A!vars \/ A!Stop
  BY <1>1, CopyStutters DEF A!Stop
<1>2. CASE A!Capture /\ A!Observe
  BY <1>2, CopyCreatePrivateRootKeeps, CopyOpenSourceKeeps, CopyCreateOutputDescriptorsKeeps, CopyReadChunkKeeps,
     CopyCheckGrowthKeeps, CopyCheckDriftKeeps, CopyCheckPathKeeps, CopyFinishOutputKeeps, CopyRegisterCopyKeeps DEF A!Capture
<1>3. CASE (A!Verify \/ A!Use \/ A!Close) /\ A!Observe
  BY <1>3, CopyVerifyRootKeeps, CopyOpenCopyKeeps, CopyVerifyChunkKeeps, CopyCompareCopyKeeps, CopyUseKeeps, CopyCloseKeeps DEF A!Verify
<1>4. CASE A!CleanUp /\ A!Observe
  BY <1>4, CopyCheckBindingKeeps, CopyChooseTargetsKeeps, CopyCloseDescriptorsKeeps, CopyRemoveCopyKeeps, CopyTearDownKeeps,
     CopyFinishCleanupKeeps DEF A!CleanUp
<1>5. CASE A!Others /\ A!Observe
  BY <1>5, CopyOthersWriteSourceKeeps, CopyOthersLeadElsewhereKeeps, CopyOthersEditCopyKeeps, CopyOthersReplaceLeafKeeps,
     CopyOthersMoveDirectoriesKeeps DEF A!Others
<1> QED
  BY <1>1, <1>2, <1>3, <1>4, <1>5 DEF A!Next

\* What the invariant says of a frozen copy, of files of others and of a cleanup.
LEMMA CopyPromises ==
  ASSUME CopyInv
  PROVE  A!FrozenIsPublic /\ A!NothingCanWrite /\ A!OthersKept /\ A!CompleteIsClean /\ A!LeftIsNamed
<1>1. A!FrozenIsPublic
  BY DEF CopyInv, CopyFreezing, CopyTracing, A!FrozenIsPublic
<1>2. A!NothingCanWrite
  BY DEF CopyInv, CopySealing, A!NothingCanWrite, A!Writers
<1> QED
  BY <1>1, <1>2 DEF CopyInv, CopyClosed

\* The types are those the run checks.
LEMMA CopyTypesMeant == CopyInv => A!TypeOK
<1> SUFFICES ASSUME CopyInv PROVE A!TypeOK
  OBVIOUS
<1>1. A!IsContent(source) /\ A!IsContent(got) /\ A!IsContent(sha) /\ A!IsContent(opened)
  BY DEF CopyInv, CopyTyped, CopyByteTypes, A!IsContent
<1>2. \A r \in Roles : A!IsContent(copy[r]) /\ (target[r] = A!NoTarget \/ A!IsContent(target[r]))
  BY DEF CopyInv, CopyTyped, CopyByteTypes, A!IsContent
<1>3. {leads, root, rooted, arena, permitted, issues, lost, raised, led} \subseteq BOOLEAN
  BY DEF CopyInv, CopyTyped, CopyFlagTypes
<1>4. \A group \in {todo, copies, pending, uncertain, placed} : group \subseteq Roles
  BY DEF CopyInv, CopyTyped, CopyNameTypes, CopyFileTypes
<1>5. pc \in {"root", "open", "make", "read", "extra", "stat", "path", "finish", "look",
               "leaf", "verify", "compare", "register", "ready", "bind", "target", "close",
               "claim", "teardown", "anchor", "closed"}
  BY DEF CopyInv, CopyTyped, CopyPointTypes
<1>6. /\ since \subseteq {"source", "link", "copy"}
      /\ name \in [Roles -> {"ours", "other", A!None}]
      /\ vault \subseteq Roles \X {"ours", "edited", "other"}
      /\ fds \subseteq {"owner", "sealed", "writer", "reader"} \X Roles
      /\ role \in Roles \cup {A!None} /\ size \in 0 .. MaxChunks /\ named \subseteq {"root"} \cup Roles
  BY DEF CopyInv, CopyTyped, CopyNameTypes, CopyFileTypes, CopyByteTypes
<1>7. /\ status \in {"open", "complete", "recovery_required", "unaddressable"}
      /\ used \in {"none", "ok", "refused"}
      /\ uses \in 0 .. MaxUses /\ outside \in 0 .. MaxOutside
  BY DEF CopyInv, CopyTyped, CopyPointTypes
<1> QED
  BY <1>1, <1>2, <1>3, <1>4, <1>5, <1>6, <1>7 DEF A!TypeOK

\* A use is answered only when all recorded bytes were read back and the descriptor that can
\* write the copy is closed.
LEMMA CopyFrozenUses == ASSUME CopyInv, [A!Next]_(A!vars) PROVE A!UsesAreFrozen
<1> SUFFICES ASSUME used # "ok", used' = "ok" PROVE copy[role] = sha
  BY DEF A!UsesAreFrozen
<1>1. A!CompareCopy /\ A!InUse
  <2>1. A!Next /\ ~A!Stop
    BY DEF A!vars, A!Stop
  <2>2. ~A!Capture
    BY DEF A!Capture, A!CreatePrivateRoot, A!OpenSource, A!CreateOutputDescriptors,
           A!ReadChunk, A!CheckGrowth,
       A!CheckDrift, A!CheckPath, A!FinishOutput, A!RegisterCopy
  <2>3. ~A!CleanUp /\ ~A!Close /\ ~A!Use
    BY DEF A!CleanUp, A!Close, A!Use, A!CheckBinding, A!ChooseTargets, A!CloseDescriptors,
           A!RemoveCopy, A!TearDown,
       A!FinishCleanup
  <2>4. ~A!Others
    BY DEF A!Others, A!OthersWriteSource, A!OthersLeadElsewhere, A!OthersEditCopy,
           A!OthersReplaceLeaf,
       A!OthersMoveDirectories, A!Move
  <2>5. A!Verify
    BY <2>1, <2>2, <2>3, <2>4 DEF A!Next
  <2> QED
    BY <2>5 DEF A!Verify, A!VerifyRoot, A!OpenCopy, A!VerifyChunk, A!CompareCopy,
           A!VerificationFails
<1>2. pc = "compare" /\ "copy" \notin since /\ got = sha
  BY <1>1 DEF A!CompareCopy, A!CopyIsFrozen, A!VerificationFails
<1>3. role \in Roles /\ copy[role] \in CopyBytes /\ sha \in CopyBytes
  BY <1>2 DEF CopyInv, CopyTyped, CopyByteTypes, CopySealing
<1>4. Len(copy[role]) = Len(sha) /\ \A i \in 1 .. Len(sha) : sha[i] = copy[role][i]
  BY <1>2 DEF CopyInv, CopyChecking
<1> QED
  BY <1>3, <1>4, CopySameBytes

\* No step takes a file from the uncertain ones.
LEMMA CopyUncertainKept == ASSUME CopyInv, [A!Next]_(A!vars) PROVE A!UncertainStays
<1> SUFFICES ASSUME NEW r \in Roles, name[r] = "ours", name'[r] = A!None, outside' = outside
             PROVE  \A f \in fds : f[2] # r
  BY DEF A!UncertainStays
<1>a. A!None # "ours" /\ outside \in Nat /\ name \in [Roles -> {"ours", "other", A!None}]
  BY DEF A!None, CopyInv, CopyTyped, CopyNameTypes, CopyPointTypes
<1>1. A!RemoveCopy
  <2>1. A!Next /\ ~A!Stop
    BY <1>a DEF A!vars, A!Stop
  <2>2. ~A!Capture
    BY <1>a DEF A!Capture, A!CreatePrivateRoot, A!OpenSource, A!CreateOutputDescriptors,
           A!ReadChunk, A!CheckGrowth,
       A!CheckDrift, A!CheckPath, A!FinishOutput, A!RegisterCopy
  <2>3. ~A!Verify /\ ~A!Close /\ ~A!Use
    BY <1>a DEF A!Verify, A!VerifyRoot, A!OpenCopy, A!VerifyChunk, A!CompareCopy, A!Use, A!Close
  <2>4. ~A!Others
    BY <1>a DEF A!Others, A!OthersWriteSource, A!OthersLeadElsewhere, A!OthersEditCopy,
           A!OthersReplaceLeaf,
       A!OthersMoveDirectories, A!Move
  <2>5. A!CleanUp
    BY <2>1, <2>2, <2>3, <2>4 DEF A!Next
  <2> QED
    BY <1>a, <2>5 DEF A!CleanUp, A!CheckBinding, A!ChooseTargets, A!CloseDescriptors,
           A!TearDown, A!FinishCleanup
<1>2. PICK q \in todo : \E c \in A!Removal("ours", A!Seen(q)) : name' = [name EXCEPT ![q] = IF A!Seen(q) = "edited" /\ c.name # A!None THEN name[q] ELSE c.name]
  BY <1>1, CopyRemovesOne
<1>3. r = q
  BY <1>a, <1>2
<1> QED
  BY <1>1, <1>2, <1>3 DEF CopyInv, CopyClosing, A!RemoveCopy

HIDE DEF A!sources, A!inside, A!reading, A!records, A!faults, A!ends, A!history, CopyEarly,
       CopyReading, CopyVerifying, CopyRecorded, CopyCleaning, CopyRemoving, CopyBytes

-----------------------------------------------------------------------------
(* The answers of Git: each is true of the moment its command was run at,  *)
(* and the end of the first round lies between the two runs of each.       *)

\* What a repository, a moment of its past and an answer are.
GitLetters == {" ", "A", "D", "M"}
GitLetterings == SUBSET (GitPaths \X GitLetters \X GitLetters)
GitRepositories ==
    [marker : {G!Absent, G!Original, 2}, branch : Branches, index : G!Trees, work : G!Trees,
     tree : Seq(G!Trees), tip : [Branches -> Nat]]
\* Every branch leads to a commit that there is.
GitSound(r) == r \in GitRepositories /\ \A b \in Branches : r.tip[b] \in 1 .. Len(r.tree)

GitMoments ==
    [revision : Nat, branch : Branches, status : GitLetterings, index : G!Trees, listed : SUBSET GitPaths,
     deleted : SUBSET GitPaths, marker : {G!Absent, G!Original, 2}, tree : G!Trees, work : G!Trees]
GitReplies == Nat \cup Branches \cup GitLetterings \cup G!Trees \cup SUBSET GitPaths

GitQuestions == {"file set", "identity", "publication"}
\* The command of the question that is next, and how many there are.
GitCommand(i) == G!Commands(question)[i]
GitAll == Len(G!Commands(question))

GitTypes ==
    /\ GitSound(repo) /\ past \in Seq(GitMoments) /\ question \in GitQuestions
    /\ phase \in {"open", "ask", "done"} /\ between \in {"before", "run", "after", "judge"}
    /\ result \in {"none", "ok", "error", "changed", "archive"}
    /\ step \in 0 .. GitAll - 1 /\ answers \in Seq(GitReplies) /\ output \in Seq(GitReplies) /\ asked \in Seq(Nat)

\* The past: every moment is of a revision that still has that tree, and a clean one had it
\* in the index and in the worktree too.
GitRecorded ==
    /\ Len(past) >= 1 /\ past[Len(past)] = G!Moment(repo)
    /\ \A i \in 1 .. Len(past) :
         /\ past[i].revision \in 1 .. Len(repo.tree) /\ past[i].tree = repo.tree[past[i].revision]
         /\ past[i].status = {} => past[i].index = past[i].tree /\ past[i].work = past[i].tree

\* Every command was run at a moment of the past, each after the one before.
GitTimed == /\ \A i \in 1 .. Len(asked) : asked[i] \in 1 .. Len(past)
            /\ \A i, j \in 1 .. Len(asked) : i <= j => asked[i] <= asked[j]

\* The answer to command i was true at the moment it was run.
GitSaid(i, v) ==
       /\ GitCommand(i) = "deleted" => v = past[asked[i]].deleted
       /\ GitCommand(i) = "listed" => v = past[asked[i]].listed
       /\ GitCommand(i) \in {"revision", "commit"} => v = past[asked[i]].revision
       /\ GitCommand(i) = "branch" => v = past[asked[i]].branch
       /\ GitCommand(i) \in {"status", "clean"} => v = past[asked[i]].status
       /\ GitCommand(i) = "index" => v = past[asked[i]].index
       /\ GitCommand(i) = "tree" => /\ answers[i - 2] \in 1 .. Len(repo.tree)
                                    /\ v = repo.tree[answers[i - 2]]
GitTold == /\ \A i \in 1 .. Len(answers) : GitSaid(i, answers[i])
           /\ phase = "ask" /\ between \in {"after", "judge"} => GitSaid(step + 1, output[1])

\* How far the question is.
GitProgress ==
    /\ phase = "open" => between = "before" /\ step = 0 /\ answers = << >> /\ asked = << >>
    /\ phase # "done" => Len(answers) = step /\ result = "none"
    /\ phase # "done" /\ between \in {"before", "run"} => Len(asked) = step
    /\ phase # "done" /\ between \in {"after", "judge"} => Len(asked) = step + 1 /\ Len(output) = 1
    /\ Len(answers) <= Len(asked) /\ Len(asked) <= GitAll
    /\ result = "ok" => /\ Len(answers) = GitAll /\ Len(asked) = GitAll /\ G!RoundsAgree(answers)

\* No commit of an unborn branch and no dirty worktree goes through.
GitAccepting ==
    phase = "ask" \/ result = "ok" =>
      \A i \in 1 .. Len(answers) : /\ GitCommand(i) = "commit" => answers[i] # 1
                                   /\ GitCommand(i) = "clean" => answers[i] = {}

GitMarkedIn(from, to) == \E t \in from .. to : past[t].marker = marker
\* The marker was seen between any two commands.
GitWatched ==
    /\ \A j \in 1 .. Len(asked) - 1 : GitMarkedIn(asked[j], asked[j + 1])
    /\ phase = "ask" /\ between # "after" /\ Len(asked) >= 1 => GitMarkedIn(asked[Len(asked)], Len(past))

GitInv == GitTypes /\ GitRecorded /\ GitTimed /\ GitTold /\ GitProgress /\ GitAccepting /\ GitWatched

\* The words of the commands.
GitWords == {"deleted", "listed", "revision", "branch", "status", "index", "commit", "clean", "tree"}

\* The commands of a question.
LEMMA GitAsked ==
  ASSUME NEW q \in GitQuestions
  PROVE  /\ G!Commands(q) \in Seq(GitWords)
         /\ q = "file set" => /\ Len(G!Commands(q)) = 4
                              /\ G!Commands(q)[1] = "deleted" /\ G!Commands(q)[2] = "listed"
                              /\ G!Commands(q)[3] = "deleted" /\ G!Commands(q)[4] = "listed"
         /\ q = "identity" =>
              /\ Len(G!Commands(q)) = 8
              /\ G!Commands(q)[1] = "revision" /\ G!Commands(q)[2] = "branch"
              /\ G!Commands(q)[3] = "status" /\ G!Commands(q)[4] = "index"
              /\ G!Commands(q)[5] = "revision" /\ G!Commands(q)[6] = "branch"
              /\ G!Commands(q)[7] = "status" /\ G!Commands(q)[8] = "index"
         /\ q = "publication" =>
              /\ Len(G!Commands(q)) = 6
              /\ G!Commands(q)[1] = "commit" /\ G!Commands(q)[2] = "clean" /\ G!Commands(q)[3] = "tree"
              /\ G!Commands(q)[4] = "commit" /\ G!Commands(q)[5] = "clean" /\ G!Commands(q)[6] = "tree"
<1> DEFINE r == G!Round(q)
<1>1. /\ q = "file set" => r = <<"deleted", "listed">>
      /\ q = "identity" => r = <<"revision", "branch", "status", "index">>
      /\ q = "publication" => r = <<"commit", "clean", "tree">>
  BY DEF G!Round
<1>2. G!Commands(q) = r \o r
  BY DEF G!Commands
<1> HIDE DEF r
<1>3. r \in Seq(GitWords)
  <2>1. /\ <<"deleted", "listed">> \in Seq(GitWords)
        /\ <<"revision", "branch", "status", "index">> \in Seq(GitWords)
        /\ <<"commit", "clean", "tree">> \in Seq(GitWords)
    BY DEF GitWords
  <2> QED
    BY <1>1, <2>1 DEF GitQuestions
<1>4. /\ q = "file set" => Len(r) = 2 /\ r[1] = "deleted" /\ r[2] = "listed"
      /\ q = "identity" => /\ Len(r) = 4 /\ r[1] = "revision" /\ r[2] = "branch"
                           /\ r[3] = "status" /\ r[4] = "index"
      /\ q = "publication" => /\ Len(r) = 3 /\ r[1] = "commit" /\ r[2] = "clean" /\ r[3] = "tree"
  <2>1. CASE q = "file set"
    <3>1. r = <<"deleted", "listed">>
      BY <1>1, <2>1
    <3>2. Len(r) = 2 /\ r[1] = "deleted" /\ r[2] = "listed"
      BY <3>1
    <3> QED
      BY <2>1, <3>2
  <2>2. CASE q = "identity"
    BY <1>1, <2>2
  <2>3. CASE q = "publication"
    BY <1>1, <2>3
  <2> QED
    BY <2>1, <2>2, <2>3 DEF GitQuestions
<1>5. /\ r \o r \in Seq(GitWords) /\ Len(r \o r) = Len(r) + Len(r)
      /\ \A i \in 1 .. Len(r) + Len(r) :
           (r \o r)[i] = IF i <= Len(r) THEN r[i] ELSE r[i - Len(r)]
  BY <1>3, ConcatProperties
<1> DEFINE c == r \o r
<1>6. c \in Seq(GitWords) /\ Len(c) = Len(r) + Len(r)
      /\ \A i \in 1 .. Len(r) + Len(r) : c[i] = IF i <= Len(r) THEN r[i] ELSE r[i - Len(r)]
  BY <1>5
<1>7. G!Commands(q) = c
  BY <1>2
<1> HIDE DEF c
<1>8. CASE q = "file set"
  <2>1. Len(r) = 2 /\ r[1] = "deleted" /\ r[2] = "listed"
    BY <1>4, <1>8
  <2>2. Len(c) = 4 /\ c[1] = r[1] /\ c[2] = r[2] /\ c[3] = r[1] /\ c[4] = r[2]
    BY <1>6, <2>1
  <2> QED
    BY <1>6, <1>7, <1>8, <2>1, <2>2
<1>9. CASE q = "identity"
  <2>1. Len(r) = 4 /\ r[1] = "revision" /\ r[2] = "branch" /\ r[3] = "status" /\ r[4] = "index"
    BY <1>4, <1>9
  <2>2. /\ Len(c) = 8 /\ c[1] = r[1] /\ c[2] = r[2] /\ c[3] = r[3] /\ c[4] = r[4]
        /\ c[5] = r[1] /\ c[6] = r[2] /\ c[7] = r[3] /\ c[8] = r[4]
    BY <1>6, <2>1
  <2> QED
    BY <1>6, <1>7, <1>9, <2>1, <2>2
<1>10. CASE q = "publication"
  <2>1. Len(r) = 3 /\ r[1] = "commit" /\ r[2] = "clean" /\ r[3] = "tree"
    BY <1>4, <1>10
  <2>2. /\ Len(c) = 6 /\ c[1] = r[1] /\ c[2] = r[2] /\ c[3] = r[3]
        /\ c[4] = r[1] /\ c[5] = r[2] /\ c[6] = r[3]
    BY <1>6, <2>1
  <2> QED
    BY <1>6, <1>7, <1>10, <2>1, <2>2
<1> QED
  BY <1>8, <1>9, <1>10 DEF GitQuestions

\* The commands of the question that is asked; a tree is asked for after a commit only.
LEMMA GitListing ==
  ASSUME question \in GitQuestions
  PROVE  /\ G!Commands(question) \in Seq(GitWords)
         /\ question = "file set" =>
              /\ GitAll = 4 /\ GitCommand(1) = "deleted" /\ GitCommand(2) = "listed"
              /\ GitCommand(3) = "deleted" /\ GitCommand(4) = "listed"
         /\ question = "identity" =>
              /\ GitAll = 8 /\ GitCommand(1) = "revision" /\ GitCommand(2) = "branch"
              /\ GitCommand(3) = "status" /\ GitCommand(4) = "index"
              /\ GitCommand(5) = "revision" /\ GitCommand(6) = "branch"
              /\ GitCommand(7) = "status" /\ GitCommand(8) = "index"
         /\ question = "publication" =>
              /\ GitAll = 6 /\ GitCommand(1) = "commit" /\ GitCommand(2) = "clean" /\ GitCommand(3) = "tree"
              /\ GitCommand(4) = "commit" /\ GitCommand(5) = "clean" /\ GitCommand(6) = "tree"
         /\ \A i \in 1 .. GitAll : GitCommand(i) = "tree" => question = "publication" /\ i \in {3, 6}
<1>1. /\ G!Commands(question) \in Seq(GitWords)
      /\ question = "file set" =>
           /\ GitAll = 4 /\ GitCommand(1) = "deleted" /\ GitCommand(2) = "listed"
           /\ GitCommand(3) = "deleted" /\ GitCommand(4) = "listed"
      /\ question = "identity" =>
           /\ GitAll = 8 /\ GitCommand(1) = "revision" /\ GitCommand(2) = "branch"
           /\ GitCommand(3) = "status" /\ GitCommand(4) = "index"
           /\ GitCommand(5) = "revision" /\ GitCommand(6) = "branch"
           /\ GitCommand(7) = "status" /\ GitCommand(8) = "index"
      /\ question = "publication" =>
           /\ GitAll = 6 /\ GitCommand(1) = "commit" /\ GitCommand(2) = "clean" /\ GitCommand(3) = "tree"
           /\ GitCommand(4) = "commit" /\ GitCommand(5) = "clean" /\ GitCommand(6) = "tree"
  BY GitAsked DEF GitAll, GitCommand
<1>2. ASSUME NEW i \in 1 .. GitAll, GitCommand(i) = "tree" PROVE question = "publication" /\ i \in {3, 6}
  <2>1. CASE question = "file set"
    <3>1. i \in {1, 2, 3, 4}
      <4>1. GitAll = 4
        BY <1>1, <2>1
      <4> QED
        BY <4>1
    <3> QED
      BY <1>1, <1>2, <2>1, <3>1
  <2>2. CASE question = "identity"
    <3>1. i \in {1, 2, 3, 4, 5, 6, 7, 8}
      BY <1>1, <2>2
    <3> QED
      BY <1>1, <1>2, <2>2, <3>1
  <2>3. CASE question = "publication"
    <3>1. i \in {1, 2, 3, 4, 5, 6}
      BY <1>1, <2>3
    <3> QED
      BY <1>1, <1>2, <2>3, <3>1
  <2> QED
    BY <2>1, <2>2, <2>3 DEF GitQuestions
<1> QED
  BY <1>1, <1>2

\* How many there are.
LEMMA GitSizes == ASSUME question \in GitQuestions PROVE GitAll \in {4, 6, 8}
BY GitAsked DEF GitAll, GitQuestions

\* What a moment records of a repository; a clean worktree is that of its revision.
LEMMA GitSeenWhole ==
  ASSUME NEW r, GitSound(r)
  PROVE  /\ G!Moment(r) \in GitMoments
         /\ G!Moment(r).revision \in 1 .. Len(r.tree)
         /\ G!Moment(r).tree = r.tree[G!Moment(r).revision]
         /\ G!Moment(r).status = {} => G!Moment(r).index = G!Moment(r).tree /\ G!Moment(r).work = G!Moment(r).tree
<1>1. /\ r.branch \in Branches /\ r.index \in G!Trees /\ r.work \in G!Trees /\ r.tree \in Seq(G!Trees)
      /\ r.marker \in {G!Absent, G!Original, 2}
      /\ G!HeadOf(r) \in 1 .. Len(r.tree)
  BY DEF GitSound, GitRepositories, G!HeadOf
<1>2. G!Tree(r) \in G!Trees
  BY <1>1, ElementOfSeq DEF G!Tree
<1>3. G!Listed(r) \subseteq GitPaths /\ G!Deleted(r) \subseteq GitPaths
  BY DEF G!Listed, G!Deleted
<1>0. G!Status(r) \in GitLetterings
  <2>1. \A p \in GitPaths : G!Letter(G!Tree(r)[p], r.index[p]) \in GitLetters /\ G!Letter(r.index[p], r.work[p]) \in GitLetters
    BY DEF G!Letter, GitLetters
  <2> QED
    BY <2>1 DEF G!Status, GitLetterings
<1>5. ASSUME G!Status(r) = {} PROVE r.index = G!Tree(r) /\ r.work = G!Tree(r)
  <2>1. \A q \in GitPaths : G!Tree(r)[q] = r.index[q] /\ r.index[q] = r.work[q]
    BY <1>5 DEF G!Status
  <2> QED
    BY <1>1, <1>2, <2>1 DEF G!Trees
<1>6. Len(r.tree) \in Nat
  BY <1>1
<1>7. G!HeadOf(r) \in Nat
  BY <1>1, <1>6
<1>8. /\ G!Moment(r).revision = G!HeadOf(r) /\ G!Moment(r).branch = r.branch
      /\ G!Moment(r).status = G!Status(r) /\ G!Moment(r).index = r.index
      /\ G!Moment(r).work = r.work /\ G!Moment(r).tree = G!Tree(r)
  BY DEF G!Moment
<1>9. G!Moment(r) \in GitMoments
  BY <1>1, <1>2, <1>3, <1>0, <1>7 DEF G!Moment, GitMoments
<1> QED
  BY <1>1, <1>5, <1>8, <1>9 DEF G!Tree

\* A change adds a moment to the past.
LEMMA GitReached ==
  ASSUME G!RepositoryAssumption, NEW new, GitSound(new), G!Change(new), GitInv,
         Len(repo.tree) <= Len(new.tree), \A i \in 1 .. Len(repo.tree) : new.tree[i] = repo.tree[i]
  PROVE  /\ GitRecorded' /\ past' \in Seq(GitMoments) /\ Len(past') = Len(past) + 1
         /\ \A i \in 1 .. Len(past) : past'[i] = past[i]
<1>1. /\ past' = Append(past, G!Moment(new)) /\ repo' = new /\ past \in Seq(GitMoments) /\ Len(past) \in Nat
      /\ Len(past) >= 1
  BY DEF G!Change, GitInv, GitTypes, GitRecorded
<1>2. G!Moment(new) \in GitMoments
  BY GitSeenWhole
<1>3. /\ past' \in Seq(GitMoments) /\ Len(past') = Len(past) + 1
      /\ \A i \in 1 .. Len(past) : past'[i] = past[i]
      /\ past'[Len(past) + 1] = G!Moment(new)
  BY <1>1, <1>2, AppendProperties
<1>4. Len(repo.tree) \in Nat /\ Len(new.tree) \in Nat
  BY DEF GitInv, GitTypes, GitSound, GitRepositories
<1>5. GitRecorded'
  <2>1. past'[Len(past')] = G!Moment(repo)'
    <3>1. G!HeadOf(repo)' = G!HeadOf(new) /\ G!Tree(repo)' = G!Tree(new)
      BY <1>1 DEF G!HeadOf, G!Tree
    <3>2. G!Listed(repo)' = G!Listed(new) /\ G!Deleted(repo)' = G!Deleted(new)
      BY <1>1 DEF G!Listed, G!Deleted
    <3>3. G!Status(repo)' = G!Status(new)
      BY <1>1 DEF G!Status, G!Tree, G!HeadOf
    <3>4. G!Moment(repo)' = G!Moment(new)
      BY <1>1, <3>1, <3>2, <3>3 DEF G!Moment
    <3> QED
      BY <1>3, <3>4
  <2>2. ASSUME NEW i \in 1 .. Len(past)
        PROVE  /\ past'[i].revision \in 1 .. Len(repo'.tree)
               /\ past'[i].tree = repo'.tree[past'[i].revision]
               /\ past'[i].status = {} => past'[i].index = past'[i].tree /\ past'[i].work = past'[i].tree
    <3>1. /\ past[i].revision \in 1 .. Len(repo.tree) /\ past[i].tree = repo.tree[past[i].revision]
          /\ past[i].status = {} => past[i].index = past[i].tree /\ past[i].work = past[i].tree
      BY DEF GitInv, GitRecorded
    <3>2. past[i].revision \in 1 .. Len(new.tree)
      BY <1>4, <3>1
    <3> QED
      BY <1>1, <1>3, <3>1, <3>2
  <2>3. /\ past'[Len(past) + 1].revision \in 1 .. Len(repo'.tree)
        /\ past'[Len(past) + 1].tree = repo'.tree[past'[Len(past) + 1].revision]
        /\ past'[Len(past) + 1].status = {} =>
             /\ past'[Len(past) + 1].index = past'[Len(past) + 1].tree
             /\ past'[Len(past) + 1].work = past'[Len(past) + 1].tree
    BY <1>1, <1>3, GitSeenWhole
  <2>4. \A i \in 1 .. Len(past') : i \in 1 .. Len(past) \/ i = Len(past) + 1
    BY <1>1, <1>3
  <2>5. Len(past') >= 1
    BY <1>1, <1>3
  <2> QED
    BY <2>1, <2>2, <2>3, <2>4, <2>5 DEF GitRecorded
<1> QED
  BY <1>3, <1>5

\* A change of the repository keeps the invariant: what was answered stays true of the
\* moment it was asked at.
LEMMA GitChangeKeeps ==
  ASSUME G!RepositoryAssumption, NEW new, GitSound(new), G!Change(new), GitInv,
         Len(repo.tree) <= Len(new.tree), \A i \in 1 .. Len(repo.tree) : new.tree[i] = repo.tree[i]
  PROVE  GitInv'
<1>1. /\ repo' = new
      /\ question' = question /\ phase' = phase /\ marker' = marker /\ step' = step
      /\ between' = between /\ output' = output /\ answers' = answers /\ asked' = asked
      /\ result' = result
      /\ \A i : GitCommand(i)' = GitCommand(i)
      /\ GitAll' = GitAll
  BY DEF G!Change, GitCommand, GitAll
<1>2. /\ GitRecorded' /\ past' \in Seq(GitMoments) /\ Len(past') = Len(past) + 1
      /\ \A i \in 1 .. Len(past) : past'[i] = past[i]
  BY GitReached
<1>3. /\ Len(past) \in Nat /\ Len(repo.tree) \in Nat /\ Len(new.tree) \in Nat
      /\ Len(asked) \in Nat /\ Len(answers) \in Nat /\ step \in Nat
      /\ Len(answers) <= Len(asked) /\ Len(past) >= 1
      /\ \A i \in 1 .. Len(asked) : asked[i] \in 1 .. Len(past)
  <2>1. /\ past \in Seq(GitMoments) /\ repo.tree \in Seq(G!Trees) /\ new.tree \in Seq(G!Trees)
        /\ asked \in Seq(Nat) /\ answers \in Seq(GitReplies)
        /\ question \in GitQuestions /\ step \in 0 .. GitAll - 1
    BY DEF GitInv, GitTypes, GitSound, GitRepositories
  <2>2. Len(answers) <= Len(asked) /\ Len(past) >= 1
        /\ \A i \in 1 .. Len(asked) : asked[i] \in 1 .. Len(past)
    BY DEF GitInv, GitProgress, GitTimed, GitRecorded
  <2>3. step \in Nat
    BY <2>1, GitSizes
  <2> QED
    BY <2>1, <2>2, <2>3
<1>4. GitTypes'
  BY <1>1, <1>2 DEF GitInv, GitTypes
<1>5. GitTimed'
  BY <1>1, <1>2, <1>3 DEF GitInv, GitTimed
<1>6. ASSUME NEW i \in 1 .. Len(asked), NEW v, GitSaid(i, v) PROVE GitSaid(i, v)'
  <2>1. asked[i] \in 1 .. Len(past) /\ past'[asked[i]] = past[asked[i]]
    BY <1>2, <1>3
  <2>2. GitCommand(i) = "tree" => /\ answers[i - 2] \in 1 .. Len(new.tree)
                                  /\ v = new.tree[answers[i - 2]]
    BY <1>3, <1>6 DEF GitSaid
  <2> QED
    BY <1>1, <1>6, <2>1, <2>2 DEF GitSaid
<1>7. GitTold'
  <2>1. ASSUME NEW i \in 1 .. Len(answers) PROVE GitSaid(i, answers[i])'
    <3>1. i \in 1 .. Len(asked) /\ GitSaid(i, answers[i])
      BY <1>3 DEF GitInv, GitTold
    <3> QED
      BY <1>1, <1>6, <3>1 DEF GitSaid
  <2>2. ASSUME phase = "ask", between \in {"after", "judge"} PROVE GitSaid(step + 1, output[1])'
    <3>1. step + 1 \in 1 .. Len(asked) /\ GitSaid(step + 1, output[1])
      BY <1>3, <2>2 DEF GitInv, GitTold, GitProgress
    <3>2. PICK n, v : n = step + 1 /\ v = output[1]
      OBVIOUS
    <3>3. GitSaid(n, v)' /\ n = step' + 1 /\ v = output'[1]
      BY <1>1, <1>6, <3>1, <3>2
    <3> QED
      BY <3>3 DEF GitSaid, GitCommand
  <2> QED
    BY <1>1, <2>1, <2>2 DEF GitTold
<1>8. GitProgress' /\ GitAccepting'
  BY <1>1 DEF GitInv, GitProgress, GitAccepting, G!RoundsAgree
<1>9. GitWatched'
  <2>1. ASSUME NEW from \in 1 .. Len(past), NEW to \in 1 .. Len(past), GitMarkedIn(from, to)
        PROVE  GitMarkedIn(from, to)' /\ GitMarkedIn(from, Len(past))'
    <3>1. PICK t \in from .. to : past[t].marker = marker
      BY <2>1 DEF GitMarkedIn
    <3>2. t \in from .. Len(past') /\ past'[t].marker = marker'
      BY <1>1, <1>2, <1>3, <3>1
    <3> QED
      BY <3>1, <3>2 DEF GitMarkedIn
  <2>2. ASSUME NEW j \in 1 .. Len(asked) - 1 PROVE GitMarkedIn(asked[j], asked[j + 1])'
    <3>1. asked[j] \in 1 .. Len(past) /\ asked[j + 1] \in 1 .. Len(past)
      BY <1>3
    <3>2. GitMarkedIn(asked[j], asked[j + 1])
      BY DEF GitInv, GitWatched
    <3> QED
      BY <1>1, <2>1, <3>1, <3>2 DEF GitMarkedIn
  <2>3. ASSUME phase = "ask", between # "after", Len(asked) >= 1
        PROVE  GitMarkedIn(asked[Len(asked)], Len(past))'
    <3>1. asked[Len(asked)] \in 1 .. Len(past) /\ GitMarkedIn(asked[Len(asked)], Len(past))
      BY <1>3, <2>3 DEF GitInv, GitWatched
    <3>2. PICK t \in asked[Len(asked)] .. Len(past) : past[t].marker = marker
      BY <3>1 DEF GitMarkedIn
    <3>3. t \in 1 .. Len(past) /\ t \in asked[Len(asked)] .. Len(past')
      BY <1>2, <1>3, <3>1, <3>2
    <3>4. t \in asked'[Len(asked')] .. Len(past') /\ past'[t].marker = marker'
      BY <1>1, <1>2, <3>2, <3>3
    <3> QED
      BY <3>4 DEF GitMarkedIn
  <2> QED
    BY <1>1, <2>2, <2>3 DEF GitWatched
<1> QED
  BY <1>2, <1>4, <1>5, <1>7, <1>8, <1>9 DEF GitInv

\* A step of others keeps the invariant.
LEMMA GitNoSteps == ASSUME GitInv, UNCHANGED G!vars PROVE GitInv'
<1>1. /\ GitTypes' = GitTypes /\ GitTimed' = GitTimed /\ GitProgress' = GitProgress /\ GitAccepting' = GitAccepting
      /\ GitWatched' = GitWatched
  BY DEF G!vars, GitTypes, GitTimed, GitProgress, GitAccepting, GitWatched, G!RoundsAgree,
         GitMarkedIn, GitCommand, GitAll,
     GitSound
<1>2. GitRecorded' /\ GitTold'
  BY DEF G!vars, GitInv, GitRecorded, GitTold, GitSaid, GitCommand, G!Moment, G!HeadOf, G!Tree,
         G!Status, G!Listed, G!Deleted
<1> QED
  BY <1>1, <1>2 DEF GitInv

\* The parts of a repository.
LEMMA GitParts ==
  ASSUME NEW r, GitSound(r)
  PROVE  /\ r = [marker |-> r.marker, branch |-> r.branch, index |-> r.index, work |-> r.work,
                 tree |-> r.tree, tip |-> r.tip]
         /\ r.marker \in {G!Absent, G!Original, 2} /\ r.branch \in Branches /\ r.index \in G!Trees
         /\ r.work \in G!Trees /\ r.tree \in Seq(G!Trees) /\ r.tip \in [Branches -> Nat]
         /\ Len(r.tree) \in Nat
         /\ \A b \in Branches : r.tip[b] \in 1 .. Len(r.tree) /\ r.tree[r.tip[b]] \in G!Trees
BY ElementOfSeq DEF GitSound, GitRepositories

\* A change that commits nothing.
LEMMA GitSameTrees ==
  ASSUME G!RepositoryAssumption, GitInv, NEW new, G!Change(new), new \in GitRepositories,
         new.tree = repo.tree, new.tip = repo.tip
  PROVE  GitInv'
<1>1. GitSound(new)
  BY DEF GitInv, GitTypes, GitSound
<1>2. Len(repo.tree) <= Len(new.tree) /\ \A i \in 1 .. Len(repo.tree) : new.tree[i] = repo.tree[i]
  BY DEF GitInv, GitTypes, GitSound, GitRepositories
<1> QED
  BY <1>1, <1>2, GitChangeKeeps

\* Edit keeps the invariant.
LEMMA GitEditKeeps == G!RepositoryAssumption /\ GitInv /\ G!Edit => GitInv'
<1> SUFFICES ASSUME G!RepositoryAssumption, GitInv, NEW p \in GitPaths, NEW c \in Contents,
                    G!Change([repo EXCEPT !.work[p] = c])
             PROVE  GitInv'
  BY DEF G!Edit
<1>1. PICK new : new = [repo EXCEPT !.work[p] = c]
  OBVIOUS
<1>2. GitSound(repo)
  BY DEF GitInv, GitTypes
<1>3. [repo.work EXCEPT ![p] = c] \in G!Trees
  BY <1>2, GitParts DEF G!Trees
<1>4. new \in GitRepositories /\ new.tree = repo.tree /\ new.tip = repo.tip
  BY <1>1, <1>2, <1>3 DEF GitSound, GitRepositories
<1> QED
  BY <1>1, <1>4, GitSameTrees

\* Stage keeps the invariant.
LEMMA GitStageKeeps == G!RepositoryAssumption /\ GitInv /\ G!Stage => GitInv'
<1> SUFFICES ASSUME G!RepositoryAssumption, GitInv, G!Stage PROVE GitInv'
  OBVIOUS
<1>1. PICK new : new = [repo EXCEPT !.index = repo.work]
  OBVIOUS
<1>2. GitSound(repo)
  BY DEF GitInv, GitTypes
<1>3. new \in GitRepositories /\ new.tree = repo.tree /\ new.tip = repo.tip
  BY <1>1, <1>2 DEF GitSound, GitRepositories
<1> QED
  BY <1>1, <1>3, GitSameTrees DEF G!Stage

\* Forget keeps the invariant.
LEMMA GitForgetKeeps == G!RepositoryAssumption /\ GitInv /\ G!Forget => GitInv'
<1> SUFFICES ASSUME G!RepositoryAssumption, GitInv, NEW p \in GitPaths,
                    G!Change([repo EXCEPT !.index[p] = G!NoFile])
             PROVE  GitInv'
  BY DEF G!Forget
<1>1. PICK new : new = [repo EXCEPT !.index[p] = G!NoFile]
  OBVIOUS
<1>2. GitSound(repo)
  BY DEF GitInv, GitTypes
<1>3. [repo.index EXCEPT ![p] = G!NoFile] \in G!Trees
  BY <1>2, GitParts DEF G!Trees, G!RepositoryAssumption, G!NoFile
<1>4. new \in GitRepositories /\ new.tree = repo.tree /\ new.tip = repo.tip
  BY <1>1, <1>2, <1>3 DEF GitSound, GitRepositories
<1> QED
  BY <1>1, <1>4, GitSameTrees

\* Switch keeps the invariant.
LEMMA GitSwitchKeeps == G!RepositoryAssumption /\ GitInv /\ G!Switch => GitInv'
<1> SUFFICES ASSUME G!RepositoryAssumption, GitInv, NEW b \in Branches,
                    G!Change([repo EXCEPT !.branch = b, !.index = repo.tree[repo.tip[b]],
                                          !.work = repo.tree[repo.tip[b]]])
             PROVE  GitInv'
  BY DEF G!Switch
<1>1. PICK new : new = [repo EXCEPT !.branch = b, !.index = repo.tree[repo.tip[b]],
                                    !.work = repo.tree[repo.tip[b]]]
  OBVIOUS
<1>2. GitSound(repo)
  BY DEF GitInv, GitTypes
<1>3. repo.tree[repo.tip[b]] \in G!Trees
  BY <1>2, GitParts
<1>4. new \in GitRepositories /\ new.tree = repo.tree /\ new.tip = repo.tip
  BY <1>1, <1>2, <1>3 DEF GitSound, GitRepositories
<1> QED
  BY <1>1, <1>4, GitSameTrees

\* ReplaceMarker keeps the invariant.
LEMMA GitReplaceMarkerKeeps == G!RepositoryAssumption /\ GitInv /\ G!ReplaceMarker => GitInv'
<1> SUFFICES ASSUME G!RepositoryAssumption, GitInv, NEW m \in {G!Absent, G!Original, 2},
                    G!Change([repo EXCEPT !.marker = m])
             PROVE  GitInv'
  BY DEF G!ReplaceMarker
<1>1. PICK new : new = [repo EXCEPT !.marker = m]
  OBVIOUS
<1>2. GitSound(repo)
  BY DEF GitInv, GitTypes
<1>3. new \in GitRepositories /\ new.tree = repo.tree /\ new.tip = repo.tip
  BY <1>1, <1>2 DEF GitSound, GitRepositories
<1> QED
  BY <1>1, <1>3, GitSameTrees

\* Commit keeps the invariant.
LEMMA GitCommitKeeps == G!RepositoryAssumption /\ GitInv /\ G!Commit => GitInv'
<1> SUFFICES ASSUME G!RepositoryAssumption, GitInv, G!Commit PROVE GitInv'
  OBVIOUS
<1>1. PICK new : new = [repo EXCEPT !.tree = Append(repo.tree, repo.index),
                                    !.tip[repo.branch] = Len(repo.tree) + 1]
  OBVIOUS
<1>2. G!Change(new)
  BY <1>1 DEF G!Commit
<1>3. GitSound(repo)
  BY DEF GitInv, GitTypes
<1>4. /\ repo.tree \in Seq(G!Trees) /\ repo.index \in G!Trees /\ Len(repo.tree) \in Nat
      /\ repo.tip \in [Branches -> Nat] /\ repo.branch \in Branches
      /\ \A b \in Branches : repo.tip[b] \in 1 .. Len(repo.tree)
  BY <1>3, GitParts
<1> DEFINE t == Append(repo.tree, repo.index)
           tip == [repo.tip EXCEPT ![repo.branch] = Len(repo.tree) + 1]
<1>5. /\ t \in Seq(G!Trees) /\ Len(t) = Len(repo.tree) + 1
      /\ \A i \in 1 .. Len(repo.tree) : t[i] = repo.tree[i]
  BY <1>4, AppendProperties
<1>6. tip \in [Branches -> Nat] /\ \A b \in Branches : tip[b] = IF b = repo.branch THEN Len(repo.tree) + 1 ELSE repo.tip[b]
  BY <1>4
<1>7. new = [repo EXCEPT !.tree = t, !.tip = tip]
  BY <1>1, <1>3 DEF GitSound, GitRepositories
<1> HIDE DEF t, tip
<1>8. new \in GitRepositories /\ new.tree = t /\ new.tip = tip
  BY <1>3, <1>5, <1>6, <1>7 DEF GitSound, GitRepositories
<1>9. GitSound(new)
  BY <1>4, <1>5, <1>6, <1>8 DEF GitSound
<1>10. Len(repo.tree) <= Len(new.tree) /\ \A i \in 1 .. Len(repo.tree) : new.tree[i] = repo.tree[i]
  BY <1>4, <1>5, <1>8
<1> QED
  BY <1>2, <1>9, <1>10, GitChangeKeeps

\* The past is that of the repository while neither changes.
LEMMA GitStaysRecorded == ASSUME GitRecorded, UNCHANGED <<repo, past>> PROVE GitRecorded'
BY DEF GitRecorded, G!Moment, G!HeadOf, G!Tree, G!Status, G!Listed, G!Deleted

\* The numbers a question goes by.
LEMMA GitCounts ==
  ASSUME GitInv
  PROVE  /\ Len(past) \in Nat /\ Len(past) >= 1 /\ Len(asked) \in Nat /\ Len(answers) \in Nat
         /\ Len(output) \in Nat /\ step \in Nat /\ step + 1 <= GitAll /\ GitAll \in {4, 6, 8}
         /\ question \in GitQuestions
<1>1. /\ past \in Seq(GitMoments) /\ asked \in Seq(Nat) /\ answers \in Seq(GitReplies) /\ output \in Seq(GitReplies)
      /\ question \in GitQuestions /\ step \in 0 .. GitAll - 1 /\ Len(past) >= 1
  BY DEF GitInv, GitTypes, GitRecorded
<1>2. GitAll \in {4, 6, 8}
  BY <1>1, GitSizes
<1> QED
  BY <1>1, <1>2

\* Answers stay true while nothing is asked.
LEMMA GitStaysTold ==
  ASSUME GitInv, UNCHANGED <<repo, past, question, step, output, answers, asked>>,
         phase' = "ask" /\ between' \in {"after", "judge"} => phase = "ask" /\ between \in {"after", "judge"}
  PROVE  GitTold'
BY DEF GitInv, GitTold, GitSaid, GitCommand

\* OpenRepository keeps the invariant.
LEMMA GitOpenRepositoryKeeps == GitInv /\ G!OpenRepository => GitInv'
<1> SUFFICES ASSUME GitInv, G!OpenRepository PROVE GitInv'
  OBVIOUS
<1>1. /\ phase = "open" /\ between = "before" /\ step = 0 /\ answers = << >> /\ asked = << >>
      /\ result = "none" /\ Len(asked) = 0 /\ Len(answers) = 0
  BY DEF G!OpenRepository, GitInv, GitProgress
<1>2. /\ UNCHANGED <<repo, past, question, step, between, output, answers, asked>>
      /\ \/ phase' = "done" /\ result' \in {"archive", "error"}
         \/ phase' = "ask" /\ result' = result
  BY DEF G!OpenRepository, G!Done
<1>3. GitTypes' /\ GitTimed' /\ GitAccepting'
  BY <1>1, <1>2 DEF GitInv, GitTypes, GitTimed, GitAccepting, GitSound, GitAll
<1>4. GitRecorded' /\ GitTold'
  BY <1>1, <1>2, GitStaysRecorded, GitStaysTold DEF GitInv
<1>5. GitProgress'
  BY <1>1, <1>2 DEF GitInv, GitProgress, GitAll
<1>6. GitWatched'
  BY <1>1, <1>2 DEF GitWatched
<1> QED
  BY <1>3, <1>4, <1>5, <1>6 DEF GitInv

\* VerifyMarker keeps the invariant.
LEMMA GitVerifyMarkerKeeps == GitInv /\ G!VerifyMarker => GitInv'
<1> SUFFICES ASSUME GitInv, G!VerifyMarker PROVE GitInv'
  OBVIOUS
<1>1. /\ phase = "ask" /\ between \in {"before", "after"} /\ result = "none"
      /\ UNCHANGED <<repo, past, question, marker, step, output, answers, asked>>
      /\ \/ phase' = "done" /\ result' = "error" /\ between' = between
         \/ /\ repo.marker = marker /\ phase' = phase /\ result' = result
            /\ between' = IF between = "before" THEN "run" ELSE "judge"
  BY DEF G!VerifyMarker, G!Done, GitInv, GitProgress
<1>2. GitTypes' /\ GitTimed' /\ GitAccepting'
  BY <1>1 DEF GitInv, GitTypes, GitTimed, GitAccepting, GitSound, GitAll, GitCommand
<1>3. GitRecorded' /\ GitTold'
  BY <1>1, GitStaysRecorded, GitStaysTold DEF GitInv
<1>4. GitProgress'
  BY <1>1 DEF GitInv, GitProgress, GitAll
<1>5. GitWatched'
  <2>1. \A j \in 1 .. Len(asked) - 1 : GitMarkedIn(asked[j], asked[j + 1])'
    BY <1>1 DEF GitInv, GitWatched, GitMarkedIn
  <2>2. ASSUME phase' = "ask", Len(asked) >= 1 PROVE GitMarkedIn(asked[Len(asked)], Len(past))'
    <3>1. asked[Len(asked)] \in 1 .. Len(past) /\ Len(past) \in Nat
      BY <2>2, GitCounts DEF GitInv, GitTimed
    <3>2. past[Len(past)].marker = marker
      <4>1. past[Len(past)] = G!Moment(repo) /\ repo.marker = marker
        BY <1>1, <2>2 DEF GitInv, GitRecorded
      <4> QED
        BY <4>1 DEF G!Moment
    <3>3. Len(past) \in asked[Len(asked)] .. Len(past)
      BY <3>1
    <3> QED
      BY <1>1, <3>2, <3>3 DEF GitMarkedIn
  <2> QED
    BY <1>1, <2>1, <2>2 DEF GitWatched
<1> QED
  BY <1>2, <1>3, <1>4, <1>5 DEF GitInv

\* What git answers to each command.
LEMMA GitReplied ==
  /\ G!Reply("deleted") = G!Deleted(repo) /\ G!Reply("listed") = G!Listed(repo)
  /\ G!Reply("revision") = G!HeadOf(repo) /\ G!Reply("commit") = G!HeadOf(repo)
  /\ G!Reply("branch") = repo.branch /\ G!Reply("status") = G!Status(repo)
  /\ G!Reply("clean") = G!Status(repo) /\ G!Reply("index") = repo.index
  /\ G!Reply("tree") = repo.tree[answers[Len(answers) - 1]]
BY DEF G!Reply

\* What git answers now is true of the newest moment.
LEMMA GitNowSaid ==
  ASSUME GitInv, phase = "ask", between = "run", asked' = Append(asked, Len(past)),
         UNCHANGED <<repo, past, question, step, answers>>,
         NEW v, v = G!Reply(GitCommand(step + 1))
  PROVE  /\ v \in GitReplies /\ GitSaid(step + 1, v)'
         /\ asked' \in Seq(Nat) /\ Len(asked') = step + 1 /\ asked'[step + 1] = Len(past)
         /\ \A i \in 1 .. Len(asked) : asked'[i] = asked[i]
<1>1. Len(asked) = step /\ Len(answers) = step /\ step \in Nat /\ asked \in Seq(Nat) /\ Len(past) \in Nat
  BY GitCounts DEF GitInv, GitProgress, GitTypes
<1>2. /\ asked' \in Seq(Nat) /\ Len(asked') = step + 1 /\ asked'[step + 1] = Len(past)
      /\ \A i \in 1 .. Len(asked) : asked'[i] = asked[i]
  BY <1>1, AppendProperties
<1>3. /\ past'[asked'[step + 1]] = G!Moment(repo) /\ G!Moment(repo) \in GitMoments
      /\ GitCommand(step + 1)' = GitCommand(step + 1)
  BY <1>2, GitSeenWhole DEF GitInv, GitRecorded, GitTypes, GitCommand
<1> DEFINE c == GitCommand(step + 1)
<1>4. c = "tree" => /\ answers[step - 1] \in 1 .. Len(repo.tree)
                    /\ repo.tree[answers[step - 1]] \in G!Trees
  <2> SUFFICES ASSUME c = "tree" PROVE answers[step - 1] \in 1 .. Len(repo.tree)
    BY ElementOfSeq DEF GitInv, GitTypes, GitSound, GitRepositories
  <2>1. question = "publication" /\ step + 1 \in {3, 6}
    <3>1. question \in GitQuestions /\ step + 1 \in 1 .. GitAll
      <4>1. GitAll \in Nat /\ step + 1 <= GitAll /\ question \in GitQuestions
        BY GitCounts
      <4> QED
        BY <1>1, <4>1
    <3> QED
      BY <3>1, GitListing
  <2>2. step - 1 \in {1, 4} /\ GitCommand(step - 1) = "commit"
    BY <1>1, <2>1, GitCounts, GitListing
  <2>3. step - 1 \in 1 .. Len(answers) /\ step - 1 \in 1 .. Len(asked)
    BY <1>1, <2>2
  <2>4. answers[step - 1] = past[asked[step - 1]].revision
    BY <2>2, <2>3 DEF GitInv, GitTold, GitSaid
  <2>5. asked[step - 1] \in 1 .. Len(past)
    BY <2>3 DEF GitInv, GitTimed
  <2> QED
    BY <2>4, <2>5 DEF GitInv, GitRecorded
<1>5. /\ c = "deleted" => v = G!Deleted(repo)
      /\ c = "listed" => v = G!Listed(repo)
      /\ c \in {"revision", "commit"} => v = G!HeadOf(repo)
      /\ c = "branch" => v = repo.branch
      /\ c \in {"status", "clean"} => v = G!Status(repo)
      /\ c = "index" => v = repo.index
      /\ c = "tree" => v = repo.tree[answers[step - 1]]
  BY <1>1, GitReplied
<1>6. c \in GitWords
  <2>1. G!Commands(question) \in Seq(GitWords) /\ step + 1 \in 1 .. Len(G!Commands(question))
    <3>1. GitAll \in Nat /\ step + 1 <= GitAll /\ question \in GitQuestions
      BY GitCounts
    <3>2. step + 1 \in 1 .. GitAll
      BY <1>1, <3>1
    <3>3. G!Commands(question) \in Seq(GitWords)
      BY <3>1, GitListing
    <3> QED
      BY <3>2, <3>3 DEF GitAll
  <2> QED
    BY <2>1, ElementOfSeq DEF GitCommand
<1>7. v \in GitReplies
  <2>1. /\ G!HeadOf(repo) \in Nat /\ repo.branch \in Branches /\ G!Status(repo) \in GitLetterings
        /\ repo.index \in G!Trees /\ G!Listed(repo) \subseteq GitPaths /\ G!Deleted(repo) \subseteq GitPaths
    BY <1>3 DEF G!Moment, GitMoments
  <2> HIDE DEF c
  <2> QED
    BY <1>4, <1>5, <1>6, <2>1 DEF GitWords, GitReplies
<1>8. GitSaid(step + 1, v)'
  <2>1. /\ past'[asked'[step + 1]].deleted = G!Deleted(repo) /\ past'[asked'[step + 1]].listed = G!Listed(repo)
        /\ past'[asked'[step + 1]].revision = G!HeadOf(repo) /\ past'[asked'[step + 1]].branch = repo.branch
        /\ past'[asked'[step + 1]].status = G!Status(repo) /\ past'[asked'[step + 1]].index = repo.index
    BY <1>3 DEF G!Moment
  <2>2. (step + 1) - 2 = step - 1
    BY <1>1
  <2>3. PICK n : n = step + 1
    OBVIOUS
  <2>4. GitCommand(n)' = c /\ GitCommand(n) = c /\ n = step' + 1
    BY <2>3 DEF GitCommand
  <2> HIDE DEF c
  <2>5. GitSaid(n, v)'
    <3>1. n - 2 = step - 1
      BY <2>2, <2>3
    <3> QED
      BY <1>4, <1>5, <2>1, <2>3, <2>4, <3>1 DEF GitSaid
  <2> QED
    BY <2>4, <2>5 DEF GitSaid, GitCommand
<1> QED
  BY <1>2, <1>7, <1>8

\* RunGit keeps the invariant.
LEMMA GitRunGitKeeps == GitInv /\ G!RunGit => GitInv'
<1> SUFFICES ASSUME GitInv, G!RunGit PROVE GitInv'
  OBVIOUS
<1>1. /\ phase = "ask" /\ between = "run" /\ result = "none" /\ asked' = Append(asked, Len(past))
      /\ UNCHANGED <<repo, past, question, marker, step, answers>>
      /\ output' \in {<<G!Reply(GitCommand(step + 1))>>, << >>}
      /\ \/ phase' = "done" /\ result' = "error" /\ between' = between
         \/ output' # << >> /\ phase' = phase /\ result' = result /\ between' = "after"
  BY DEF G!RunGit, G!Done, GitInv, GitProgress, G!Responses, G!NoResponse, GitCommand
<1>2. PICK v : v = G!Reply(GitCommand(step + 1))
  OBVIOUS
<1>3. /\ v \in GitReplies /\ GitSaid(step + 1, v)'
      /\ asked' \in Seq(Nat) /\ Len(asked') = step + 1 /\ asked'[step + 1] = Len(past)
      /\ \A i \in 1 .. Len(asked) : asked'[i] = asked[i]
  BY <1>1, <1>2, GitNowSaid
<1>4. /\ Len(asked) = step /\ Len(answers) = step /\ step \in Nat /\ step + 1 <= GitAll /\ GitAll \in Nat
      /\ Len(past) \in Nat /\ Len(past) >= 1
  BY <1>1, GitCounts DEF GitInv, GitProgress
<1>5. \A i \in 1 .. step + 1 : i \in 1 .. step \/ i = step + 1
  BY <1>4
<1>6. GitTypes'
  <2>1. output' \in Seq(GitReplies)
    <3>1. <<v>> \in Seq(GitReplies) /\ << >> \in Seq(GitReplies)
      BY <1>3
    <3> QED
      BY <1>1, <1>2, <3>1
  <2> QED
    BY <1>1, <1>3, <2>1 DEF GitInv, GitTypes, GitSound, GitAll
<1>7. GitTimed'
  <2>1. \A i \in 1 .. step : asked'[i] = asked[i] /\ asked[i] \in 1 .. Len(past)
    BY <1>3, <1>4 DEF GitInv, GitTimed
  <2>2. \A i \in 1 .. step + 1 : asked'[i] \in 1 .. Len(past)
    BY <1>3, <1>4, <1>5, <2>1
  <2>3. ASSUME NEW i \in 1 .. step + 1, NEW j \in 1 .. step + 1, i <= j PROVE asked'[i] <= asked'[j]
    <3>1. CASE j = step + 1
      BY <1>3, <1>4, <2>2, <3>1
    <3>2. CASE j \in 1 .. step
      <4>1. i \in 1 .. step
        BY <1>4, <2>3, <3>2
      <4> QED
        BY <1>4, <2>1, <2>3, <3>2, <4>1 DEF GitInv, GitTimed
    <3> QED
      BY <1>5, <3>1, <3>2
  <2> QED
    BY <1>1, <1>3, <2>2, <2>3 DEF GitTimed
<1>8. GitRecorded'
  BY <1>1, GitStaysRecorded DEF GitInv
<1>9. GitTold'
  <2>1. ASSUME NEW i \in 1 .. Len(answers) PROVE GitSaid(i, answers[i])'
    <3>1. GitSaid(i, answers[i]) /\ asked'[i] = asked[i]
      BY <1>3, <1>4 DEF GitInv, GitTold
    <3> QED
      BY <1>1, <3>1 DEF GitSaid, GitCommand
  <2>2. between' = "after" /\ phase' = "ask" => output'[1] = v
    BY <1>1, <1>2
  <2>3. between' = "after" /\ phase' = "ask" => GitSaid(step + 1, output[1])'
    BY <1>3, <2>2 DEF GitSaid
  <2> QED
    BY <1>1, <2>1, <2>3 DEF GitTold
<1>10. GitProgress'
  <2>1. output' # << >> => Len(output') = 1
    BY <1>1
  <2>2. GitAll' = GitAll
    BY <1>1 DEF GitAll
  <2> QED
    BY <1>1, <1>3, <1>4, <2>1, <2>2 DEF GitInv, GitProgress
<1>11. GitAccepting'
  BY <1>1 DEF GitInv, GitAccepting, GitCommand
<1>12. GitWatched'
  <2> SUFFICES ASSUME NEW j \in 1 .. step PROVE GitMarkedIn(asked[j], asked[j + 1])'
    <3>1. phase' # "ask" \/ between' = "after"
      BY <1>1
    <3>2. Len(asked') - 1 = step
      BY <1>3, <1>4
    <3> QED
      BY <3>1, <3>2 DEF GitWatched
  <2>1. CASE j = step
    <3>1. GitMarkedIn(asked[step], Len(past)) /\ step >= 1
      BY <1>1, <1>4, <2>1 DEF GitInv, GitWatched
    <3>2. asked'[j] = asked[step] /\ asked'[j + 1] = Len(past)
      BY <1>3, <1>4, <2>1
    <3> QED
      BY <1>1, <3>1, <3>2 DEF GitMarkedIn
  <2>2. CASE j \in 1 .. step - 1
    <3>1. asked'[j] = asked[j] /\ asked'[j + 1] = asked[j + 1]
      BY <1>3, <1>4, <2>2
    <3>2. GitMarkedIn(asked[j], asked[j + 1])
      BY <1>4, <2>2 DEF GitInv, GitWatched
    <3> QED
      BY <1>1, <3>1, <3>2 DEF GitMarkedIn
  <2> QED
    BY <1>4, <2>1, <2>2
<1> QED
  BY <1>6, <1>7, <1>8, <1>9, <1>10, <1>11, <1>12 DEF GitInv

\* Judge keeps the invariant.
LEMMA GitJudgeKeeps == GitInv /\ G!Judge => GitInv'
<1> SUFFICES ASSUME GitInv, G!Judge PROVE GitInv'
  OBVIOUS
<1>1. /\ phase = "ask" /\ between = "judge" /\ result = "none"
      /\ answers' = Append(answers, output[1])
      /\ UNCHANGED <<repo, past, question, marker, output, asked>>
      /\ GitSaid(step + 1, output[1])
  BY DEF G!Judge, GitInv, GitProgress, GitTold
<1>2. \/ phase' = "done" /\ result' = "error" /\ step' = step /\ between' = between
      \/ /\ ~G!Refused(GitCommand(step + 1), output[1])
         /\ \/ /\ Len(answers') < GitAll /\ step' = step + 1 /\ between' = "before"
               /\ phase' = phase /\ result' = result
            \/ /\ ~(Len(answers') < GitAll) /\ phase' = "done" /\ step' = step /\ between' = between
               /\ result' = "changed" \/ (result' = "ok" /\ G!RoundsAgree(answers'))
  BY DEF G!Judge, G!Done, GitCommand, GitAll
<1>3. /\ Len(asked) = step + 1 /\ Len(answers) = step /\ step \in Nat /\ step + 1 <= GitAll /\ GitAll \in Nat
      /\ Len(output) = 1 /\ answers \in Seq(GitReplies) /\ output \in Seq(GitReplies)
      /\ question \in GitQuestions /\ asked \in Seq(Nat)
  BY <1>1, GitCounts DEF GitInv, GitProgress, GitTypes
<1>4. output[1] \in GitReplies
  <2>1. 1 \in 1 .. Len(output)
    BY <1>3
  <2> QED
    BY <1>3, <2>1, ElementOfSeq
<1>5. /\ answers' \in Seq(GitReplies) /\ Len(answers') = step + 1 /\ answers'[step + 1] = output[1]
      /\ \A i \in 1 .. step : answers'[i] = answers[i]
  BY <1>1, <1>3, <1>4, AppendProperties
<1>6. /\ \A i \in 1 .. step + 1 : i \in 1 .. step \/ i = step + 1
      /\ \A i : GitCommand(i)' = GitCommand(i)
      /\ GitAll' = GitAll
  BY <1>1, <1>3 DEF GitCommand, GitAll
<1>7. GitTypes'
  <2>1. step' \in 0 .. GitAll - 1
    BY <1>2, <1>3, <1>5
  <2> QED
    BY <1>1, <1>2, <1>3, <1>5, <1>6, <2>1 DEF GitInv, GitTypes, GitSound
<1>8. GitRecorded' /\ GitTimed'
  BY <1>1, GitStaysRecorded DEF GitInv, GitTimed
<1>9. GitTold'
  <2>1. ASSUME NEW i \in 1 .. step + 1, NEW v, GitSaid(i, v) PROVE GitSaid(i, v)'
    <3>1. GitCommand(i) = "tree" => answers'[i - 2] = answers[i - 2]
      <4>1. GitCommand(i) = "tree" => i \in {3, 6}
        <5>1. i \in 1 .. GitAll
          BY <1>3
        <5> QED
          BY <1>3, <5>1, GitListing
      <4> QED
        BY <1>3, <1>5, <4>1
    <3> QED
      BY <1>1, <1>6, <2>1, <3>1 DEF GitSaid
  <2>2. ASSUME NEW i \in 1 .. step + 1 PROVE GitSaid(i, answers[i])'
    <3>1. PICK v : v = answers'[i]
      OBVIOUS
    <3>2. GitSaid(i, v)
      <4>1. CASE i \in 1 .. step
        BY <1>3, <1>5, <3>1, <4>1 DEF GitInv, GitTold
      <4>2. CASE i = step + 1
        BY <1>1, <1>5, <3>1, <4>2
      <4> QED
        BY <1>6, <4>1, <4>2
    <3>3. GitSaid(i, v)'
      BY <2>1, <3>2
    <3> QED
      BY <3>1, <3>3 DEF GitSaid
  <2>3. ~(phase' = "ask" /\ between' \in {"after", "judge"})
    BY <1>1, <1>2
  <2> QED
    BY <1>5, <2>2, <2>3 DEF GitTold
<1>10. GitProgress'
  BY <1>1, <1>2, <1>3, <1>5, <1>6 DEF GitInv, GitProgress
<1>11. GitAccepting'
  <2> SUFFICES ASSUME phase' = "ask" \/ result' = "ok", NEW i \in 1 .. step + 1
               PROVE  /\ GitCommand(i) = "commit" => answers'[i] # 1
                      /\ GitCommand(i) = "clean" => answers'[i] = {}
    BY <1>5, <1>6 DEF GitAccepting
  <2>1. ~G!Refused(GitCommand(step + 1), output[1])
    BY <1>2
  <2>2. CASE i \in 1 .. step
    BY <1>1, <1>3, <1>5, <2>2 DEF GitInv, GitAccepting
  <2>3. CASE i = step + 1
    BY <1>5, <2>1, <2>3 DEF G!Refused
  <2> QED
    BY <1>6, <2>2, <2>3
<1>12. GitWatched'
  <2>1. \A j \in 1 .. Len(asked) - 1 : GitMarkedIn(asked[j], asked[j + 1])'
    BY <1>1 DEF GitInv, GitWatched, GitMarkedIn
  <2>2. GitMarkedIn(asked[Len(asked)], Len(past))'
    <3>1. GitMarkedIn(asked[Len(asked)], Len(past))
      BY <1>1, <1>3 DEF GitInv, GitWatched
    <3> QED
      BY <1>1, <3>1 DEF GitMarkedIn
  <2> QED
    BY <1>1, <2>1, <2>2 DEF GitWatched
<1> QED
  BY <1>7, <1>8, <1>9, <1>10, <1>11, <1>12 DEF GitInv

\* The invariant holds before the repository is opened.
LEMMA GitInitially == G!RepositoryAssumption /\ G!Init => GitInv
<1> SUFFICES ASSUME G!RepositoryAssumption, G!Init PROVE GitInv
  OBVIOUS
<1>1. PICK start \in G!Trees, index \in G!Trees, work \in G!Trees, born \in BOOLEAN :
        repo = [marker |-> G!Original, branch |-> "main", index |-> index, work |-> work,
                tree |-> <<[p \in GitPaths |-> G!NoFile], start>>,
                tip |-> [b \in Branches |-> IF b = "main" /\ ~born THEN 1 ELSE 2]]
  BY DEF G!Init
<1>2. [p \in GitPaths |-> G!NoFile] \in G!Trees
  BY DEF G!Trees, G!NoFile, G!RepositoryAssumption
<1>3. PICK empty \in G!Trees : empty = [p \in GitPaths |-> G!NoFile]
  BY <1>2
<1>4. <<empty, start>> \in Seq(G!Trees) /\ Len(<<empty, start>>) = 2
  OBVIOUS
<1>5. [b \in Branches |-> IF b = "main" /\ ~born THEN 1 ELSE 2] \in [Branches -> Nat]
  OBVIOUS
<1>6. /\ repo.tree = <<empty, start>> /\ repo.marker = G!Original /\ repo.branch = "main"
      /\ \A b \in Branches : repo.tip[b] \in {1, 2}
  BY <1>1, <1>3
<1>7. repo \in GitRepositories
  BY <1>1, <1>3, <1>4, <1>5 DEF GitRepositories, G!RepositoryAssumption
<1>8. GitSound(repo)
  <2>1. Len(repo.tree) = 2
    BY <1>4, <1>6
  <2> QED
    BY <1>6, <1>7, <2>1 DEF GitSound
<1>9. /\ past = <<G!Moment(repo)>> /\ question \in GitQuestions /\ phase = "open" /\ step = 0
      /\ between = "before" /\ output = << >> /\ answers = << >> /\ asked = << >> /\ result = "none"
  BY DEF G!Init, GitQuestions
<1>10. G!Moment(repo) \in GitMoments
  BY <1>8, GitSeenWhole
<1>11. past \in Seq(GitMoments) /\ Len(past) = 1 /\ past[1] = G!Moment(repo)
  BY <1>9, <1>10
<1>12. Len(answers) = 0 /\ Len(asked) = 0 /\ answers \in Seq(GitReplies) /\ output \in Seq(GitReplies) /\ asked \in Seq(Nat)
  BY <1>9
<1>13. GitAll \in {4, 6, 8}
  BY <1>9, GitSizes
<1>14. GitTypes
  BY <1>8, <1>9, <1>11, <1>12, <1>13 DEF GitTypes
<1>15. GitRecorded
  <2>1. /\ G!Moment(repo).revision \in 1 .. Len(repo.tree)
        /\ G!Moment(repo).tree = repo.tree[G!Moment(repo).revision]
        /\ G!Moment(repo).status = {} => /\ G!Moment(repo).index = G!Moment(repo).tree
                                         /\ G!Moment(repo).work = G!Moment(repo).tree
    BY <1>8, GitSeenWhole
  <2> QED
    BY <1>11, <2>1 DEF GitRecorded
<1>16. GitTimed /\ GitTold /\ GitProgress /\ GitAccepting /\ GitWatched
  BY <1>9, <1>12, <1>13 DEF GitTimed, GitTold, GitProgress, GitAccepting, GitWatched
<1> QED
  BY <1>14, <1>15, <1>16 DEF GitInv

\* Every step keeps the invariant.
LEMMA GitSteps == G!RepositoryAssumption /\ GitInv /\ [G!Next]_(G!vars) => GitInv'
  BY GitNoSteps, GitOpenRepositoryKeeps, GitVerifyMarkerKeeps, GitRunGitKeeps, GitJudgeKeeps, GitEditKeeps, GitStageKeeps,
     GitForgetKeeps, GitCommitKeeps, GitSwitchKeeps, GitReplaceMarkerKeeps DEF G!Next, G!Ended

\* The types are those the run checks.
LEMMA GitTypesMeant == GitInv => G!TypeOK
  BY GitCounts DEF GitInv, GitTypes, GitProgress, G!TypeOK, GitAll

\* What was the same at two moments of the observation was the same between them, unless
\* something was changed and changed back.
LEMMA GitHeld ==
  ASSUME GitInv, Len(asked) >= 1, ~G!SomethingReturned,
         NEW i \in G!Window, NEW j \in G!Window, NEW k \in G!Window, i <= j, j <= k
  PROVE  /\ past[i].revision = past[k].revision => past[j].revision = past[i].revision
         /\ past[i].branch = past[k].branch => past[j].branch = past[i].branch
         /\ past[i].status = past[k].status => past[j].status = past[i].status
         /\ past[i].index = past[k].index => past[j].index = past[i].index
         /\ past[i].listed = past[k].listed => past[j].listed = past[i].listed
         /\ past[i].deleted = past[k].deleted => past[j].deleted = past[i].deleted
         /\ past[i].marker = past[k].marker => past[j].marker = past[i].marker
<1>1. \A n \in G!Window : n \in Nat
  <2>1. asked[1] \in 1 .. Len(past) /\ asked[Len(asked)] \in 1 .. Len(past) /\ Len(past) \in Nat
    BY GitCounts DEF GitInv, GitTimed
  <2> QED
    BY <2>1 DEF G!Window
<1>2. i = j \/ j = k \/ (i < j /\ j < k)
  BY <1>1
<1> QED
  BY <1>2 DEF G!SomethingReturned, G!Returned

\* An accepted question: both rounds answered, and alike.
LEMMA GitRounds ==
  ASSUME GitInv, result = "ok", NEW h \in {2, 3, 4}, GitAll = 2 * h
  PROVE  /\ Len(answers) = 2 * h /\ Len(asked) = 2 * h
         /\ \A i \in 1 .. h : answers[i] = answers[h + i]
         /\ G!Answered \in Seq(GitReplies) /\ Len(G!Answered) = h
         /\ \A i \in 1 .. h : G!Answered[i] = answers[i]
         /\ \A i \in 1 .. 2 * h : asked[i] \in G!Window /\ asked[i] \in 1 .. Len(past)
         /\ \A i, j \in 1 .. 2 * h : i <= j => asked[i] <= asked[j]
         /\ \A i \in 1 .. 2 * h : GitSaid(i, answers[i])
<1>1. /\ Len(answers) = 2 * h /\ Len(asked) = 2 * h /\ G!RoundsAgree(answers)
      /\ answers \in Seq(GitReplies) /\ asked \in Seq(Nat) /\ Len(past) \in Nat
      /\ 1 \in 1 .. Len(asked) /\ Len(asked) \in 1 .. Len(asked)
  BY GitCounts DEF GitInv, GitProgress, GitTypes
<1>2. Len(answers) \div 2 = h
  BY <1>1
<1>3. \A i \in 1 .. h : answers[i] = answers[h + i]
  BY <1>1, <1>2 DEF G!RoundsAgree
<1>4. /\ G!Answered \in Seq(GitReplies) /\ Len(G!Answered) = h
      /\ \A i \in 1 .. h : G!Answered[i] = answers[i]
  <2>1. G!Answered = SubSeq(answers, 1, h)
    BY <1>2 DEF G!Answered
  <2>2. /\ SubSeq(answers, 1, h) \in Seq(GitReplies)
        /\ Len(SubSeq(answers, 1, h)) = IF 1 <= h THEN h - 1 + 1 ELSE 0
        /\ \A i \in 1 .. h - 1 + 1 : SubSeq(answers, 1, h)[i] = answers[1 + i - 1]
    <3>1. 1 \in 1 .. Len(answers) + 1 /\ h \in 1 - 1 .. Len(answers)
      BY <1>1
    <3> QED
      BY <1>1, <3>1, SubSeqProperties
  <2> QED
    BY <2>1, <2>2
<1>5. \A i, j \in 1 .. 2 * h : i <= j => asked[i] <= asked[j]
  BY <1>1 DEF GitInv, GitTimed
<1>6. ASSUME NEW i \in 1 .. 2 * h PROVE asked[i] \in G!Window /\ asked[i] \in 1 .. Len(past)
  <2>1. asked[i] \in 1 .. Len(past) /\ asked[1] \in 1 .. Len(past) /\ asked[2 * h] \in 1 .. Len(past)
    BY <1>1 DEF GitInv, GitTimed
  <2>2. asked[1] <= asked[i] /\ asked[i] <= asked[2 * h]
    BY <1>5
  <2>3. asked[Len(asked)] = asked[2 * h]
    BY <1>1
  <2> QED
    BY <1>1, <2>1, <2>2, <2>3 DEF G!Window
<1>7. \A i \in 1 .. 2 * h : GitSaid(i, answers[i])
  BY <1>1 DEF GitInv, GitTold
<1> QED
  BY <1>1, <1>3, <1>4, <1>5, <1>6, <1>7

\* The marker at the end of the first round.
LEMMA GitMarkerHeld ==
  ASSUME GitInv, result = "ok", NEW h \in {2, 3, 4}, GitAll = 2 * h, ~G!SomethingReturned
  PROVE  past[asked[h]].marker = marker
<1>1. /\ Len(asked) = 2 * h
      /\ \A i \in 1 .. 2 * h : asked[i] \in G!Window /\ asked[i] \in 1 .. Len(past)
      /\ \A i, j \in 1 .. 2 * h : i <= j => asked[i] <= asked[j]
  BY GitRounds
<1>2. 1 \in 1 .. 2 * h /\ 2 \in 1 .. 2 * h /\ h \in 1 .. 2 * h /\ 2 * h - 1 \in 1 .. 2 * h /\ 2 * h \in 1 .. 2 * h
      /\ (2 * h - 1) + 1 = 2 * h /\ 1 <= Len(asked)
      /\ 1 \in 1 .. Len(asked) - 1 /\ 2 * h - 1 \in 1 .. Len(asked) - 1
  BY <1>1
<1>3. GitMarkedIn(asked[1], asked[2]) /\ GitMarkedIn(asked[2 * h - 1], asked[2 * h])
  <2>1. GitMarkedIn(asked[1], asked[1 + 1]) /\ GitMarkedIn(asked[2 * h - 1], asked[(2 * h - 1) + 1])
    BY <1>2 DEF GitInv, GitWatched
  <2> QED
    BY <1>2, <2>1
<1>4. PICK t \in asked[1] .. asked[2] : past[t].marker = marker
  BY <1>3 DEF GitMarkedIn
<1>5. PICK u \in asked[2 * h - 1] .. asked[2 * h] : past[u].marker = marker
  BY <1>3 DEF GitMarkedIn
<1>6. /\ asked[1] \in Nat /\ asked[2] \in Nat /\ asked[h] \in Nat /\ asked[2 * h - 1] \in Nat
      /\ asked[2 * h] \in Nat
  <2>1. Len(past) \in Nat
    BY GitCounts
  <2> QED
    BY <1>1, <1>2, <2>1
<1>7. asked[2] <= asked[h] /\ asked[h] <= asked[2 * h - 1] /\ asked[1] <= asked[2]
      /\ asked[2 * h - 1] <= asked[2 * h]
  BY <1>1, <1>2
<1>8. G!Window = asked[1] .. asked[2 * h]
  BY <1>1 DEF G!Window
<1>9. t \in G!Window /\ u \in G!Window /\ asked[h] \in G!Window /\ t <= asked[h] /\ asked[h] <= u
  BY <1>4, <1>5, <1>6, <1>7, <1>8
<1>10. Len(asked) >= 1
  BY <1>1
<1>11. past[t].marker = past[u].marker => past[asked[h]].marker = past[t].marker
  BY <1>9, <1>10, GitHeld
<1> QED
  BY <1>4, <1>5, <1>11

\* The end of the first round lies between the two askings of every command.
LEMMA GitAnswerHeld ==
  ASSUME GitInv, result = "ok", NEW h \in {2, 3, 4}, GitAll = 2 * h, ~G!SomethingReturned,
         NEW i \in 1 .. h, GitCommand(h + i) = GitCommand(i)
  PROVE  /\ GitCommand(i) = "deleted" => past[asked[h]].deleted = answers[i]
         /\ GitCommand(i) = "listed" => past[asked[h]].listed = answers[i]
         /\ GitCommand(i) \in {"revision", "commit"} => past[asked[h]].revision = answers[i]
         /\ GitCommand(i) = "branch" => past[asked[h]].branch = answers[i]
         /\ GitCommand(i) \in {"status", "clean"} => past[asked[h]].status = answers[i]
         /\ GitCommand(i) = "index" => past[asked[h]].index = answers[i]
<1>1. i \in 1 .. 2 * h /\ h \in 1 .. 2 * h /\ h + i \in 1 .. 2 * h /\ i <= h /\ h <= h + i
  OBVIOUS
<1>2. /\ Len(asked) >= 1
      /\ asked[i] \in G!Window /\ asked[h] \in G!Window /\ asked[h + i] \in G!Window
      /\ asked[i] <= asked[h] /\ asked[h] <= asked[h + i]
      /\ GitSaid(i, answers[i]) /\ GitSaid(h + i, answers[h + i]) /\ answers[h + i] = answers[i]
  <2>1. /\ Len(asked) = 2 * h
        /\ \A j \in 1 .. h : answers[j] = answers[h + j]
        /\ \A j \in 1 .. 2 * h : asked[j] \in G!Window
        /\ \A j, k \in 1 .. 2 * h : j <= k => asked[j] <= asked[k]
        /\ \A j \in 1 .. 2 * h : GitSaid(j, answers[j])
    BY GitRounds
  <2>2. Len(asked) >= 1
    BY <2>1
  <2>3. GitSaid(i, answers[i]) /\ GitSaid(h + i, answers[h + i])
    BY <1>1, <2>1
  <2>4. asked[i] <= asked[h] /\ asked[h] <= asked[h + i]
    BY <1>1, <2>1
  <2>5. asked[i] \in G!Window /\ asked[h] \in G!Window /\ asked[h + i] \in G!Window
    BY <1>1, <2>1
  <2>6. answers[h + i] = answers[i]
    BY <2>1
  <2> QED
    BY <2>2, <2>3, <2>4, <2>5, <2>6
<1> DEFINE a == past[asked[i]]
           b == past[asked[h]]
           c == past[asked[h + i]]
<1>3. /\ a.revision = c.revision => b.revision = a.revision
      /\ a.branch = c.branch => b.branch = a.branch
      /\ a.status = c.status => b.status = a.status
      /\ a.index = c.index => b.index = a.index
      /\ a.listed = c.listed => b.listed = a.listed
      /\ a.deleted = c.deleted => b.deleted = a.deleted
  BY <1>2, GitHeld
<1>4. /\ GitCommand(i) = "deleted" => answers[i] = a.deleted /\ answers[i] = c.deleted
      /\ GitCommand(i) = "listed" => answers[i] = a.listed /\ answers[i] = c.listed
      /\ GitCommand(i) \in {"revision", "commit"} => answers[i] = a.revision /\ answers[i] = c.revision
      /\ GitCommand(i) = "branch" => answers[i] = a.branch /\ answers[i] = c.branch
      /\ GitCommand(i) \in {"status", "clean"} => answers[i] = a.status /\ answers[i] = c.status
      /\ GitCommand(i) = "index" => answers[i] = a.index /\ answers[i] = c.index
  BY <1>2 DEF GitSaid
<1> HIDE DEF a, b, c
<1>5. /\ GitCommand(i) = "deleted" => b.deleted = answers[i]
      /\ GitCommand(i) = "listed" => b.listed = answers[i]
      /\ GitCommand(i) \in {"revision", "commit"} => b.revision = answers[i]
      /\ GitCommand(i) = "branch" => b.branch = answers[i]
      /\ GitCommand(i) \in {"status", "clean"} => b.status = answers[i]
      /\ GitCommand(i) = "index" => b.index = answers[i]
  BY <1>3, <1>4
<1> QED
  BY <1>5 DEF b

\* What each question is about.
LEMMA GitAbouts ==
  ASSUME NEW m
  PROVE  /\ question = "file set" => G!About(m) = <<m.deleted, m.listed>>
         /\ question = "identity" => G!About(m) = <<m.revision, m.branch, m.status, m.index>>
         /\ question = "publication" => G!About(m) = <<m.revision, m.status, m.tree>>
BY DEF G!About

\* A tuple whose parts are those of an answer is the answer.
\* A tuple is known by its members.
LEMMA GitTuples ==
  ASSUME NEW s \in Seq(GitReplies)
  PROVE  /\ Len(s) = 2 => s = <<s[1], s[2]>>
         /\ Len(s) = 3 => s = <<s[1], s[2], s[3]>>
         /\ Len(s) = 4 => s = <<s[1], s[2], s[3], s[4]>>
<1>1. ASSUME Len(s) = 2 PROVE s = <<s[1], s[2]>>
  <2>1. s[1] \in GitReplies /\ s[2] \in GitReplies
    <3>1. \A i \in 1 .. 2 : s[i] \in GitReplies
      BY <1>1, ElementOfSeq
    <3> QED
      BY <3>1
  <2> DEFINE t == <<s[1], s[2]>>
  <2>2. t \in Seq(GitReplies) /\ Len(t) = 2 /\ t[1] = s[1] /\ t[2] = s[2]
    BY <2>1
  <2>3. \A i \in 1 .. 2 : i = 1 \/ i = 2
    OBVIOUS
  <2> HIDE DEF t
  <2>4. s = t
    BY <1>1, <2>2, <2>3, SeqEqual
  <2> QED
    BY <2>4 DEF t
<1>2. ASSUME Len(s) = 3 PROVE s = <<s[1], s[2], s[3]>>
  <2>1. s[1] \in GitReplies /\ s[2] \in GitReplies /\ s[3] \in GitReplies
    <3>1. \A i \in 1 .. 3 : s[i] \in GitReplies
      BY <1>2, ElementOfSeq
    <3> QED
      BY <3>1
  <2> DEFINE t == <<s[1], s[2], s[3]>>
  <2>2. t \in Seq(GitReplies) /\ Len(t) = 3 /\ t[1] = s[1] /\ t[2] = s[2] /\ t[3] = s[3]
    BY <2>1
  <2>3. \A i \in 1 .. 3 : i = 1 \/ i = 2 \/ i = 3
    OBVIOUS
  <2> HIDE DEF t
  <2>4. s = t
    BY <1>2, <2>2, <2>3, SeqEqual
  <2> QED
    BY <2>4 DEF t
<1>3. ASSUME Len(s) = 4 PROVE s = <<s[1], s[2], s[3], s[4]>>
  <2>1. s[1] \in GitReplies /\ s[2] \in GitReplies /\ s[3] \in GitReplies /\ s[4] \in GitReplies
    <3>1. \A i \in 1 .. 4 : s[i] \in GitReplies
      BY <1>3, ElementOfSeq
    <3> QED
      BY <3>1
  <2> DEFINE t == <<s[1], s[2], s[3], s[4]>>
  <2>2. t \in Seq(GitReplies) /\ Len(t) = 4 /\ t[1] = s[1] /\ t[2] = s[2] /\ t[3] = s[3] /\ t[4] = s[4]
    BY <2>1
  <2>3. \A i \in 1 .. 4 : i = 1 \/ i = 2 \/ i = 3 \/ i = 4
    OBVIOUS
  <2> HIDE DEF t
  <2>4. s = t
    BY <1>3, <2>2, <2>3, SeqEqual
  <2> QED
    BY <2>4 DEF t
<1> QED
  BY <1>1, <1>2, <1>3

\* An accepted answer is true of the end of the first round.
LEMMA GitOneMoment ==
  ASSUME GitInv, result = "ok"
  PROVE  /\ ~G!SomethingReturned =>
              \E i \in G!Window : /\ G!About(past[i]) = G!Answered /\ past[i].marker = marker
                                  /\ question = "publication" => /\ past[i].index = G!Answered[3]
                                                                 /\ past[i].work = G!Answered[3]
         /\ question = "publication" => /\ G!Answered[1] # 1
                                        /\ G!Answered[3] = repo.tree[G!Answered[1]]
<1>1. question \in GitQuestions
  BY GitCounts
<1>2. CASE question = "file set"
  <2>1. /\ GitAll = 2 * 2 /\ GitCommand(1) = "deleted" /\ GitCommand(2) = "listed"
        /\ GitCommand(2 + 1) = "deleted" /\ GitCommand(2 + 2) = "listed"
    <3>1. /\ GitAll = 4 /\ GitCommand(1) = "deleted" /\ GitCommand(2) = "listed"
          /\ GitCommand(3) = "deleted" /\ GitCommand(4) = "listed"
      BY <1>1, <1>2, GitListing
    <3> QED
      BY <3>1
  <2>2. /\ G!Answered \in Seq(GitReplies) /\ Len(G!Answered) = 2 /\ asked[2] \in G!Window
        /\ G!Answered[1] = answers[1] /\ G!Answered[2] = answers[2]
    <3>1. /\ G!Answered \in Seq(GitReplies) /\ Len(G!Answered) = 2
          /\ \A i \in 1 .. 2 : G!Answered[i] = answers[i]
          /\ \A i \in 1 .. 2 * 2 : asked[i] \in G!Window
      BY <2>1, GitRounds
    <3> QED
      BY <3>1
  <2>3. ASSUME ~G!SomethingReturned
        PROVE  G!About(past[asked[2]]) = G!Answered /\ past[asked[2]].marker = marker
    <3>1. past[asked[2]].deleted = answers[1]
      BY <2>1, <2>3, GitAnswerHeld
    <3>2. past[asked[2]].listed = answers[2]
      BY <2>1, <2>3, GitAnswerHeld
    <3>3. past[asked[2]].marker = marker
      BY <2>1, <2>3, GitMarkerHeld
    <3>4. G!About(past[asked[2]]) = <<past[asked[2]].deleted, past[asked[2]].listed>>
      BY <1>2, GitAbouts
    <3>5. G!Answered = <<G!Answered[1], G!Answered[2]>>
      BY <2>2, GitTuples
    <3> QED
      BY <2>2, <3>1, <3>2, <3>3, <3>4, <3>5
  <2> QED
    BY <1>2, <2>2, <2>3
<1>3. CASE question = "identity"
  <2>1. /\ GitAll = 2 * 4 /\ GitCommand(1) = "revision" /\ GitCommand(2) = "branch"
        /\ GitCommand(3) = "status" /\ GitCommand(4) = "index"
        /\ GitCommand(4 + 1) = "revision" /\ GitCommand(4 + 2) = "branch"
        /\ GitCommand(4 + 3) = "status" /\ GitCommand(4 + 4) = "index"
    BY <1>1, <1>3, GitListing
  <2>2. /\ G!Answered \in Seq(GitReplies) /\ Len(G!Answered) = 4 /\ asked[4] \in G!Window
        /\ G!Answered[1] = answers[1] /\ G!Answered[2] = answers[2]
        /\ G!Answered[3] = answers[3] /\ G!Answered[4] = answers[4]
    <3>1. /\ G!Answered \in Seq(GitReplies) /\ Len(G!Answered) = 4
          /\ \A i \in 1 .. 4 : G!Answered[i] = answers[i]
          /\ \A i \in 1 .. 2 * 4 : asked[i] \in G!Window
      BY <2>1, GitRounds
    <3> QED
      BY <3>1
  <2>3. ASSUME ~G!SomethingReturned
        PROVE  G!About(past[asked[4]]) = G!Answered /\ past[asked[4]].marker = marker
    <3>1. past[asked[4]].revision = answers[1]
      BY <2>1, <2>3, GitAnswerHeld
    <3>2. past[asked[4]].branch = answers[2]
      BY <2>1, <2>3, GitAnswerHeld
    <3>3. past[asked[4]].status = answers[3]
      BY <2>1, <2>3, GitAnswerHeld
    <3>4. past[asked[4]].index = answers[4]
      BY <2>1, <2>3, GitAnswerHeld
    <3>5. past[asked[4]].marker = marker
      BY <2>1, <2>3, GitMarkerHeld
    <3>6. G!About(past[asked[4]]) = <<past[asked[4]].revision, past[asked[4]].branch,
                                      past[asked[4]].status, past[asked[4]].index>>
      BY <1>3, GitAbouts
    <3>7. G!Answered = <<G!Answered[1], G!Answered[2], G!Answered[3], G!Answered[4]>>
      BY <2>2, GitTuples
    <3> QED
      BY <2>2, <3>1, <3>2, <3>3, <3>4, <3>5, <3>6, <3>7
  <2> QED
    BY <1>3, <2>2, <2>3
<1>4. CASE question = "publication"
  <2>1. /\ GitAll = 2 * 3 /\ GitCommand(1) = "commit" /\ GitCommand(2) = "clean" /\ GitCommand(3) = "tree"
        /\ GitCommand(3 + 1) = "commit" /\ GitCommand(3 + 2) = "clean" /\ GitCommand(3 + 3) = "tree"
    BY <1>1, <1>4, GitListing
  <2>2. /\ G!Answered \in Seq(GitReplies) /\ Len(G!Answered) = 3 /\ asked[3] \in G!Window
        /\ asked[3] \in 1 .. Len(past)
        /\ G!Answered[1] = answers[1] /\ G!Answered[2] = answers[2] /\ G!Answered[3] = answers[3]
        /\ GitSaid(3, answers[3]) /\ Len(answers) = 6
    <3>1. /\ G!Answered \in Seq(GitReplies) /\ Len(G!Answered) = 3
          /\ \A i \in 1 .. 3 : G!Answered[i] = answers[i]
          /\ \A i \in 1 .. 2 * 3 : asked[i] \in G!Window /\ asked[i] \in 1 .. Len(past)
          /\ \A i \in 1 .. 2 * 3 : GitSaid(i, answers[i])
          /\ Len(answers) = 2 * 3
      BY <2>1, GitRounds
    <3> QED
      BY <3>1
  <2>3. answers[1] # 1 /\ answers[2] = {} /\ answers[3] = repo.tree[answers[1]]
    <3>1. answers[1] # 1 /\ answers[2] = {}
      BY <2>1, <2>2 DEF GitInv, GitAccepting
    <3>2. answers[3] = repo.tree[answers[3 - 2]]
      BY <2>1, <2>2 DEF GitSaid
    <3> QED
      BY <3>1, <3>2
  <2>4. ASSUME ~G!SomethingReturned
        PROVE  /\ G!About(past[asked[3]]) = G!Answered /\ past[asked[3]].marker = marker
               /\ past[asked[3]].index = G!Answered[3] /\ past[asked[3]].work = G!Answered[3]
    <3>1. past[asked[3]].revision = answers[1]
      BY <2>1, <2>4, GitAnswerHeld
    <3>2. past[asked[3]].status = answers[2]
      BY <2>1, <2>4, GitAnswerHeld
    <3>3. past[asked[3]].marker = marker
      BY <2>1, <2>4, GitMarkerHeld
    <3>4. /\ past[asked[3]].tree = repo.tree[past[asked[3]].revision]
          /\ past[asked[3]].status = {} => /\ past[asked[3]].index = past[asked[3]].tree
                                           /\ past[asked[3]].work = past[asked[3]].tree
      BY <2>2 DEF GitInv, GitRecorded
    <3>5. past[asked[3]].tree = answers[3]
      BY <2>3, <3>1, <3>4
    <3>6. G!About(past[asked[3]]) = <<past[asked[3]].revision, past[asked[3]].status,
                                      past[asked[3]].tree>>
      BY <1>4, GitAbouts
    <3>7. G!Answered = <<G!Answered[1], G!Answered[2], G!Answered[3]>>
      BY <2>2, GitTuples
    <3>8. past[asked[3]].index = G!Answered[3] /\ past[asked[3]].work = G!Answered[3]
      BY <2>2, <2>3, <3>2, <3>4, <3>5
    <3> QED
      BY <2>2, <3>1, <3>2, <3>3, <3>5, <3>6, <3>7, <3>8
  <2> QED
    BY <2>2, <2>3, <2>4
<1> QED
  BY <1>1, <1>2, <1>3, <1>4 DEF GitQuestions

\* What the invariant says of an accepted answer.
LEMMA GitPromises == ASSUME GitInv PROVE G!AcceptedWasTrue /\ G!PublishedIsCommitted
<1>1. G!AcceptedWasTrue
  BY GitOneMoment DEF G!AcceptedWasTrue
<1>2. G!PublishedIsCommitted
  BY GitOneMoment DEF G!PublishedIsCommitted
<1> QED
  BY <1>1, <1>2

-----------------------------------------------------------------------------
(* The test suite: a test whose events are not empty is accounted for -    *)
(* its body came to its end, it skipped itself, or the run has failed.     *)

SuiteTestPoints == {"leave", "module", "class", "start", "setUp", "method", "tearDown", "cleanup",
                    "finish", "stop", "after"}

\* While a test or what lies between two tests is run, the cursor is on a test.
SuitePlaced == pc \in SuiteTestPoints => cursor \in 1 .. Len(Order)

\* What the verdict says of where the run is, and that an outcome is given for a suite that
\* is bound as it was frozen.
SuiteJudged ==
    /\ verdict = "refused" => pc \in {"close", "done"}
    /\ verdict = "outcome" => pc \in {"close", "root"}
    /\ verdict = "accepted" => pc = "done" /\ S!MeetsContract
    /\ pc = "root" => verdict = "outcome"
    /\ verdict \in {"outcome", "accepted"} => tickets = {} /\ rebound = {} /\ refixed = {}

\* Outside the run unittest is as it was found.
SuiteHooked == pc \in {"contract", "install", "root", "done"} => hooks = "original" /\ unmarked = {}

\* A test skipped itself with a ticket; it is accounted for when it did, when its body came
\* to its end, or when the run has failed.
SuiteSpoken(t) == \E k \in S!Kinds : <<t, k>> \in skips
SuiteAccounted(t) == t \in completed \/ bad = TRUE \/ SuiteSpoken(t)

\* A test that is stopped has an event.
SuiteStops == \A t \in stopped : events[t] # {}

\* A test that has an event is accounted for, is about to be, or the run is refused.
SuiteOutcomes ==
    \A t \in S!Tests : events[t] # {} =>
        verdict = "refused" \/ (pc = "method" /\ t = S!Test) \/ SuiteAccounted(t)
\* A test whose parts went on after its body is accounted for.
SuiteEnds == /\ pc = "tearDown" => SuiteAccounted(S!Test)
             /\ pc \in {"cleanup", "finish"} /\ success = TRUE => SuiteAccounted(S!Test)

\* The tests that reached a skip are those with a skip on the ledger, or the run is refused.
SuiteSeen ==
         /\ \A t \in S!Tests : SuiteSpoken(t) => t \in reached
         /\ verdict # "refused" => \A t \in reached : SuiteSpoken(t)

\* What is broken has failed.
SuiteFailed == broken = TRUE => bad = TRUE

\* The types, part by part.
SuiteFactTypes == /\ holds \subseteq S!Kinds /\ marked \subseteq S!Tests /\ unmarked \subseteq S!Tests
                  /\ sites \in [S!Tests -> {"none", "bound", "moved"}]
SuitePointTypes ==
    /\ pc \in {"contract", "install", "next", "leave", "module", "class", "start", "setUp",
               "method", "tearDown", "cleanup", "finish", "stop", "after", "last",
               "lastModule", "judge", "close", "root", "done"}
    /\ verdict \in {"none", "outcome", "accepted", "refused"}
    /\ hooks \in {"original", "verified"}
SuiteCourseTypes == /\ cursor \in 1 .. Len(Order) + 1 /\ lastClass \in S!Classes \cup {S!None}
                    /\ classFailed \subseteq S!Classes
SuiteFlagTypes == /\ moduleFailed \in BOOLEAN /\ success \in BOOLEAN /\ bad \in BOOLEAN
                  /\ drift \in BOOLEAN /\ broken \in BOOLEAN
SuiteCardTypes == /\ tickets \subseteq S!Tests \X (1 .. MaxTickets) /\ held \subseteq S!Tests \X (1 .. MaxTickets)
                  /\ issued \in [S!Tests -> 0 .. MaxTickets]
SuiteLedgerTypes == /\ active \in S!Tests \cup {S!None} /\ started \subseteq S!Tests /\ stopped \subseteq S!Tests
                    /\ completed \subseteq S!Tests /\ reached \subseteq S!Tests
                    /\ events \in [S!Tests -> SUBSET S!Events] /\ skips \subseteq S!Tests \X S!Kinds
SuiteBindingTypes == /\ rebound \subseteq S!Tests /\ refixed \subseteq S!Classes
                     /\ tampering \in 0 .. MaxTampering

SuiteTyped == /\ SuiteFactTypes /\ SuitePointTypes /\ SuiteCourseTypes /\ SuiteFlagTypes /\ SuiteCardTypes /\ SuiteLedgerTypes
              /\ SuiteBindingTypes

SuiteInv == SuiteTyped /\ SuitePlaced /\ SuiteJudged /\ SuiteHooked /\ SuiteStops /\ SuiteOutcomes /\ SuiteEnds /\ SuiteSeen /\ SuiteFailed

USE DEF S!facts, S!suite, S!ledger, S!cards, S!bindings, S!adapter, S!history, SuiteTestPoints,
       S!Terminal, S!Events, S!Kinds, S!Parts

\* The test under the cursor is one of the suite.
LEMMA SuiteRanges ==
  ASSUME S!SuiteAssumption, SuitePlaced
  PROVE  /\ pc \in SuiteTestPoints => cursor \in 1 .. Len(Order) /\ S!Test \in S!Tests /\ ClassOf[S!Test] \in S!Classes
         /\ \A t \in S!Tests : ClassOf[t] \in S!Classes
         /\ Len(Order) \in Nat
BY DEF SuitePlaced, S!Test, S!Tests, S!Classes, S!SuiteAssumption

\* Where a part of a test leads.
LEMMA SuiteLeads ==
  /\ S!After("setUp", TRUE) = "method" /\ S!After("setUp", FALSE) = "cleanup"
  /\ \A ok \in BOOLEAN : S!After("method", ok) = "tearDown" /\ S!After("tearDown", ok) = "cleanup"
                         /\ S!After("cleanup", ok) = "finish"
BY DEF S!After

\* When every case is intact, nothing is rebound.
LEMMA SuiteEmptied ==
  ASSUME SuiteTyped, \A t \in S!Tests : S!CaseIntact(t)
  PROVE  rebound = {} /\ refixed = {}
BY DEF SuiteTyped, SuiteBindingTypes, S!CaseIntact, S!Classes

\* The types are those the run checks.
LEMMA SuiteTypesMeant == SuiteTyped <=> S!TypeOK
BY Zenon DEF SuiteTyped, S!TypeOK, SuiteFactTypes, SuitePointTypes, SuiteCourseTypes,
       SuiteFlagTypes, SuiteCardTypes, SuiteLedgerTypes, SuiteBindingTypes

\* Tampering keeps to the methods and fixtures of the suite.
LEMMA SuiteTampered == ASSUME S!SuiteAssumption, SuiteBindingTypes, S!Tamper PROVE SuiteBindingTypes'
<1>1. tampering' \in 0 .. MaxTampering
  BY DEF S!Tamper, SuiteBindingTypes, S!SuiteAssumption
<1>2. CASE \E t \in S!Tests : rebound' \in {rebound \cup {t}, rebound \ {t}} /\ UNCHANGED refixed
  BY <1>1, <1>2 DEF SuiteBindingTypes
<1>3. CASE \E c \in S!Classes : refixed' \in {refixed \cup {c}, refixed \ {c}} /\ UNCHANGED rebound
  BY <1>1, <1>3 DEF SuiteBindingTypes
<1> QED
  BY <1>2, <1>3 DEF S!Tamper

SuiteGrows == /\ completed \subseteq completed' /\ skips \subseteq skips'
              /\ bad = TRUE => bad' = TRUE

\* A test that is accounted for stays so.
LEMMA SuiteAccountedStays == ASSUME SuiteGrows, NEW t, SuiteAccounted(t) PROVE SuiteAccounted(t)'
BY DEF SuiteGrows, SuiteAccounted, SuiteSpoken

\* When a step keeps every test with events accounted for.
LEMMA SuiteOutcomesStay ==
  ASSUME SuiteOutcomes, SuiteGrows, verdict = "refused" => verdict' = "refused",
         \A t \in S!Tests : t # S!Test => events'[t] = events[t],
         \/ events' = events /\ pc # "method"
         \/ verdict' = "refused"
         \/ pc' = "method" /\ S!Test' = S!Test
         \/ S!Test' = S!Test /\ SuiteAccounted(S!Test)'
  PROVE  SuiteOutcomes'
<1> SUFFICES ASSUME NEW t \in S!Tests, events'[t] # {}, verdict' # "refused",
                    ~(pc' = "method" /\ t = S!Test'), ~SuiteAccounted(t)'
             PROVE FALSE
  BY DEF SuiteOutcomes
<1>1. ~SuiteAccounted(t)
  BY SuiteAccountedStays
<1>2. CASE t # S!Test
  BY <1>1, <1>2 DEF SuiteOutcomes
<1>3. CASE t = S!Test
  <2>1. CASE events' = events /\ pc # "method"
    BY <1>1, <1>3, <2>1 DEF SuiteOutcomes
  <2>2. CASE pc' = "method" /\ S!Test' = S!Test
    BY <1>3, <2>2
  <2>3. CASE S!Test' = S!Test /\ SuiteAccounted(S!Test)'
    <3>1. S!Test' = t
      BY <1>3, <2>3
    <3>2. SuiteAccounted(t)'
      BY <2>3, <3>1 DEF SuiteAccounted, SuiteSpoken
    <3> QED
      BY <3>2
  <2> QED
    BY <2>1, <2>2, <2>3
<1> QED
  BY <1>2, <1>3

\* When a step keeps the test that is ending accounted for.
LEMMA SuiteEndsStay ==
  ASSUME SuiteEnds, SuiteGrows, S!Test' = S!Test,
         pc' = "tearDown" => pc = "tearDown" \/ SuiteAccounted(S!Test)',
         pc' \in {"cleanup", "finish"} /\ success' = TRUE =>
            (pc \in {"tearDown", "cleanup", "finish"} /\ success = TRUE) \/ SuiteAccounted(S!Test)'
  PROVE  SuiteEnds'
BY SuiteAccountedStays DEF SuiteEnds, SuiteAccounted, SuiteSpoken

\* Contract keeps the invariant.
LEMMA SuiteContractKeeps ==
  ASSUME S!SuiteAssumption, SuiteInv, S!Contract
  PROVE  SuiteInv'
<1> USE DEF S!Contract, S!Escape
<1>1. SuiteTyped'
  <2>1. SuiteFactTypes'
    BY DEF SuiteInv, SuiteTyped, SuiteFactTypes
  <2>2. SuitePointTypes'
    BY SuiteLeads DEF SuiteInv, SuiteTyped, SuitePointTypes, SuiteFlagTypes
  <2>3. SuiteCourseTypes'
    BY SuiteRanges DEF SuiteInv, SuiteTyped, SuitePointTypes, SuiteCourseTypes, SuitePlaced
  <2>4. SuiteFlagTypes'
    BY DEF SuiteInv, SuiteTyped, SuiteFlagTypes
  <2>5. SuiteCardTypes'
    BY SuiteRanges DEF SuiteInv, SuiteTyped, SuiteCardTypes
  <2>6. SuiteLedgerTypes'
    BY SuiteRanges DEF SuiteInv, SuiteTyped, SuiteLedgerTypes
  <2>7. SuiteBindingTypes'
    BY SuiteRanges, SuiteTampered DEF SuiteInv, SuiteTyped, SuiteBindingTypes
  <2> QED
    BY <2>1, <2>2, <2>3, <2>4, <2>5, <2>6, <2>7 DEF SuiteTyped
<1>2. SuitePlaced'
  BY SuiteLeads, SuiteRanges DEF SuiteInv, SuiteCourseTypes, SuitePlaced, SuiteTyped,
         SuitePointTypes
<1>3. SuiteJudged'
  BY SuiteLeads, SuiteEmptied DEF SuiteInv, SuiteJudged, SuiteTyped, SuitePointTypes
<1>4. SuiteHooked'
  BY SuiteLeads DEF SuiteInv, SuiteHooked, SuiteTyped, SuitePointTypes
<1>5. SuiteStops'
  BY SuiteRanges DEF SuiteInv, SuiteStops, SuiteTyped, SuiteLedgerTypes
<1>6. SuiteOutcomes'
  BY SuiteRanges, SuiteLeads DEF SuiteInv, SuiteOutcomes, SuiteEnds, SuiteAccounted,
         SuiteSpoken, SuiteJudged, SuiteTyped, SuitePointTypes, SuiteFlagTypes, SuiteLedgerTypes
<1>9. SuiteEnds'
  BY SuiteRanges, SuiteLeads DEF SuiteInv, SuiteOutcomes, SuiteEnds, SuiteAccounted,
         SuiteSpoken, SuiteJudged, SuiteTyped, SuitePointTypes, SuiteFlagTypes, SuiteLedgerTypes
<1>7. SuiteSeen'
  BY DEF SuiteInv, SuiteSeen, SuiteSpoken, SuiteJudged, SuiteTyped, SuitePointTypes
<1>8. SuiteFailed'
  BY DEF SuiteInv, SuiteFailed, SuiteTyped, SuiteFlagTypes
<1> QED
  BY <1>1, <1>2, <1>3, <1>4, <1>5, <1>6, <1>7, <1>8, <1>9 DEF SuiteInv

\* Install keeps the invariant.
LEMMA SuiteInstallKeeps ==
  ASSUME S!SuiteAssumption, SuiteInv, S!Install
  PROVE  SuiteInv'
<1> USE DEF S!Install, S!Escape
<1>1. SuiteTyped'
  <2>1. SuiteFactTypes'
    BY DEF SuiteInv, SuiteTyped, SuiteFactTypes
  <2>2. SuitePointTypes'
    BY SuiteLeads DEF SuiteInv, SuiteTyped, SuitePointTypes, SuiteFlagTypes
  <2>3. SuiteCourseTypes'
    BY SuiteRanges DEF SuiteInv, SuiteTyped, SuitePointTypes, SuiteCourseTypes, SuitePlaced
  <2>4. SuiteFlagTypes'
    BY DEF SuiteInv, SuiteTyped, SuiteFlagTypes
  <2>5. SuiteCardTypes'
    BY SuiteRanges DEF SuiteInv, SuiteTyped, SuiteCardTypes
  <2>6. SuiteLedgerTypes'
    BY SuiteRanges DEF SuiteInv, SuiteTyped, SuiteLedgerTypes
  <2>7. SuiteBindingTypes'
    BY SuiteRanges, SuiteTampered DEF SuiteInv, SuiteTyped, SuiteBindingTypes
  <2> QED
    BY <2>1, <2>2, <2>3, <2>4, <2>5, <2>6, <2>7 DEF SuiteTyped
<1>2. SuitePlaced'
  BY SuiteLeads, SuiteRanges DEF SuiteInv, SuiteCourseTypes, SuitePlaced, SuiteTyped,
         SuitePointTypes
<1>3. SuiteJudged'
  BY SuiteLeads, SuiteEmptied DEF SuiteInv, SuiteJudged, SuiteTyped, SuitePointTypes
<1>4. SuiteHooked'
  BY SuiteLeads DEF SuiteInv, SuiteHooked, SuiteTyped, SuitePointTypes
<1>5. SuiteStops'
  BY SuiteRanges DEF SuiteInv, SuiteStops, SuiteTyped, SuiteLedgerTypes
<1>6. SuiteOutcomes'
  BY SuiteRanges, SuiteLeads DEF SuiteInv, SuiteOutcomes, SuiteEnds, SuiteAccounted,
         SuiteSpoken, SuiteJudged, SuiteTyped, SuitePointTypes, SuiteFlagTypes, SuiteLedgerTypes
<1>9. SuiteEnds'
  BY SuiteRanges, SuiteLeads DEF SuiteInv, SuiteOutcomes, SuiteEnds, SuiteAccounted,
         SuiteSpoken, SuiteJudged, SuiteTyped, SuitePointTypes, SuiteFlagTypes, SuiteLedgerTypes
<1>7. SuiteSeen'
  BY DEF SuiteInv, SuiteSeen, SuiteSpoken, SuiteJudged, SuiteTyped, SuitePointTypes
<1>8. SuiteFailed'
  BY DEF SuiteInv, SuiteFailed, SuiteTyped, SuiteFlagTypes
<1> QED
  BY <1>1, <1>2, <1>3, <1>4, <1>5, <1>6, <1>7, <1>8, <1>9 DEF SuiteInv

\* Edit keeps the invariant.
LEMMA SuiteEditKeeps ==
  ASSUME S!SuiteAssumption, SuiteInv, S!Edit
  PROVE  SuiteInv'
<1> USE DEF S!Edit, S!Escape
<1>1. SuiteTyped'
  <2>1. SuiteFactTypes'
    BY DEF SuiteInv, SuiteTyped, SuiteFactTypes
  <2>2. SuitePointTypes'
    BY SuiteLeads DEF SuiteInv, SuiteTyped, SuitePointTypes, SuiteFlagTypes
  <2>3. SuiteCourseTypes'
    BY SuiteRanges DEF SuiteInv, SuiteTyped, SuitePointTypes, SuiteCourseTypes, SuitePlaced
  <2>4. SuiteFlagTypes'
    BY DEF SuiteInv, SuiteTyped, SuiteFlagTypes
  <2>5. SuiteCardTypes'
    BY SuiteRanges DEF SuiteInv, SuiteTyped, SuiteCardTypes
  <2>6. SuiteLedgerTypes'
    BY SuiteRanges DEF SuiteInv, SuiteTyped, SuiteLedgerTypes
  <2>7. SuiteBindingTypes'
    BY SuiteRanges, SuiteTampered DEF SuiteInv, SuiteTyped, SuiteBindingTypes
  <2> QED
    BY <2>1, <2>2, <2>3, <2>4, <2>5, <2>6, <2>7 DEF SuiteTyped
<1>2. SuitePlaced'
  BY SuiteLeads, SuiteRanges DEF SuiteInv, SuiteCourseTypes, SuitePlaced, SuiteTyped,
         SuitePointTypes
<1>3. SuiteJudged'
  BY SuiteLeads, SuiteEmptied DEF SuiteInv, SuiteJudged, SuiteTyped, SuitePointTypes
<1>4. SuiteHooked'
  BY SuiteLeads DEF SuiteInv, SuiteHooked, SuiteTyped, SuitePointTypes
<1>5. SuiteStops'
  BY SuiteRanges DEF SuiteInv, SuiteStops, SuiteTyped, SuiteLedgerTypes
<1>6. SuiteOutcomes'
  <2>1. SuiteGrows /\ S!Test' = S!Test
    BY DEF SuiteGrows, S!Test
  <2> QED
    BY <2>1, SuiteOutcomesStay DEF SuiteInv
<1>9. SuiteEnds'
  <2>1. SuiteGrows /\ S!Test' = S!Test
    BY DEF SuiteGrows, S!Test
  <2> QED
    BY <2>1, SuiteEndsStay DEF SuiteInv
<1>7. SuiteSeen'
  BY DEF SuiteInv, SuiteSeen, SuiteSpoken, SuiteJudged, SuiteTyped, SuitePointTypes
<1>8. SuiteFailed'
  BY DEF SuiteInv, SuiteFailed, SuiteTyped, SuiteFlagTypes
<1> QED
  BY <1>1, <1>2, <1>3, <1>4, <1>5, <1>6, <1>7, <1>8, <1>9 DEF SuiteInv

\* NextTest keeps the invariant.
LEMMA SuiteNextTestKeeps ==
  ASSUME S!SuiteAssumption, SuiteInv, S!NextTest
  PROVE  SuiteInv'
<1> USE DEF S!NextTest, S!Escape, S!Test
<1>1. SuiteTyped'
  <2>1. SuiteFactTypes'
    BY DEF SuiteInv, SuiteTyped, SuiteFactTypes
  <2>2. SuitePointTypes'
    BY SuiteLeads DEF SuiteInv, SuiteTyped, SuitePointTypes, SuiteFlagTypes
  <2>3. SuiteCourseTypes'
    BY SuiteRanges DEF SuiteInv, SuiteTyped, SuitePointTypes, SuiteCourseTypes, SuitePlaced
  <2>4. SuiteFlagTypes'
    BY DEF SuiteInv, SuiteTyped, SuiteFlagTypes
  <2>5. SuiteCardTypes'
    BY SuiteRanges DEF SuiteInv, SuiteTyped, SuiteCardTypes
  <2>6. SuiteLedgerTypes'
    BY SuiteRanges DEF SuiteInv, SuiteTyped, SuiteLedgerTypes
  <2>7. SuiteBindingTypes'
    BY SuiteRanges, SuiteTampered DEF SuiteInv, SuiteTyped, SuiteBindingTypes
  <2> QED
    BY <2>1, <2>2, <2>3, <2>4, <2>5, <2>6, <2>7 DEF SuiteTyped
<1>2. SuitePlaced'
  BY SuiteLeads, SuiteRanges DEF SuiteInv, SuiteCourseTypes, SuitePlaced, SuiteTyped,
         SuitePointTypes
<1>3. SuiteJudged'
  BY SuiteLeads, SuiteEmptied DEF SuiteInv, SuiteJudged, SuiteTyped, SuitePointTypes
<1>4. SuiteHooked'
  BY SuiteLeads DEF SuiteInv, SuiteHooked, SuiteTyped, SuitePointTypes
<1>5. SuiteStops'
  BY SuiteRanges DEF SuiteInv, SuiteStops, SuiteTyped, SuiteLedgerTypes
<1>6. SuiteOutcomes'
  BY SuiteRanges, SuiteLeads DEF SuiteInv, SuiteOutcomes, SuiteEnds, SuiteAccounted,
         SuiteSpoken, SuiteJudged, SuiteTyped, SuitePointTypes, SuiteFlagTypes, SuiteLedgerTypes
<1>9. SuiteEnds'
  BY SuiteRanges, SuiteLeads DEF SuiteInv, SuiteOutcomes, SuiteEnds, SuiteAccounted,
         SuiteSpoken, SuiteJudged, SuiteTyped, SuitePointTypes, SuiteFlagTypes, SuiteLedgerTypes
<1>7. SuiteSeen'
  BY DEF SuiteInv, SuiteSeen, SuiteSpoken, SuiteJudged, SuiteTyped, SuitePointTypes
<1>8. SuiteFailed'
  BY DEF SuiteInv, SuiteFailed, SuiteTyped, SuiteFlagTypes
<1> QED
  BY <1>1, <1>2, <1>3, <1>4, <1>5, <1>6, <1>7, <1>8, <1>9 DEF SuiteInv

\* LeaveClass keeps the invariant.
LEMMA SuiteLeaveClassKeeps ==
  ASSUME S!SuiteAssumption, SuiteInv, S!LeaveClass
  PROVE  SuiteInv'
<1> USE DEF S!LeaveClass, S!Escape, S!Fixture, S!FixtureError, S!PreviousIntact,
       S!FixturesIntact, S!Test
<1>1. SuiteTyped'
  <2>1. SuiteFactTypes'
    BY DEF SuiteInv, SuiteTyped, SuiteFactTypes
  <2>2. SuitePointTypes'
    BY SuiteLeads DEF SuiteInv, SuiteTyped, SuitePointTypes, SuiteFlagTypes
  <2>3. SuiteCourseTypes'
    BY SuiteRanges DEF SuiteInv, SuiteTyped, SuitePointTypes, SuiteCourseTypes, SuitePlaced
  <2>4. SuiteFlagTypes'
    BY DEF SuiteInv, SuiteTyped, SuiteFlagTypes
  <2>5. SuiteCardTypes'
    BY SuiteRanges DEF SuiteInv, SuiteTyped, SuiteCardTypes
  <2>6. SuiteLedgerTypes'
    BY SuiteRanges DEF SuiteInv, SuiteTyped, SuiteLedgerTypes
  <2>7. SuiteBindingTypes'
    BY SuiteRanges, SuiteTampered DEF SuiteInv, SuiteTyped, SuiteBindingTypes
  <2> QED
    BY <2>1, <2>2, <2>3, <2>4, <2>5, <2>6, <2>7 DEF SuiteTyped
<1>2. SuitePlaced'
  BY SuiteLeads, SuiteRanges DEF SuiteInv, SuiteCourseTypes, SuitePlaced, SuiteTyped,
         SuitePointTypes
<1>3. SuiteJudged'
  BY SuiteLeads, SuiteEmptied DEF SuiteInv, SuiteJudged, SuiteTyped, SuitePointTypes
<1>4. SuiteHooked'
  BY SuiteLeads DEF SuiteInv, SuiteHooked, SuiteTyped, SuitePointTypes
<1>5. SuiteStops'
  BY SuiteRanges DEF SuiteInv, SuiteStops, SuiteTyped, SuiteLedgerTypes
<1>6. SuiteOutcomes'
  BY SuiteRanges, SuiteLeads DEF SuiteInv, SuiteOutcomes, SuiteEnds, SuiteAccounted,
         SuiteSpoken, SuiteJudged, SuiteTyped, SuitePointTypes, SuiteFlagTypes, SuiteLedgerTypes
<1>9. SuiteEnds'
  BY SuiteRanges, SuiteLeads DEF SuiteInv, SuiteOutcomes, SuiteEnds, SuiteAccounted,
         SuiteSpoken, SuiteJudged, SuiteTyped, SuitePointTypes, SuiteFlagTypes, SuiteLedgerTypes
<1>7. SuiteSeen'
  BY DEF SuiteInv, SuiteSeen, SuiteSpoken, SuiteJudged, SuiteTyped, SuitePointTypes
<1>8. SuiteFailed'
  BY DEF SuiteInv, SuiteFailed, SuiteTyped, SuiteFlagTypes
<1> QED
  BY <1>1, <1>2, <1>3, <1>4, <1>5, <1>6, <1>7, <1>8, <1>9 DEF SuiteInv

\* ModuleFixture keeps the invariant.
LEMMA SuiteModuleFixtureKeeps ==
  ASSUME S!SuiteAssumption, SuiteInv, S!ModuleFixture
  PROVE  SuiteInv'
<1> USE DEF S!ModuleFixture, S!Escape, S!Fixture, S!FixtureError, S!FixturesIntact, S!Test
<1>1. SuiteTyped'
  <2>1. SuiteFactTypes'
    BY DEF SuiteInv, SuiteTyped, SuiteFactTypes
  <2>2. SuitePointTypes'
    BY SuiteLeads DEF SuiteInv, SuiteTyped, SuitePointTypes, SuiteFlagTypes
  <2>3. SuiteCourseTypes'
    BY SuiteRanges DEF SuiteInv, SuiteTyped, SuitePointTypes, SuiteCourseTypes, SuitePlaced
  <2>4. SuiteFlagTypes'
    BY DEF SuiteInv, SuiteTyped, SuiteFlagTypes
  <2>5. SuiteCardTypes'
    BY SuiteRanges DEF SuiteInv, SuiteTyped, SuiteCardTypes
  <2>6. SuiteLedgerTypes'
    BY SuiteRanges DEF SuiteInv, SuiteTyped, SuiteLedgerTypes
  <2>7. SuiteBindingTypes'
    BY SuiteRanges, SuiteTampered DEF SuiteInv, SuiteTyped, SuiteBindingTypes
  <2> QED
    BY <2>1, <2>2, <2>3, <2>4, <2>5, <2>6, <2>7 DEF SuiteTyped
<1>2. SuitePlaced'
  BY SuiteLeads, SuiteRanges DEF SuiteInv, SuiteCourseTypes, SuitePlaced, SuiteTyped,
         SuitePointTypes
<1>3. SuiteJudged'
  BY SuiteLeads, SuiteEmptied DEF SuiteInv, SuiteJudged, SuiteTyped, SuitePointTypes
<1>4. SuiteHooked'
  BY SuiteLeads DEF SuiteInv, SuiteHooked, SuiteTyped, SuitePointTypes
<1>5. SuiteStops'
  BY SuiteRanges DEF SuiteInv, SuiteStops, SuiteTyped, SuiteLedgerTypes
<1>6. SuiteOutcomes'
  BY SuiteRanges, SuiteLeads DEF SuiteInv, SuiteOutcomes, SuiteEnds, SuiteAccounted,
         SuiteSpoken, SuiteJudged, SuiteTyped, SuitePointTypes, SuiteFlagTypes, SuiteLedgerTypes
<1>9. SuiteEnds'
  BY SuiteRanges, SuiteLeads DEF SuiteInv, SuiteOutcomes, SuiteEnds, SuiteAccounted,
         SuiteSpoken, SuiteJudged, SuiteTyped, SuitePointTypes, SuiteFlagTypes, SuiteLedgerTypes
<1>7. SuiteSeen'
  BY DEF SuiteInv, SuiteSeen, SuiteSpoken, SuiteJudged, SuiteTyped, SuitePointTypes
<1>8. SuiteFailed'
  BY DEF SuiteInv, SuiteFailed, SuiteTyped, SuiteFlagTypes
<1> QED
  BY <1>1, <1>2, <1>3, <1>4, <1>5, <1>6, <1>7, <1>8, <1>9 DEF SuiteInv

\* ClassSetUp keeps the invariant.
LEMMA SuiteClassSetUpKeeps ==
  ASSUME S!SuiteAssumption, SuiteInv, S!ClassSetUp
  PROVE  SuiteInv'
<1> USE DEF S!ClassSetUp, S!Escape, S!Fixture, S!FixtureError, S!CaseIntact, S!Test
<1>1. SuiteTyped'
  <2>1. SuiteFactTypes'
    BY DEF SuiteInv, SuiteTyped, SuiteFactTypes
  <2>2. SuitePointTypes'
    BY SuiteLeads DEF SuiteInv, SuiteTyped, SuitePointTypes, SuiteFlagTypes
  <2>3. SuiteCourseTypes'
    <3>1. ClassOf[S!Test] \in S!Classes /\ Len(Order) \in Nat /\ cursor \in 1 .. Len(Order)
      BY SuiteRanges DEF SuiteInv
    <3>2. cursor' = cursor \/ cursor' = cursor + 1
      OBVIOUS
    <3>3. lastClass' = lastClass \/ lastClass' = ClassOf[S!Test]
      OBVIOUS
    <3>4. classFailed' \subseteq classFailed \cup {ClassOf[S!Test]}
      OBVIOUS
    <3> QED
      BY <3>1, <3>2, <3>3, <3>4 DEF SuiteInv, SuiteTyped, SuiteCourseTypes
  <2>4. SuiteFlagTypes'
    BY DEF SuiteInv, SuiteTyped, SuiteFlagTypes
  <2>5. SuiteCardTypes'
    BY SuiteRanges DEF SuiteInv, SuiteTyped, SuiteCardTypes
  <2>6. SuiteLedgerTypes'
    BY SuiteRanges DEF SuiteInv, SuiteTyped, SuiteLedgerTypes
  <2>7. SuiteBindingTypes'
    BY SuiteRanges, SuiteTampered DEF SuiteInv, SuiteTyped, SuiteBindingTypes
  <2> QED
    BY <2>1, <2>2, <2>3, <2>4, <2>5, <2>6, <2>7 DEF SuiteTyped
<1>2. SuitePlaced'
  BY SuiteLeads, SuiteRanges DEF SuiteInv, SuiteCourseTypes, SuitePlaced, SuiteTyped,
         SuitePointTypes
<1>3. SuiteJudged'
  BY SuiteLeads, SuiteEmptied DEF SuiteInv, SuiteJudged, SuiteTyped, SuitePointTypes
<1>4. SuiteHooked'
  BY SuiteLeads DEF SuiteInv, SuiteHooked, SuiteTyped, SuitePointTypes
<1>5. SuiteStops'
  BY SuiteRanges DEF SuiteInv, SuiteStops, SuiteTyped, SuiteLedgerTypes
<1>6. SuiteOutcomes'
  BY SuiteRanges, SuiteLeads DEF SuiteInv, SuiteOutcomes, SuiteEnds, SuiteAccounted,
         SuiteSpoken, SuiteJudged, SuiteTyped, SuitePointTypes, SuiteFlagTypes, SuiteLedgerTypes
<1>9. SuiteEnds'
  BY SuiteRanges, SuiteLeads DEF SuiteInv, SuiteOutcomes, SuiteEnds, SuiteAccounted,
         SuiteSpoken, SuiteJudged, SuiteTyped, SuitePointTypes, SuiteFlagTypes, SuiteLedgerTypes
<1>7. SuiteSeen'
  BY DEF SuiteInv, SuiteSeen, SuiteSpoken, SuiteJudged, SuiteTyped, SuitePointTypes
<1>8. SuiteFailed'
  BY DEF SuiteInv, SuiteFailed, SuiteTyped, SuiteFlagTypes
<1> QED
  BY <1>1, <1>2, <1>3, <1>4, <1>5, <1>6, <1>7, <1>8, <1>9 DEF SuiteInv

\* StartTest keeps the invariant.
LEMMA SuiteStartTestKeeps ==
  ASSUME S!SuiteAssumption, SuiteInv, S!StartTest
  PROVE  SuiteInv'
<1> USE DEF S!StartTest, S!Escape, S!Record
<1>1. SuiteTyped'
  <2>1. SuiteFactTypes'
    BY DEF SuiteInv, SuiteTyped, SuiteFactTypes
  <2>2. SuitePointTypes'
    BY SuiteLeads DEF SuiteInv, SuiteTyped, SuitePointTypes, SuiteFlagTypes
  <2>3. SuiteCourseTypes'
    BY SuiteRanges DEF SuiteInv, SuiteTyped, SuitePointTypes, SuiteCourseTypes, SuitePlaced
  <2>4. SuiteFlagTypes'
    BY DEF SuiteInv, SuiteTyped, SuiteFlagTypes
  <2>5. SuiteCardTypes'
    BY SuiteRanges DEF SuiteInv, SuiteTyped, SuiteCardTypes
  <2>6. SuiteLedgerTypes'
    BY SuiteRanges DEF SuiteInv, SuiteTyped, SuiteLedgerTypes
  <2>7. SuiteBindingTypes'
    BY SuiteRanges, SuiteTampered DEF SuiteInv, SuiteTyped, SuiteBindingTypes
  <2> QED
    BY <2>1, <2>2, <2>3, <2>4, <2>5, <2>6, <2>7 DEF SuiteTyped
<1>2. SuitePlaced'
  BY SuiteLeads, SuiteRanges DEF SuiteInv, SuiteCourseTypes, SuitePlaced, SuiteTyped,
         SuitePointTypes
<1>3. SuiteJudged'
  BY SuiteLeads, SuiteEmptied DEF SuiteInv, SuiteJudged, SuiteTyped, SuitePointTypes
<1>4. SuiteHooked'
  BY SuiteLeads DEF SuiteInv, SuiteHooked, SuiteTyped, SuitePointTypes
<1>5. SuiteStops'
  BY SuiteRanges DEF SuiteInv, SuiteStops, SuiteTyped, SuiteLedgerTypes
<1>6. SuiteOutcomes'
  BY SuiteRanges, SuiteLeads DEF SuiteInv, SuiteOutcomes, SuiteEnds, SuiteAccounted,
         SuiteSpoken, SuiteJudged, SuiteTyped, SuitePointTypes, SuiteFlagTypes, SuiteLedgerTypes
<1>9. SuiteEnds'
  BY SuiteRanges, SuiteLeads DEF SuiteInv, SuiteOutcomes, SuiteEnds, SuiteAccounted,
         SuiteSpoken, SuiteJudged, SuiteTyped, SuitePointTypes, SuiteFlagTypes, SuiteLedgerTypes
<1>7. SuiteSeen'
  BY DEF SuiteInv, SuiteSeen, SuiteSpoken, SuiteJudged, SuiteTyped, SuitePointTypes
<1>8. SuiteFailed'
  BY DEF SuiteInv, SuiteFailed, SuiteTyped, SuiteFlagTypes
<1> QED
  BY <1>1, <1>2, <1>3, <1>4, <1>5, <1>6, <1>7, <1>8, <1>9 DEF SuiteInv

\* PartRefused keeps the invariant.
LEMMA SuitePartRefusedKeeps ==
  ASSUME S!SuiteAssumption, SuiteInv, S!PartRefused
  PROVE  SuiteInv'
<1> USE DEF S!PartRefused, S!Escape, S!Record
<1>1. SuiteTyped'
  <2>1. SuiteFactTypes'
    BY DEF SuiteInv, SuiteTyped, SuiteFactTypes
  <2>2. SuitePointTypes'
    BY SuiteLeads DEF SuiteInv, SuiteTyped, SuitePointTypes, SuiteFlagTypes
  <2>3. SuiteCourseTypes'
    BY SuiteRanges DEF SuiteInv, SuiteTyped, SuitePointTypes, SuiteCourseTypes, SuitePlaced
  <2>4. SuiteFlagTypes'
    BY DEF SuiteInv, SuiteTyped, SuiteFlagTypes
  <2>5. SuiteCardTypes'
    BY SuiteRanges DEF SuiteInv, SuiteTyped, SuiteCardTypes
  <2>6. SuiteLedgerTypes'
    BY SuiteRanges DEF SuiteInv, SuiteTyped, SuiteLedgerTypes
  <2>7. SuiteBindingTypes'
    BY SuiteRanges, SuiteTampered DEF SuiteInv, SuiteTyped, SuiteBindingTypes
  <2> QED
    BY <2>1, <2>2, <2>3, <2>4, <2>5, <2>6, <2>7 DEF SuiteTyped
<1>2. SuitePlaced'
  BY SuiteLeads, SuiteRanges DEF SuiteInv, SuiteCourseTypes, SuitePlaced, SuiteTyped,
         SuitePointTypes
<1>3. SuiteJudged'
  BY SuiteLeads, SuiteEmptied DEF SuiteInv, SuiteJudged, SuiteTyped, SuitePointTypes
<1>4. SuiteHooked'
  BY SuiteLeads DEF SuiteInv, SuiteHooked, SuiteTyped, SuitePointTypes
<1>5. SuiteStops'
  BY SuiteRanges DEF SuiteInv, SuiteStops, SuiteTyped, SuiteLedgerTypes
<1>6. SuiteOutcomes'
  <2>1. SuiteGrows /\ verdict' = "refused"
    BY DEF SuiteGrows
  <2>2. \A t \in S!Tests : t # S!Test => events'[t] = events[t]
    BY DEF SuiteInv, SuiteTyped, SuiteLedgerTypes
  <2> QED
    BY <2>1, <2>2, SuiteOutcomesStay DEF SuiteInv
<1>9. SuiteEnds'
  BY SuiteRanges, SuiteLeads DEF SuiteInv, SuiteOutcomes, SuiteEnds, SuiteAccounted,
         SuiteSpoken, SuiteJudged, SuiteTyped, SuitePointTypes, SuiteFlagTypes, SuiteLedgerTypes
<1>7. SuiteSeen'
  BY DEF SuiteInv, SuiteSeen, SuiteSpoken, SuiteJudged, SuiteTyped, SuitePointTypes
<1>8. SuiteFailed'
  BY DEF SuiteInv, SuiteFailed, SuiteTyped, SuiteFlagTypes
<1> QED
  BY <1>1, <1>2, <1>3, <1>4, <1>5, <1>6, <1>7, <1>8, <1>9 DEF SuiteInv

\* PlatformSkip keeps the invariant.
LEMMA SuitePlatformSkipKeeps ==
  ASSUME S!SuiteAssumption, SuiteInv, S!PlatformSkip
  PROVE  SuiteInv'
<1> USE DEF S!PlatformSkip, S!Escape, S!Record
<1>1. SuiteTyped'
  <2>1. SuiteFactTypes'
    BY DEF SuiteInv, SuiteTyped, SuiteFactTypes
  <2>2. SuitePointTypes'
    BY SuiteLeads DEF SuiteInv, SuiteTyped, SuitePointTypes, SuiteFlagTypes
  <2>3. SuiteCourseTypes'
    BY SuiteRanges DEF SuiteInv, SuiteTyped, SuitePointTypes, SuiteCourseTypes, SuitePlaced
  <2>4. SuiteFlagTypes'
    BY DEF SuiteInv, SuiteTyped, SuiteFlagTypes
  <2>5. SuiteCardTypes'
    BY SuiteRanges DEF SuiteInv, SuiteTyped, SuiteCardTypes
  <2>6. SuiteLedgerTypes'
    BY SuiteRanges DEF SuiteInv, SuiteTyped, SuiteLedgerTypes
  <2>7. SuiteBindingTypes'
    BY SuiteRanges, SuiteTampered DEF SuiteInv, SuiteTyped, SuiteBindingTypes
  <2> QED
    BY <2>1, <2>2, <2>3, <2>4, <2>5, <2>6, <2>7 DEF SuiteTyped
<1>2. SuitePlaced'
  BY SuiteLeads, SuiteRanges DEF SuiteInv, SuiteCourseTypes, SuitePlaced, SuiteTyped,
         SuitePointTypes
<1>3. SuiteJudged'
  BY SuiteLeads, SuiteEmptied DEF SuiteInv, SuiteJudged, SuiteTyped, SuitePointTypes
<1>4. SuiteHooked'
  BY SuiteLeads DEF SuiteInv, SuiteHooked, SuiteTyped, SuitePointTypes
<1>5. SuiteStops'
  BY SuiteRanges DEF SuiteInv, SuiteStops, SuiteTyped, SuiteLedgerTypes
<1>6. SuiteOutcomes'
  BY SuiteRanges, SuiteLeads DEF SuiteInv, SuiteOutcomes, SuiteEnds, SuiteAccounted,
         SuiteSpoken, SuiteJudged, SuiteTyped, SuitePointTypes, SuiteFlagTypes, SuiteLedgerTypes
<1>9. SuiteEnds'
  BY SuiteRanges, SuiteLeads DEF SuiteInv, SuiteOutcomes, SuiteEnds, SuiteAccounted,
         SuiteSpoken, SuiteJudged, SuiteTyped, SuitePointTypes, SuiteFlagTypes, SuiteLedgerTypes
<1>7. SuiteSeen'
  BY DEF SuiteInv, SuiteSeen, SuiteSpoken, SuiteJudged, SuiteTyped, SuitePointTypes
<1>8. SuiteFailed'
  BY DEF SuiteInv, SuiteFailed, SuiteTyped, SuiteFlagTypes
<1> QED
  BY <1>1, <1>2, <1>3, <1>4, <1>5, <1>6, <1>7, <1>8, <1>9 DEF SuiteInv

\* ForeignSkip keeps the invariant.
LEMMA SuiteForeignSkipKeeps ==
  ASSUME S!SuiteAssumption, SuiteInv, S!ForeignSkip
  PROVE  SuiteInv'
<1> USE DEF S!ForeignSkip, S!Escape, S!InPart, S!Record
<1>1. SuiteTyped'
  <2>1. SuiteFactTypes'
    BY DEF SuiteInv, SuiteTyped, SuiteFactTypes
  <2>2. SuitePointTypes'
    BY SuiteLeads DEF SuiteInv, SuiteTyped, SuitePointTypes, SuiteFlagTypes
  <2>3. SuiteCourseTypes'
    BY SuiteRanges DEF SuiteInv, SuiteTyped, SuitePointTypes, SuiteCourseTypes, SuitePlaced
  <2>4. SuiteFlagTypes'
    BY DEF SuiteInv, SuiteTyped, SuiteFlagTypes
  <2>5. SuiteCardTypes'
    BY SuiteRanges DEF SuiteInv, SuiteTyped, SuiteCardTypes
  <2>6. SuiteLedgerTypes'
    BY SuiteRanges DEF SuiteInv, SuiteTyped, SuiteLedgerTypes
  <2>7. SuiteBindingTypes'
    BY SuiteRanges, SuiteTampered DEF SuiteInv, SuiteTyped, SuiteBindingTypes
  <2> QED
    BY <2>1, <2>2, <2>3, <2>4, <2>5, <2>6, <2>7 DEF SuiteTyped
<1>2. SuitePlaced'
  BY SuiteLeads, SuiteRanges DEF SuiteInv, SuiteCourseTypes, SuitePlaced, SuiteTyped,
         SuitePointTypes
<1>3. SuiteJudged'
  BY SuiteLeads, SuiteEmptied DEF SuiteInv, SuiteJudged, SuiteTyped, SuitePointTypes
<1>4. SuiteHooked'
  BY SuiteLeads DEF SuiteInv, SuiteHooked, SuiteTyped, SuitePointTypes
<1>5. SuiteStops'
  BY SuiteRanges DEF SuiteInv, SuiteStops, SuiteTyped, SuiteLedgerTypes
<1>6. SuiteOutcomes'
  <2>1. SuiteGrows /\ S!Test' = S!Test /\ (verdict' = "refused" \/ (verdict' = verdict /\ pc' = pc /\ events' = events))
    BY DEF SuiteGrows, S!Test
  <2>2. \A t \in S!Tests : t # S!Test => events'[t] = events[t]
    BY DEF SuiteInv, SuiteTyped, SuiteLedgerTypes
  <2> QED
    BY <2>1, <2>2, SuiteOutcomesStay DEF SuiteInv
<1>9. SuiteEnds'
  <2>1. SuiteGrows /\ S!Test' = S!Test /\ (pc' = "close" \/ pc' = pc) /\ (success' = success \/ success' = FALSE)
    BY DEF SuiteGrows, S!Test
  <2> QED
    BY <2>1, SuiteEndsStay DEF SuiteInv
<1>7. SuiteSeen'
  BY DEF SuiteInv, SuiteSeen, SuiteSpoken, SuiteJudged, SuiteTyped, SuitePointTypes
<1>8. SuiteFailed'
  BY DEF SuiteInv, SuiteFailed, SuiteTyped, SuiteFlagTypes
<1> QED
  BY <1>1, <1>2, <1>3, <1>4, <1>5, <1>6, <1>7, <1>8, <1>9 DEF SuiteInv

\* Subtest keeps the invariant.
LEMMA SuiteSubtestKeeps ==
  ASSUME S!SuiteAssumption, SuiteInv, S!Subtest
  PROVE  SuiteInv'
<1> USE DEF S!Subtest, S!Escape, S!InPart, S!Record
<1>1. SuiteTyped'
  <2>1. SuiteFactTypes'
    BY DEF SuiteInv, SuiteTyped, SuiteFactTypes
  <2>2. SuitePointTypes'
    BY SuiteLeads DEF SuiteInv, SuiteTyped, SuitePointTypes, SuiteFlagTypes
  <2>3. SuiteCourseTypes'
    BY SuiteRanges DEF SuiteInv, SuiteTyped, SuitePointTypes, SuiteCourseTypes, SuitePlaced
  <2>4. SuiteFlagTypes'
    BY DEF SuiteInv, SuiteTyped, SuiteFlagTypes
  <2>5. SuiteCardTypes'
    BY SuiteRanges DEF SuiteInv, SuiteTyped, SuiteCardTypes
  <2>6. SuiteLedgerTypes'
    BY SuiteRanges DEF SuiteInv, SuiteTyped, SuiteLedgerTypes
  <2>7. SuiteBindingTypes'
    BY SuiteRanges, SuiteTampered DEF SuiteInv, SuiteTyped, SuiteBindingTypes
  <2> QED
    BY <2>1, <2>2, <2>3, <2>4, <2>5, <2>6, <2>7 DEF SuiteTyped
<1>2. SuitePlaced'
  BY SuiteLeads, SuiteRanges DEF SuiteInv, SuiteCourseTypes, SuitePlaced, SuiteTyped,
         SuitePointTypes
<1>3. SuiteJudged'
  BY SuiteLeads, SuiteEmptied DEF SuiteInv, SuiteJudged, SuiteTyped, SuitePointTypes
<1>4. SuiteHooked'
  BY SuiteLeads DEF SuiteInv, SuiteHooked, SuiteTyped, SuitePointTypes
<1>5. SuiteStops'
  BY SuiteRanges DEF SuiteInv, SuiteStops, SuiteTyped, SuiteLedgerTypes
<1>6. SuiteOutcomes'
  <2>1. SuiteGrows /\ S!Test' = S!Test /\ pc' = "method" /\ verdict' = verdict
    BY DEF SuiteGrows, S!Test
  <2>2. \A t \in S!Tests : t # S!Test => events'[t] = events[t]
    BY DEF SuiteInv, SuiteTyped, SuiteLedgerTypes
  <2> QED
    BY <2>1, <2>2, SuiteOutcomesStay DEF SuiteInv
<1>9. SuiteEnds'
  BY SuiteRanges, SuiteLeads DEF SuiteInv, SuiteOutcomes, SuiteEnds, SuiteAccounted,
         SuiteSpoken, SuiteJudged, SuiteTyped, SuitePointTypes, SuiteFlagTypes, SuiteLedgerTypes
<1>7. SuiteSeen'
  BY DEF SuiteInv, SuiteSeen, SuiteSpoken, SuiteJudged, SuiteTyped, SuitePointTypes
<1>8. SuiteFailed'
  BY DEF SuiteInv, SuiteFailed, SuiteTyped, SuiteFlagTypes
<1> QED
  BY <1>1, <1>2, <1>3, <1>4, <1>5, <1>6, <1>7, <1>8, <1>9 DEF SuiteInv

\* TamperInTest keeps the invariant.
LEMMA SuiteTamperInTestKeeps ==
  ASSUME S!SuiteAssumption, SuiteInv, S!TamperInTest
  PROVE  SuiteInv'
<1> USE DEF S!TamperInTest, S!Escape, S!InPart
<1>1. SuiteTyped'
  <2>1. SuiteFactTypes'
    BY DEF SuiteInv, SuiteTyped, SuiteFactTypes
  <2>2. SuitePointTypes'
    BY SuiteLeads DEF SuiteInv, SuiteTyped, SuitePointTypes, SuiteFlagTypes
  <2>3. SuiteCourseTypes'
    BY SuiteRanges DEF SuiteInv, SuiteTyped, SuitePointTypes, SuiteCourseTypes, SuitePlaced
  <2>4. SuiteFlagTypes'
    BY DEF SuiteInv, SuiteTyped, SuiteFlagTypes
  <2>5. SuiteCardTypes'
    BY SuiteRanges DEF SuiteInv, SuiteTyped, SuiteCardTypes
  <2>6. SuiteLedgerTypes'
    BY SuiteRanges DEF SuiteInv, SuiteTyped, SuiteLedgerTypes
  <2>7. SuiteBindingTypes'
    <3>1. CASE S!Tamper
      BY <3>1, SuiteTampered DEF SuiteInv, SuiteTyped
    <3>2. CASE tampering < MaxTampering /\ tampering' = tampering + 1 /\ UNCHANGED <<rebound, refixed>>
      BY <3>2 DEF SuiteInv, SuiteTyped, SuiteBindingTypes, S!SuiteAssumption
    <3> QED
      BY <3>1, <3>2
  <2> QED
    BY <2>1, <2>2, <2>3, <2>4, <2>5, <2>6, <2>7 DEF SuiteTyped
<1>2. SuitePlaced'
  BY SuiteLeads, SuiteRanges DEF SuiteInv, SuiteCourseTypes, SuitePlaced, SuiteTyped,
         SuitePointTypes
<1>3. SuiteJudged'
  BY SuiteLeads, SuiteEmptied DEF SuiteInv, SuiteJudged, SuiteTyped, SuitePointTypes
<1>4. SuiteHooked'
  BY SuiteLeads DEF SuiteInv, SuiteHooked, SuiteTyped, SuitePointTypes
<1>5. SuiteStops'
  BY SuiteRanges DEF SuiteInv, SuiteStops, SuiteTyped, SuiteLedgerTypes
<1>6. SuiteOutcomes'
  <2>1. SuiteGrows /\ S!Test' = S!Test
    BY DEF SuiteGrows, S!Test
  <2> QED
    BY <2>1, SuiteOutcomesStay DEF SuiteInv
<1>9. SuiteEnds'
  <2>1. SuiteGrows /\ S!Test' = S!Test
    BY DEF SuiteGrows, S!Test
  <2> QED
    BY <2>1, SuiteEndsStay DEF SuiteInv
<1>7. SuiteSeen'
  BY DEF SuiteInv, SuiteSeen, SuiteSpoken, SuiteJudged, SuiteTyped, SuitePointTypes
<1>8. SuiteFailed'
  BY DEF SuiteInv, SuiteFailed, SuiteTyped, SuiteFlagTypes
<1> QED
  BY <1>1, <1>2, <1>3, <1>4, <1>5, <1>6, <1>7, <1>8, <1>9 DEF SuiteInv

\* Finish keeps the invariant.
LEMMA SuiteFinishKeeps ==
  ASSUME S!SuiteAssumption, SuiteInv, S!Finish
  PROVE  SuiteInv'
<1> USE DEF S!Finish, S!Escape, S!Record
<1>1. SuiteTyped'
  <2>1. SuiteFactTypes'
    BY DEF SuiteInv, SuiteTyped, SuiteFactTypes
  <2>2. SuitePointTypes'
    BY SuiteLeads DEF SuiteInv, SuiteTyped, SuitePointTypes, SuiteFlagTypes
  <2>3. SuiteCourseTypes'
    BY SuiteRanges DEF SuiteInv, SuiteTyped, SuitePointTypes, SuiteCourseTypes, SuitePlaced
  <2>4. SuiteFlagTypes'
    BY DEF SuiteInv, SuiteTyped, SuiteFlagTypes
  <2>5. SuiteCardTypes'
    BY SuiteRanges DEF SuiteInv, SuiteTyped, SuiteCardTypes
  <2>6. SuiteLedgerTypes'
    BY SuiteRanges DEF SuiteInv, SuiteTyped, SuiteLedgerTypes
  <2>7. SuiteBindingTypes'
    BY SuiteRanges, SuiteTampered DEF SuiteInv, SuiteTyped, SuiteBindingTypes
  <2> QED
    BY <2>1, <2>2, <2>3, <2>4, <2>5, <2>6, <2>7 DEF SuiteTyped
<1>2. SuitePlaced'
  BY SuiteLeads, SuiteRanges DEF SuiteInv, SuiteCourseTypes, SuitePlaced, SuiteTyped,
         SuitePointTypes
<1>3. SuiteJudged'
  BY SuiteLeads, SuiteEmptied DEF SuiteInv, SuiteJudged, SuiteTyped, SuitePointTypes
<1>4. SuiteHooked'
  BY SuiteLeads DEF SuiteInv, SuiteHooked, SuiteTyped, SuitePointTypes
<1>5. SuiteStops'
  BY SuiteRanges DEF SuiteInv, SuiteStops, SuiteTyped, SuiteLedgerTypes
<1>6. SuiteOutcomes'
  BY SuiteRanges, SuiteLeads DEF SuiteInv, SuiteOutcomes, SuiteEnds, SuiteAccounted,
         SuiteSpoken, SuiteJudged, SuiteTyped, SuitePointTypes, SuiteFlagTypes, SuiteLedgerTypes
<1>9. SuiteEnds'
  BY SuiteRanges, SuiteLeads DEF SuiteInv, SuiteOutcomes, SuiteEnds, SuiteAccounted,
         SuiteSpoken, SuiteJudged, SuiteTyped, SuitePointTypes, SuiteFlagTypes, SuiteLedgerTypes
<1>7. SuiteSeen'
  BY DEF SuiteInv, SuiteSeen, SuiteSpoken, SuiteJudged, SuiteTyped, SuitePointTypes
<1>8. SuiteFailed'
  BY DEF SuiteInv, SuiteFailed, SuiteTyped, SuiteFlagTypes
<1> QED
  BY <1>1, <1>2, <1>3, <1>4, <1>5, <1>6, <1>7, <1>8, <1>9 DEF SuiteInv

\* StopTest keeps the invariant.
LEMMA SuiteStopTestKeeps ==
  ASSUME S!SuiteAssumption, SuiteInv, S!StopTest
  PROVE  SuiteInv'
<1> USE DEF S!StopTest, S!Escape
<1>1. SuiteTyped'
  <2>1. SuiteFactTypes'
    BY DEF SuiteInv, SuiteTyped, SuiteFactTypes
  <2>2. SuitePointTypes'
    BY SuiteLeads DEF SuiteInv, SuiteTyped, SuitePointTypes, SuiteFlagTypes
  <2>3. SuiteCourseTypes'
    BY SuiteRanges DEF SuiteInv, SuiteTyped, SuitePointTypes, SuiteCourseTypes, SuitePlaced
  <2>4. SuiteFlagTypes'
    BY DEF SuiteInv, SuiteTyped, SuiteFlagTypes
  <2>5. SuiteCardTypes'
    BY SuiteRanges DEF SuiteInv, SuiteTyped, SuiteCardTypes
  <2>6. SuiteLedgerTypes'
    BY SuiteRanges DEF SuiteInv, SuiteTyped, SuiteLedgerTypes
  <2>7. SuiteBindingTypes'
    BY SuiteRanges, SuiteTampered DEF SuiteInv, SuiteTyped, SuiteBindingTypes
  <2> QED
    BY <2>1, <2>2, <2>3, <2>4, <2>5, <2>6, <2>7 DEF SuiteTyped
<1>2. SuitePlaced'
  BY SuiteLeads, SuiteRanges DEF SuiteInv, SuiteCourseTypes, SuitePlaced, SuiteTyped,
         SuitePointTypes
<1>3. SuiteJudged'
  BY SuiteLeads, SuiteEmptied DEF SuiteInv, SuiteJudged, SuiteTyped, SuitePointTypes
<1>4. SuiteHooked'
  BY SuiteLeads DEF SuiteInv, SuiteHooked, SuiteTyped, SuitePointTypes
<1>5. SuiteStops'
  BY SuiteRanges DEF SuiteInv, SuiteStops, SuiteTyped, SuiteLedgerTypes
<1>6. SuiteOutcomes'
  BY SuiteRanges, SuiteLeads DEF SuiteInv, SuiteOutcomes, SuiteEnds, SuiteAccounted,
         SuiteSpoken, SuiteJudged, SuiteTyped, SuitePointTypes, SuiteFlagTypes, SuiteLedgerTypes
<1>9. SuiteEnds'
  BY SuiteRanges, SuiteLeads DEF SuiteInv, SuiteOutcomes, SuiteEnds, SuiteAccounted,
         SuiteSpoken, SuiteJudged, SuiteTyped, SuitePointTypes, SuiteFlagTypes, SuiteLedgerTypes
<1>7. SuiteSeen'
  BY DEF SuiteInv, SuiteSeen, SuiteSpoken, SuiteJudged, SuiteTyped, SuitePointTypes
<1>8. SuiteFailed'
  BY DEF SuiteInv, SuiteFailed, SuiteTyped, SuiteFlagTypes
<1> QED
  BY <1>1, <1>2, <1>3, <1>4, <1>5, <1>6, <1>7, <1>8, <1>9 DEF SuiteInv

\* AfterTest keeps the invariant.
LEMMA SuiteAfterTestKeeps ==
  ASSUME S!SuiteAssumption, SuiteInv, S!AfterTest
  PROVE  SuiteInv'
<1> USE DEF S!AfterTest, S!Escape
<1>1. SuiteTyped'
  <2>1. SuiteFactTypes'
    BY DEF SuiteInv, SuiteTyped, SuiteFactTypes
  <2>2. SuitePointTypes'
    BY SuiteLeads DEF SuiteInv, SuiteTyped, SuitePointTypes, SuiteFlagTypes
  <2>3. SuiteCourseTypes'
    BY SuiteRanges DEF SuiteInv, SuiteTyped, SuitePointTypes, SuiteCourseTypes, SuitePlaced
  <2>4. SuiteFlagTypes'
    BY DEF SuiteInv, SuiteTyped, SuiteFlagTypes
  <2>5. SuiteCardTypes'
    BY SuiteRanges DEF SuiteInv, SuiteTyped, SuiteCardTypes
  <2>6. SuiteLedgerTypes'
    BY SuiteRanges DEF SuiteInv, SuiteTyped, SuiteLedgerTypes
  <2>7. SuiteBindingTypes'
    BY SuiteRanges, SuiteTampered DEF SuiteInv, SuiteTyped, SuiteBindingTypes
  <2> QED
    BY <2>1, <2>2, <2>3, <2>4, <2>5, <2>6, <2>7 DEF SuiteTyped
<1>2. SuitePlaced'
  BY SuiteLeads, SuiteRanges DEF SuiteInv, SuiteCourseTypes, SuitePlaced, SuiteTyped,
         SuitePointTypes
<1>3. SuiteJudged'
  BY SuiteLeads, SuiteEmptied DEF SuiteInv, SuiteJudged, SuiteTyped, SuitePointTypes
<1>4. SuiteHooked'
  BY SuiteLeads DEF SuiteInv, SuiteHooked, SuiteTyped, SuitePointTypes
<1>5. SuiteStops'
  BY SuiteRanges DEF SuiteInv, SuiteStops, SuiteTyped, SuiteLedgerTypes
<1>6. SuiteOutcomes'
  BY SuiteRanges, SuiteLeads DEF SuiteInv, SuiteOutcomes, SuiteEnds, SuiteAccounted,
         SuiteSpoken, SuiteJudged, SuiteTyped, SuitePointTypes, SuiteFlagTypes, SuiteLedgerTypes
<1>9. SuiteEnds'
  BY SuiteRanges, SuiteLeads DEF SuiteInv, SuiteOutcomes, SuiteEnds, SuiteAccounted,
         SuiteSpoken, SuiteJudged, SuiteTyped, SuitePointTypes, SuiteFlagTypes, SuiteLedgerTypes
<1>7. SuiteSeen'
  BY DEF SuiteInv, SuiteSeen, SuiteSpoken, SuiteJudged, SuiteTyped, SuitePointTypes
<1>8. SuiteFailed'
  BY DEF SuiteInv, SuiteFailed, SuiteTyped, SuiteFlagTypes
<1> QED
  BY <1>1, <1>2, <1>3, <1>4, <1>5, <1>6, <1>7, <1>8, <1>9 DEF SuiteInv

\* LastModule keeps the invariant.
LEMMA SuiteLastModuleKeeps ==
  ASSUME S!SuiteAssumption, SuiteInv, S!LastModule
  PROVE  SuiteInv'
<1> USE DEF S!LastModule, S!Escape, S!Fixture, S!FixtureError, S!FixturesIntact
<1>1. SuiteTyped'
  <2>1. SuiteFactTypes'
    BY DEF SuiteInv, SuiteTyped, SuiteFactTypes
  <2>2. SuitePointTypes'
    BY SuiteLeads DEF SuiteInv, SuiteTyped, SuitePointTypes, SuiteFlagTypes
  <2>3. SuiteCourseTypes'
    BY SuiteRanges DEF SuiteInv, SuiteTyped, SuitePointTypes, SuiteCourseTypes, SuitePlaced
  <2>4. SuiteFlagTypes'
    BY DEF SuiteInv, SuiteTyped, SuiteFlagTypes
  <2>5. SuiteCardTypes'
    BY SuiteRanges DEF SuiteInv, SuiteTyped, SuiteCardTypes
  <2>6. SuiteLedgerTypes'
    BY SuiteRanges DEF SuiteInv, SuiteTyped, SuiteLedgerTypes
  <2>7. SuiteBindingTypes'
    BY SuiteRanges, SuiteTampered DEF SuiteInv, SuiteTyped, SuiteBindingTypes
  <2> QED
    BY <2>1, <2>2, <2>3, <2>4, <2>5, <2>6, <2>7 DEF SuiteTyped
<1>2. SuitePlaced'
  BY SuiteLeads, SuiteRanges DEF SuiteInv, SuiteCourseTypes, SuitePlaced, SuiteTyped,
         SuitePointTypes
<1>3. SuiteJudged'
  BY SuiteLeads, SuiteEmptied DEF SuiteInv, SuiteJudged, SuiteTyped, SuitePointTypes
<1>4. SuiteHooked'
  BY SuiteLeads DEF SuiteInv, SuiteHooked, SuiteTyped, SuitePointTypes
<1>5. SuiteStops'
  BY SuiteRanges DEF SuiteInv, SuiteStops, SuiteTyped, SuiteLedgerTypes
<1>6. SuiteOutcomes'
  BY SuiteRanges, SuiteLeads DEF SuiteInv, SuiteOutcomes, SuiteEnds, SuiteAccounted,
         SuiteSpoken, SuiteJudged, SuiteTyped, SuitePointTypes, SuiteFlagTypes, SuiteLedgerTypes
<1>9. SuiteEnds'
  BY SuiteRanges, SuiteLeads DEF SuiteInv, SuiteOutcomes, SuiteEnds, SuiteAccounted,
         SuiteSpoken, SuiteJudged, SuiteTyped, SuitePointTypes, SuiteFlagTypes, SuiteLedgerTypes
<1>7. SuiteSeen'
  BY DEF SuiteInv, SuiteSeen, SuiteSpoken, SuiteJudged, SuiteTyped, SuitePointTypes
<1>8. SuiteFailed'
  BY DEF SuiteInv, SuiteFailed, SuiteTyped, SuiteFlagTypes
<1> QED
  BY <1>1, <1>2, <1>3, <1>4, <1>5, <1>6, <1>7, <1>8, <1>9 DEF SuiteInv

\* Judge keeps the invariant.
LEMMA SuiteJudgeKeeps ==
  ASSUME S!SuiteAssumption, SuiteInv, S!Judge
  PROVE  SuiteInv'
<1> USE DEF S!Judge, S!Escape, S!CaseIntact, S!Canonical
<1>1. SuiteTyped'
  <2>1. SuiteFactTypes'
    BY DEF SuiteInv, SuiteTyped, SuiteFactTypes
  <2>2. SuitePointTypes'
    BY SuiteLeads DEF SuiteInv, SuiteTyped, SuitePointTypes, SuiteFlagTypes
  <2>3. SuiteCourseTypes'
    BY SuiteRanges DEF SuiteInv, SuiteTyped, SuitePointTypes, SuiteCourseTypes, SuitePlaced
  <2>4. SuiteFlagTypes'
    BY DEF SuiteInv, SuiteTyped, SuiteFlagTypes
  <2>5. SuiteCardTypes'
    BY SuiteRanges DEF SuiteInv, SuiteTyped, SuiteCardTypes
  <2>6. SuiteLedgerTypes'
    BY SuiteRanges DEF SuiteInv, SuiteTyped, SuiteLedgerTypes
  <2>7. SuiteBindingTypes'
    BY SuiteRanges, SuiteTampered DEF SuiteInv, SuiteTyped, SuiteBindingTypes
  <2> QED
    BY <2>1, <2>2, <2>3, <2>4, <2>5, <2>6, <2>7 DEF SuiteTyped
<1>2. SuitePlaced'
  BY SuiteLeads, SuiteRanges DEF SuiteInv, SuiteCourseTypes, SuitePlaced, SuiteTyped,
         SuitePointTypes
<1>3. SuiteJudged'
  BY SuiteLeads, SuiteEmptied DEF SuiteInv, SuiteJudged, SuiteTyped, SuitePointTypes
<1>4. SuiteHooked'
  BY SuiteLeads DEF SuiteInv, SuiteHooked, SuiteTyped, SuitePointTypes
<1>5. SuiteStops'
  BY SuiteRanges DEF SuiteInv, SuiteStops, SuiteTyped, SuiteLedgerTypes
<1>6. SuiteOutcomes'
  <2>1. SuiteGrows /\ events' = events /\ pc # "method" /\ (verdict = "refused" => verdict' = "refused")
    BY DEF SuiteGrows, SuiteInv, SuiteJudged
  <2> QED
    BY <2>1, SuiteOutcomesStay DEF SuiteInv
<1>9. SuiteEnds'
  BY SuiteRanges, SuiteLeads DEF SuiteInv, SuiteOutcomes, SuiteEnds, SuiteAccounted,
         SuiteSpoken, SuiteJudged, SuiteTyped, SuitePointTypes, SuiteFlagTypes, SuiteLedgerTypes
<1>7. SuiteSeen'
  BY DEF SuiteInv, SuiteSeen, SuiteSpoken, SuiteJudged, SuiteTyped, SuitePointTypes
<1>8. SuiteFailed'
  BY DEF SuiteInv, SuiteFailed, SuiteTyped, SuiteFlagTypes
<1> QED
  BY <1>1, <1>2, <1>3, <1>4, <1>5, <1>6, <1>7, <1>8, <1>9 DEF SuiteInv

\* Close keeps the invariant.
LEMMA SuiteCloseKeeps ==
  ASSUME S!SuiteAssumption, SuiteInv, S!Close
  PROVE  SuiteInv'
<1> USE DEF S!Close, S!Escape
<1>1. SuiteTyped'
  <2>1. SuiteFactTypes'
    BY DEF SuiteInv, SuiteTyped, SuiteFactTypes
  <2>2. SuitePointTypes'
    BY SuiteLeads DEF SuiteInv, SuiteTyped, SuitePointTypes, SuiteFlagTypes
  <2>3. SuiteCourseTypes'
    BY SuiteRanges DEF SuiteInv, SuiteTyped, SuitePointTypes, SuiteCourseTypes, SuitePlaced
  <2>4. SuiteFlagTypes'
    BY DEF SuiteInv, SuiteTyped, SuiteFlagTypes
  <2>5. SuiteCardTypes'
    BY SuiteRanges DEF SuiteInv, SuiteTyped, SuiteCardTypes
  <2>6. SuiteLedgerTypes'
    BY SuiteRanges DEF SuiteInv, SuiteTyped, SuiteLedgerTypes
  <2>7. SuiteBindingTypes'
    BY SuiteRanges, SuiteTampered DEF SuiteInv, SuiteTyped, SuiteBindingTypes
  <2> QED
    BY <2>1, <2>2, <2>3, <2>4, <2>5, <2>6, <2>7 DEF SuiteTyped
<1>2. SuitePlaced'
  BY SuiteLeads, SuiteRanges DEF SuiteInv, SuiteCourseTypes, SuitePlaced, SuiteTyped,
         SuitePointTypes
<1>3. SuiteJudged'
  BY SuiteLeads, SuiteEmptied DEF SuiteInv, SuiteJudged, SuiteTyped, SuitePointTypes
<1>4. SuiteHooked'
  BY SuiteLeads DEF SuiteInv, SuiteHooked, SuiteTyped, SuitePointTypes
<1>5. SuiteStops'
  BY SuiteRanges DEF SuiteInv, SuiteStops, SuiteTyped, SuiteLedgerTypes
<1>6. SuiteOutcomes'
  <2>1. SuiteGrows /\ events' = events /\ pc # "method" /\ (verdict = "refused" => verdict' = "refused")
    BY DEF SuiteGrows, SuiteInv, SuiteJudged
  <2> QED
    BY <2>1, SuiteOutcomesStay DEF SuiteInv
<1>9. SuiteEnds'
  BY SuiteRanges, SuiteLeads DEF SuiteInv, SuiteOutcomes, SuiteEnds, SuiteAccounted,
         SuiteSpoken, SuiteJudged, SuiteTyped, SuitePointTypes, SuiteFlagTypes, SuiteLedgerTypes
<1>7. SuiteSeen'
  BY DEF SuiteInv, SuiteSeen, SuiteSpoken, SuiteJudged, SuiteTyped, SuitePointTypes
<1>8. SuiteFailed'
  BY DEF SuiteInv, SuiteFailed, SuiteTyped, SuiteFlagTypes
<1> QED
  BY <1>1, <1>2, <1>3, <1>4, <1>5, <1>6, <1>7, <1>8, <1>9 DEF SuiteInv

\* Root keeps the invariant.
LEMMA SuiteRootKeeps ==
  ASSUME S!SuiteAssumption, SuiteInv, S!Root
  PROVE  SuiteInv'
<1> USE DEF S!Root, S!Escape, S!MeetsContract
<1>1. SuiteTyped'
  <2>1. SuiteFactTypes'
    BY DEF SuiteInv, SuiteTyped, SuiteFactTypes
  <2>2. SuitePointTypes'
    BY SuiteLeads DEF SuiteInv, SuiteTyped, SuitePointTypes, SuiteFlagTypes
  <2>3. SuiteCourseTypes'
    BY SuiteRanges DEF SuiteInv, SuiteTyped, SuitePointTypes, SuiteCourseTypes, SuitePlaced
  <2>4. SuiteFlagTypes'
    BY DEF SuiteInv, SuiteTyped, SuiteFlagTypes
  <2>5. SuiteCardTypes'
    BY SuiteRanges DEF SuiteInv, SuiteTyped, SuiteCardTypes
  <2>6. SuiteLedgerTypes'
    BY SuiteRanges DEF SuiteInv, SuiteTyped, SuiteLedgerTypes
  <2>7. SuiteBindingTypes'
    BY SuiteRanges, SuiteTampered DEF SuiteInv, SuiteTyped, SuiteBindingTypes
  <2> QED
    BY <2>1, <2>2, <2>3, <2>4, <2>5, <2>6, <2>7 DEF SuiteTyped
<1>2. SuitePlaced'
  BY SuiteLeads, SuiteRanges DEF SuiteInv, SuiteCourseTypes, SuitePlaced, SuiteTyped,
         SuitePointTypes
<1>3. SuiteJudged'
  <2>1. S!MeetsContract <=> S!MeetsContract'
    BY DEF S!MeetsContract, S!ExpectedSkips, S!Skips, S!Active, S!PlatformSkips
  <2>2. pc' = "done" /\ ((verdict' = "accepted" /\ S!MeetsContract) \/ verdict' = "refused") /\ verdict = "outcome"
    BY DEF SuiteInv, SuiteJudged
  <2>3. tickets' = {} /\ rebound' = {} /\ refixed' = {}
    BY <2>2 DEF SuiteInv, SuiteJudged
  <2> QED
    BY <2>1, <2>2, <2>3 DEF SuiteJudged
<1>4. SuiteHooked'
  BY SuiteLeads DEF SuiteInv, SuiteHooked, SuiteTyped, SuitePointTypes
<1>5. SuiteStops'
  BY SuiteRanges DEF SuiteInv, SuiteStops, SuiteTyped, SuiteLedgerTypes
<1>6. SuiteOutcomes'
  <2>1. SuiteGrows /\ events' = events /\ pc # "method" /\ (verdict = "refused" => verdict' = "refused")
    BY DEF SuiteGrows, SuiteInv, SuiteJudged
  <2> QED
    BY <2>1, SuiteOutcomesStay DEF SuiteInv
<1>9. SuiteEnds'
  BY SuiteRanges, SuiteLeads DEF SuiteInv, SuiteOutcomes, SuiteEnds, SuiteAccounted,
         SuiteSpoken, SuiteJudged, SuiteTyped, SuitePointTypes, SuiteFlagTypes, SuiteLedgerTypes
<1>7. SuiteSeen'
  BY DEF SuiteInv, SuiteSeen, SuiteSpoken, SuiteJudged, SuiteTyped, SuitePointTypes
<1>8. SuiteFailed'
  BY DEF SuiteInv, SuiteFailed, SuiteTyped, SuiteFlagTypes
<1> QED
  BY <1>1, <1>2, <1>3, <1>4, <1>5, <1>6, <1>7, <1>8, <1>9 DEF SuiteInv

SuiteUnmoved == UNCHANGED <<S!facts, S!suite, S!bindings, drift, S!adapter, completed, broken>>

\* A part that leaves with an error and gives no outcome.
LEMMA SuiteEscaped ==
  ASSUME S!SuiteAssumption, SuiteInv, pc \in S!Parts, S!Escape, SuiteUnmoved, SuiteCardTypes',
         UNCHANGED <<success, S!ledger>>, reached' \subseteq S!Tests, reached \subseteq reached'
  PROVE  SuiteInv'
<1> USE DEF S!Escape, SuiteUnmoved
<1>1. SuiteTyped'
  BY DEF SuiteInv, SuiteTyped, SuiteFactTypes, SuitePointTypes, SuiteCourseTypes,
         SuiteFlagTypes, SuiteLedgerTypes, SuiteBindingTypes
<1>2. SuitePlaced' /\ SuiteJudged' /\ SuiteHooked' /\ SuiteEnds'
  BY DEF SuitePlaced, SuiteJudged, SuiteHooked, SuiteEnds
<1>3. SuiteOutcomes'
  BY DEF SuiteOutcomes
<1>4. SuiteStops' /\ SuiteFailed'
  BY DEF SuiteInv, SuiteStops, SuiteFailed
<1>5. SuiteSeen'
  BY DEF SuiteInv, SuiteSeen, SuiteSpoken
<1> QED
  BY <1>1, <1>2, <1>3, <1>4, <1>5 DEF SuiteInv

SuiteSkipping(k) ==
  /\ events' = [events EXCEPT ![S!Test] = @ \cup {"skip"}]
  /\ skips' = skips \cup {<<S!Test, k>>} /\ reached' = reached \cup {S!Test}
  /\ success' = FALSE /\ pc' = S!After(pc, FALSE)
  /\ UNCHANGED <<active, started, stopped, bad, verdict>>

\* A part that skips its test with a ticket.
LEMMA SuiteSkippedRight ==
  ASSUME S!SuiteAssumption, SuiteInv, pc \in S!Parts, NEW k \in S!Kinds, SuiteSkipping(k), SuiteUnmoved, SuiteCardTypes'
  PROVE  SuiteInv'
<1>1. S!Test \in S!Tests /\ S!Test' = S!Test /\ verdict' = verdict /\ verdict = "none"
  BY SuiteRanges DEF SuiteInv, SuiteUnmoved, S!Test, SuiteSkipping, SuiteJudged, SuiteTyped,
         SuitePointTypes
<1>2. pc' \in {"cleanup", "tearDown", "finish"}
  BY SuiteLeads DEF SuiteSkipping
<1>3. events' \in [S!Tests -> SUBSET S!Events] /\ \A t \in S!Tests : t # S!Test => events'[t] = events[t]
  BY <1>1 DEF SuiteInv, SuiteTyped, SuiteLedgerTypes, SuiteSkipping
<1>4. events'[S!Test] # {}
  BY <1>1 DEF SuiteInv, SuiteTyped, SuiteLedgerTypes, SuiteSkipping
<1>5. SuiteTyped'
  <2>1. SuiteFactTypes' /\ SuitePointTypes' /\ SuiteCourseTypes' /\ SuiteBindingTypes'
    BY <1>1, <1>2 DEF SuiteUnmoved, SuiteInv, SuiteTyped, SuiteFactTypes, SuitePointTypes,
           SuiteCourseTypes, SuiteBindingTypes
  <2>2. SuiteFlagTypes'
    BY DEF SuiteSkipping, SuiteUnmoved, SuiteInv, SuiteTyped, SuiteFlagTypes
  <2>3. SuiteLedgerTypes'
    BY <1>1, <1>3 DEF SuiteSkipping, SuiteUnmoved, SuiteInv, SuiteTyped, SuiteLedgerTypes
  <2> QED
    BY <2>1, <2>2, <2>3 DEF SuiteTyped
<1>6. SuitePlaced' /\ SuiteHooked' /\ SuiteJudged'
  BY <1>1, <1>2, SuiteRanges DEF SuiteSkipping, SuiteUnmoved, SuitePlaced, SuiteHooked,
         SuiteJudged, SuiteInv
<1>7. SuiteAccounted(S!Test)' /\ SuiteGrows
  BY <1>1 DEF SuiteAccounted, SuiteSpoken, SuiteGrows, SuiteSkipping, SuiteUnmoved
<1>8. SuiteOutcomes'
  BY <1>1, <1>3, <1>7, SuiteOutcomesStay DEF SuiteInv
<1>9. SuiteEnds'
  BY <1>1, <1>7, SuiteEndsStay DEF SuiteInv
<1>10. SuiteStops'
  BY <1>3, <1>4 DEF SuiteStops, SuiteInv, SuiteSkipping, SuiteTyped, SuiteLedgerTypes
<1>11. SuiteFailed'
  BY DEF SuiteInv, SuiteFailed, SuiteSkipping, SuiteUnmoved
<1>12. SuiteSeen'
  BY <1>1 DEF SuiteInv, SuiteSeen, SuiteSpoken, SuiteSkipping
<1> QED
  BY <1>5, <1>6, <1>8, <1>9, <1>10, <1>11, <1>12 DEF SuiteInv

\* DynamicSkip keeps the invariant.
LEMMA SuiteDynamicSkipKeeps ==
  ASSUME S!SuiteAssumption, SuiteInv, S!DynamicSkip
  PROVE  SuiteInv'
<1>1. pc = "method" /\ pc \in S!Parts /\ S!Test \in S!Tests /\ S!Test' = S!Test /\ SuiteUnmoved
  BY SuiteRanges DEF SuiteInv, S!DynamicSkip, S!Test, SuiteUnmoved
<1>2. SuiteCardTypes'
  <2>1. issued[S!Test] + 1 \in 1 .. MaxTickets /\ issued' \in [S!Tests -> 0 .. MaxTickets]
    BY <1>1 DEF SuiteInv, SuiteTyped, SuiteCardTypes, S!DynamicSkip, S!SuiteAssumption
  <2>2. /\ tickets' \subseteq tickets \cup {<<S!Test, issued[S!Test] + 1>>}
        /\ held' \subseteq held \cup {<<S!Test, issued[S!Test] + 1>>}
    BY DEF S!DynamicSkip, S!Ticket
  <2> QED
    BY <1>1, <2>1, <2>2 DEF SuiteInv, SuiteTyped, SuiteCardTypes
<1>3. CASE UNCHANGED <<pc, verdict, success, S!ledger, reached>>
  <2>1. SuiteTyped'
    BY <1>1, <1>2, <1>3 DEF SuiteUnmoved, SuiteInv, SuiteTyped, SuiteFactTypes,
           SuitePointTypes, SuiteCourseTypes, SuiteFlagTypes,
       SuiteLedgerTypes, SuiteBindingTypes
  <2>2. SuitePlaced' /\ SuiteHooked' /\ SuiteJudged' /\ SuiteSeen' /\ SuiteFailed' /\ SuiteStops'
    BY <1>1, <1>3, SuiteRanges DEF SuiteUnmoved, SuitePlaced, SuiteHooked, SuiteJudged,
           SuiteSeen, SuiteSpoken, SuiteFailed, SuiteStops, SuiteInv, SuiteTyped,
           SuitePointTypes
  <2>3. SuiteGrows
    BY <1>1, <1>3 DEF SuiteGrows, SuiteUnmoved
  <2>4. SuiteOutcomes'
    BY <1>1, <1>3, <2>3, SuiteOutcomesStay DEF SuiteInv
  <2>5. SuiteEnds'
    BY <1>1, <1>3, <2>3, SuiteEndsStay DEF SuiteInv
  <2> QED
    BY <2>1, <2>2, <2>4, <2>5 DEF SuiteInv
<1>4. CASE SuiteSkipping("dynamic")
  BY <1>1, <1>2, <1>4, SuiteSkippedRight
<1>5. CASE S!Escape /\ UNCHANGED <<success, S!ledger>> /\ reached' = reached \cup {S!Test}
  BY <1>1, <1>2, <1>5, SuiteEscaped DEF SuiteInv, SuiteTyped, SuiteLedgerTypes
<1> QED
  BY <1>3, <1>4, <1>5 DEF S!DynamicSkip, SuiteSkipping, S!Record

\* ReplaySkip keeps the invariant.
LEMMA SuiteReplaySkipKeeps ==
  ASSUME S!SuiteAssumption, SuiteInv, S!ReplaySkip
  PROVE  SuiteInv'
<1>1. PICK card \in held : /\ S!Skipped(card, S!KindOf(card[1]))
                           /\ reached' = reached \cup ({S!Test} \cap {card[1]})
  BY DEF S!ReplaySkip
<1>2. pc \in S!Parts /\ S!Test \in S!Tests /\ S!Test' = S!Test /\ SuiteUnmoved
  BY SuiteRanges DEF SuiteInv, S!ReplaySkip, S!InPart, S!Test, SuiteUnmoved
<1>3. tickets' \subseteq tickets /\ UNCHANGED <<held, issued>>
  BY <1>1 DEF S!ReplaySkip, S!Skipped
<1>4. SuiteCardTypes'
  BY <1>3 DEF SuiteInv, SuiteTyped, SuiteCardTypes
<1>5. S!KindOf(card[1]) \in S!Kinds
  BY DEF S!KindOf
<1>6. CASE S!Escape /\ UNCHANGED <<success, S!ledger>>
  BY <1>1, <1>2, <1>4, <1>6, SuiteEscaped DEF SuiteInv, SuiteTyped, SuiteLedgerTypes
<1> DEFINE k == S!KindOf(card[1])
           rightly == S!Redeems(card, S!Test) /\ events[S!Test] \cap S!Terminal = {} /\ <<S!Test, k>> \notin skips
<1>7. CASE rightly
  <2>1. reached' = reached \cup {S!Test}
    BY <1>1, <1>7 DEF S!Redeems
  <2>2. SuiteSkipping(k)
    BY <1>1, <1>7, <2>1 DEF S!Skipped, SuiteSkipping, S!Record
  <2> QED
    BY <1>2, <1>4, <1>5, <2>2, SuiteSkippedRight
<1>8. CASE ~rightly
  BY <1>1, <1>6, <1>8 DEF S!Skipped
<1> QED
  BY <1>7, <1>8

\* EndPart keeps the invariant.
LEMMA SuiteEndPartKeeps ==
  ASSUME S!SuiteAssumption, SuiteInv, S!EndPart
  PROVE  SuiteInv'
<1>1. pc \in S!Parts /\ S!Test \in S!Tests /\ S!Test' = S!Test /\ success \in BOOLEAN
  BY SuiteRanges DEF SuiteInv, S!EndPart, S!InPart, S!Test, SuiteTyped, SuiteFlagTypes
<1>2. verdict = "none"
  BY <1>1 DEF SuiteInv, SuiteJudged, SuiteTyped, SuitePointTypes
<1>3. UNCHANGED <<S!facts, S!suite, S!cards, active, started, stopped, skips, S!bindings, drift, S!adapter, verdict, reached>>
  BY DEF S!EndPart
<1>4. CASE /\ pc' = S!After(pc, success)
           /\ completed' = IF pc = "method" THEN completed \cup {S!Test} ELSE completed
           /\ UNCHANGED <<events, success, bad, broken>>
  <2>1. /\ pc = "setUp" => pc' = "method" \/ (pc' = "cleanup" /\ success = FALSE)
        /\ pc = "method" => pc' = "tearDown" /\ SuiteAccounted(S!Test)'
        /\ pc = "tearDown" => pc' = "cleanup"
        /\ pc = "cleanup" => pc' = "finish"
    <3>1. CASE success = TRUE
      <4>1. pc = "method" => S!Test \in completed'
        BY <1>1, <1>4
      <4>2. pc = "method" => SuiteAccounted(S!Test)'
        BY <1>1, <4>1 DEF SuiteAccounted
      <4>3. S!After(pc, success) = S!After(pc, TRUE)
        BY <3>1
      <4>4. pc' = S!After(pc, TRUE)
        BY <1>4, <4>3
      <4>5. /\ pc = "setUp" => pc' = "method"
            /\ pc = "method" => pc' = "tearDown"
            /\ pc = "tearDown" => pc' = "cleanup"
            /\ pc = "cleanup" => pc' = "finish"
        BY <4>4, SuiteLeads
      <4> QED
        BY <4>2, <4>5
    <3>2. CASE success = FALSE
      BY <1>1, <1>4, <3>2, SuiteLeads DEF SuiteAccounted, S!Test
    <3> QED
      BY <1>1, <3>1, <3>2
  <2>2. SuiteTyped'
    BY <1>1, <1>3, <1>4, <2>1 DEF SuiteInv, SuiteTyped, SuiteFactTypes, SuitePointTypes,
           SuiteCourseTypes, SuiteFlagTypes, SuiteCardTypes,
       SuiteLedgerTypes, SuiteBindingTypes
  <2>3. SuitePlaced' /\ SuiteHooked' /\ SuiteJudged'
    BY <1>1, <1>2, <1>3, <2>1, SuiteRanges DEF SuiteInv, SuitePlaced, SuiteHooked, SuiteJudged
  <2>4. SuiteStops' /\ SuiteSeen' /\ SuiteFailed'
    BY <1>3, <1>4 DEF SuiteInv, SuiteStops, SuiteSeen, SuiteSpoken, SuiteFailed
  <2>5. SuiteGrows
    BY <1>3, <1>4 DEF SuiteGrows
  <2>6. SuiteOutcomes'
    BY <1>1, <1>3, <1>4, <2>1, <2>5, SuiteOutcomesStay DEF SuiteInv
  <2>7. SuiteEnds'
    BY <1>1, <1>4, <2>1, <2>5, SuiteEndsStay DEF SuiteInv
  <2> QED
    BY <2>2, <2>3, <2>4, <2>6, <2>7 DEF SuiteInv
<1>5. CASE S!Fails /\ pc' = S!After(pc, FALSE) /\ broken' = TRUE /\ UNCHANGED completed
  <2>1. /\ pc = "setUp" => pc' = "cleanup"
        /\ pc = "method" => pc' = "tearDown"
        /\ pc = "tearDown" => pc' = "cleanup"
        /\ pc = "cleanup" => pc' = "finish"
    BY <1>1, <1>5, SuiteLeads
  <2>2. success' = FALSE /\ bad' = TRUE /\ events' = [events EXCEPT ![S!Test] = @ \cup {"failure"}]
    BY <1>5 DEF S!Fails, S!Record
  <2>3. /\ events' \in [S!Tests -> SUBSET S!Events] /\ \A t \in S!Tests : t # S!Test => events'[t] = events[t]
        /\ events'[S!Test] # {}
    BY <1>1, <2>2 DEF SuiteInv, SuiteTyped, SuiteLedgerTypes
  <2>4. SuiteTyped'
    BY <1>1, <1>3, <1>5, <2>1, <2>2, <2>3 DEF SuiteInv, SuiteTyped, SuiteFactTypes,
           SuitePointTypes, SuiteCourseTypes, SuiteFlagTypes,
       SuiteCardTypes, SuiteLedgerTypes, SuiteBindingTypes
  <2>5. SuitePlaced' /\ SuiteHooked' /\ SuiteJudged'
    BY <1>1, <1>2, <1>3, <2>1, SuiteRanges DEF SuiteInv, SuitePlaced, SuiteHooked, SuiteJudged
  <2>6. SuiteSeen' /\ SuiteFailed'
    BY <1>3, <2>2 DEF SuiteInv, SuiteSeen, SuiteSpoken, SuiteFailed
  <2>7. SuiteStops'
    BY <1>3, <2>3 DEF SuiteInv, SuiteStops, SuiteTyped, SuiteLedgerTypes
  <2>8. SuiteGrows /\ SuiteAccounted(S!Test)'
    BY <1>3, <1>5, <2>2 DEF SuiteGrows, SuiteAccounted
  <2>9. SuiteOutcomes'
    BY <1>1, <1>3, <2>3, <2>8, SuiteOutcomesStay DEF SuiteInv
  <2>10. SuiteEnds'
    BY <1>1, <2>8, SuiteEndsStay DEF SuiteInv
  <2> QED
    BY <2>4, <2>5, <2>6, <2>7, <2>9, <2>10 DEF SuiteInv
<1> QED
  BY <1>4, <1>5 DEF S!EndPart

\* The invariant holds before the runner reads the contract.
LEMMA SuiteInitially == S!SuiteAssumption /\ S!Init => SuiteInv
<1> SUFFICES ASSUME S!SuiteAssumption, S!Init PROVE SuiteInv
  OBVIOUS
<1>1. Len(Order) \in Nat \ {0}
  BY DEF S!SuiteAssumption
<1>2. SuiteFactTypes /\ SuitePointTypes /\ SuiteFlagTypes
  BY DEF S!Init, SuiteFactTypes, SuitePointTypes, SuiteFlagTypes
<1>3. SuiteCourseTypes /\ SuiteCardTypes /\ SuiteLedgerTypes /\ SuiteBindingTypes
  BY <1>1 DEF S!Init, SuiteCourseTypes, SuiteCardTypes, SuiteLedgerTypes, SuiteBindingTypes,
         S!SuiteAssumption
<1>4. SuitePlaced /\ SuiteJudged /\ SuiteHooked /\ SuiteStops /\ SuiteEnds /\ SuiteFailed
  BY DEF S!Init, SuitePlaced, SuiteJudged, SuiteHooked, SuiteStops, SuiteEnds, SuiteFailed
<1>5. SuiteOutcomes /\ SuiteSeen
  BY DEF S!Init, SuiteOutcomes, SuiteSeen, SuiteSpoken
<1> QED
  BY <1>2, <1>3, <1>4, <1>5 DEF SuiteInv, SuiteTyped

\* Every step keeps the invariant.
LEMMA SuiteSteps == S!SuiteAssumption /\ SuiteInv /\ [S!Next]_(S!vars) => SuiteInv'
<1> SUFFICES ASSUME S!SuiteAssumption, SuiteInv, [S!Next]_(S!vars) PROVE SuiteInv'
  OBVIOUS
<1>1. CASE UNCHANGED S!vars
  <2>1. SuiteTyped'
    BY <1>1 DEF S!vars, SuiteInv, SuiteTyped, SuiteFactTypes, SuitePointTypes,
           SuiteCourseTypes, SuiteFlagTypes, SuiteCardTypes,
       SuiteLedgerTypes, SuiteBindingTypes
  <2>2. SuitePlaced' /\ SuiteJudged' /\ SuiteHooked' /\ SuiteStops' /\ SuiteFailed'
    BY <1>1 DEF S!vars, SuiteInv, SuitePlaced, SuiteJudged, S!MeetsContract, S!ExpectedSkips,
           S!Skips, S!Active, S!PlatformSkips,
       SuiteHooked, SuiteStops, SuiteFailed
  <2>3. SuiteOutcomes' /\ SuiteEnds' /\ SuiteSeen'
    BY <1>1 DEF S!vars, SuiteInv, SuiteOutcomes, SuiteEnds, SuiteAccounted, SuiteSpoken,
           SuiteSeen, S!Test
  <2> QED
    BY <2>1, <2>2, <2>3 DEF SuiteInv
<1>2. CASE S!Next
  BY <1>2, SuiteContractKeeps, SuiteInstallKeeps, SuiteEditKeeps, SuiteNextTestKeeps, SuiteLeaveClassKeeps, SuiteModuleFixtureKeeps, SuiteClassSetUpKeeps, SuiteStartTestKeeps, SuitePartRefusedKeeps, SuitePlatformSkipKeeps, SuiteDynamicSkipKeeps, SuiteReplaySkipKeeps, SuiteForeignSkipKeeps, SuiteSubtestKeeps, SuiteTamperInTestKeeps, SuiteEndPartKeeps, SuiteFinishKeeps, SuiteStopTestKeeps, SuiteAfterTestKeeps, SuiteLastModuleKeeps, SuiteJudgeKeeps, SuiteCloseKeeps, SuiteRootKeeps
     DEF S!Next
<1> QED
  BY <1>1, <1>2

\* What the invariant says of an accepted run, and of a run that has ended.
LEMMA SuitePromises ==
  ASSUME SuiteInv
  PROVE  S!AcceptedIsReal /\ S!AcceptedIsSpotless /\ S!NoTicketLeft /\ S!HooksRestored
<1>1. S!AcceptedIsReal
  <2> SUFFICES ASSUME verdict = "accepted", NEW t \in S!Tests
               PROVE  IF \E k \in S!Kinds : <<t, k>> \in S!ExpectedSkips
                      THEN t \in reached ELSE t \in completed /\ t \notin reached
    BY DEF S!AcceptedIsReal
  <2>1. stopped = S!Tests /\ bad # TRUE /\ skips = S!ExpectedSkips /\ pc = "done"
    BY DEF SuiteInv, SuiteJudged, S!MeetsContract
  <2>2. events[t] # {} /\ SuiteAccounted(t)
    BY <2>1 DEF SuiteInv, SuiteStops, SuiteOutcomes
  <2>3. t \in reached <=> SuiteSpoken(t)
    BY DEF SuiteInv, SuiteSeen
  <2>4. SuiteSpoken(t) <=> \E k \in S!Kinds : <<t, k>> \in S!ExpectedSkips
    BY <2>1 DEF SuiteSpoken
  <2> QED
    BY <2>1, <2>2, <2>3, <2>4 DEF SuiteAccounted
<1>2. S!AcceptedIsSpotless
  BY DEF S!AcceptedIsSpotless, SuiteInv, SuiteJudged, S!MeetsContract, SuiteFailed, SuiteTyped,
         SuiteFlagTypes
<1>3. S!NoTicketLeft /\ S!HooksRestored
  BY DEF S!NoTicketLeft, S!HooksRestored, SuiteInv, SuiteJudged, SuiteHooked
<1> QED
  BY <1>1, <1>2, <1>3

\* A test completes in no other step than the end of its body, which refuses a rebound one.
LEMMA SuiteReviewed == S!Next => S!RunsReviewedCode
<1> SUFFICES ASSUME S!Next, NEW t \in completed' \ completed PROVE t \notin rebound /\ ClassOf[t] \notin refixed
  BY DEF S!RunsReviewedCode
<1>1. S!EndPart
  BY DEF S!Next, S!Contract, S!Install, S!Edit, S!NextTest, S!LeaveClass, S!ModuleFixture,
         S!ClassSetUp, S!StartTest, S!PartRefused, S!PlatformSkip, S!DynamicSkip, S!ReplaySkip,
         S!ForeignSkip, S!Subtest, S!TamperInTest, S!Finish, S!StopTest, S!AfterTest,
         S!LastModule, S!Judge, S!Close, S!Root, S!Fixture
<1> QED
  BY <1>1 DEF S!EndPart, S!InPart, S!CaseIntact

HIDE DEF S!facts, S!suite, S!ledger, S!cards, S!bindings, S!adapter, S!history,
       SuiteTestPoints, S!Terminal, S!Events, S!Kinds, S!Parts

-----------------------------------------------------------------------------
(* The tree: what TreeProofs proves is taken over by instantiation.        *)

UP == INSTANCE TreeProofs WITH None <- absent, Root <- RootInode, Tree <- FirstTree

\* The same order of a set, and the same sets are finite.
LEMMA TreesOrder ==
  /\ \A set : U!InSomeOrder(set) = UP!InSomeOrder(set)
  /\ \A set : U!IsFiniteSet(set) <=> UP!IsFiniteSet(set)
  BY DEF U!InSomeOrder, UP!InSomeOrder, U!Cardinality, UP!Cardinality, U!IsFiniteSet,
         UP!IsFiniteSet

\* The tree that is observed is the one the proofs about it speak of, and so are its steps.
LEMMA TreesAlike ==
  /\ U!TreeAssumption <=> UP!TreeAssumption
  /\ U!CallerAssumption <=> UP!CallerAssumption
  /\ U!Init <=> UP!Init
  /\ U!TypeOK <=> UP!TypeOK
  /\ U!ContentsCoexist <=> UP!ContentsCoexist
  /\ U!AcceptedIsOneMoment <=> UP!AcceptedIsOneMoment
  /\ U!WalkIsComplete <=> UP!WalkIsComplete
  /\ U!vars = UP!vars
  /\ U!CachedNode <=> UP!CachedNode
  /\ U!OpenParent <=> UP!OpenParent
  /\ U!StatNode <=> UP!StatNode
  /\ U!OpenNode <=> UP!OpenNode
  /\ U!ReadFirstHalf <=> UP!ReadFirstHalf
  /\ U!ReadSecondHalf <=> UP!ReadSecondHalf
  /\ U!RecheckDescriptor <=> UP!RecheckDescriptor
  /\ U!RecheckName <=> UP!RecheckName
  /\ U!RecheckParents <=> UP!RecheckParents
  /\ U!EndReopen <=> UP!EndReopen
  /\ U!OpenDirectory <=> UP!OpenDirectory
  /\ U!ReadLink <=> UP!ReadLink
  /\ U!RecheckLink <=> UP!RecheckLink
  /\ U!ListRoot <=> UP!ListRoot
  /\ U!OpenListed <=> UP!OpenListed
  /\ U!Scan <=> UP!Scan
  /\ U!EndList <=> UP!EndList
  /\ U!OpenStructure <=> UP!OpenStructure
  /\ U!EndStructure <=> UP!EndStructure
  /\ U!DropStructure <=> UP!DropStructure
  /\ U!StatAbsent <=> UP!StatAbsent
  /\ U!DescendAbsent <=> UP!DescendAbsent
  /\ U!StatAbsentLeaf <=> UP!StatAbsentLeaf
  /\ U!EndVerify <=> UP!EndVerify
  /\ U!Others <=> UP!Others
  /\ U!AskGit <=> UP!AskGit
  /\ U!FirstAnswer <=> UP!FirstAnswer
  /\ U!CaptureWithoutGit <=> UP!CaptureWithoutGit
  /\ U!CaptureBytes <=> UP!CaptureBytes
  /\ U!SealTree <=> UP!SealTree
  /\ U!LaterAnswer <=> UP!LaterAnswer
  /\ U!Reject <=> UP!Reject
  /\ U!ReadMember <=> UP!ReadMember
  /\ U!callerVars = UP!callerVars
<1> USE TreesOrder DEF
           U!AbsentTasks, UP!AbsentTasks, U!AcceptedIsOneMoment, UP!AcceptedIsOneMoment,
           U!After, UP!After, U!Agrees, UP!Agrees, U!AskGit, UP!AskGit, U!At, UP!At, U!Bump,
           UP!Bump, U!CachedNode, UP!CachedNode, U!CallerAssumption, UP!CallerAssumption,
           U!Calls, UP!Calls, U!CanMerge, UP!CanMerge, U!Candidate, UP!Candidate,
           U!CaptureBytes, UP!CaptureBytes, U!CaptureWithoutGit, UP!CaptureWithoutGit,
           U!ChildTasks, UP!ChildTasks, U!ContentsCoexist, UP!ContentsCoexist, U!DescendAbsent,
           UP!DescendAbsent, U!Directories, UP!Directories, U!Doing, UP!Doing, U!DropStructure,
           UP!DropStructure, U!EndList, UP!EndList, U!EndReopen, UP!EndReopen, U!EndStructure,
           UP!EndStructure, U!EndVerify, UP!EndVerify, U!Exists, UP!Exists, U!Expected,
           UP!Expected, U!Fail, UP!Fail, U!FileSet, UP!FileSet, U!Finish, UP!Finish,
           U!FirstAnswer, UP!FirstAnswer, U!Frozen, UP!Frozen, U!Here, UP!Here, U!InScope,
           UP!InScope, U!Init, UP!Init, U!Inodes, UP!Inodes, U!IsDirectory, UP!IsDirectory,
           U!KindExpected, UP!KindExpected, U!Known, UP!Known, U!LaterAnswer, UP!LaterAnswer,
           U!Leaf, UP!Leaf, U!Leaves, UP!Leaves, U!ListRoot, UP!ListRoot, U!ListTask,
           UP!ListTask, U!Lookup, UP!Lookup, U!Merge, UP!Merge, U!NamesOf, UP!NamesOf, U!Next,
           UP!Next, U!Next1, UP!Next1, U!NoReg, UP!NoReg, U!NoStructure, UP!NoStructure,
           U!NodeFiles, UP!NodeFiles, U!NodeTask, UP!NodeTask, U!NodeTasks, UP!NodeTasks,
           U!Observe, UP!Observe, U!OnlyRoot, UP!OnlyRoot, U!OpenDirectory, UP!OpenDirectory,
           U!OpenListed, UP!OpenListed, U!OpenNode, UP!OpenNode, U!OpenParent, UP!OpenParent,
           U!OpenStructure, UP!OpenStructure, U!Opened, UP!Opened, U!Others, UP!Others,
           U!Paths, UP!Paths, U!Placed, UP!Placed, U!Proof, UP!Proof, U!Put, UP!Put, U!PutBack,
           UP!PutBack, U!ReadFirstHalf, UP!ReadFirstHalf, U!ReadLink, UP!ReadLink,
           U!ReadMember, UP!ReadMember, U!ReadSecondHalf, UP!ReadSecondHalf,
           U!RecheckDescriptor, UP!RecheckDescriptor, U!RecheckLink, UP!RecheckLink,
           U!RecheckName, UP!RecheckName, U!RecheckParents, UP!RecheckParents, U!Record,
           UP!Record, U!Reject, UP!Reject, U!Reopen, UP!Reopen, U!Resolve, UP!Resolve,
           U!Running, UP!Running, U!Same, UP!Same, U!Scan, UP!Scan, U!Seal, UP!Seal,
           U!SealTree, UP!SealTree, U!SessionInit, UP!SessionInit, U!Stable, UP!Stable,
           U!Start, UP!Start, U!StatAbsent, UP!StatAbsent, U!StatAbsentLeaf, UP!StatAbsentLeaf,
           U!StatNode, UP!StatNode, U!StructureTask, UP!StructureTask, U!TakeAway, UP!TakeAway,
           U!Task, UP!Task, U!To, UP!To, U!Top, UP!Top, U!TreeAssumption, UP!TreeAssumption,
           U!TypeOK, UP!TypeOK, U!Up, UP!Up, U!UsesGit, UP!UsesGit, U!Verify, UP!Verify,
           U!VerifyAgain, UP!VerifyAgain, U!VerifyTasks, UP!VerifyTasks, U!Verifying,
           UP!Verifying, U!Walk, UP!Walk, U!WalkIsComplete, UP!WalkIsComplete, U!Working,
           UP!Working, U!WriteHalf, UP!WriteHalf, U!callerVars, UP!callerVars, U!control,
           UP!control, U!deleted_files, UP!deleted_files, U!facts, UP!facts, U!fs, UP!fs,
           U!ls_files, UP!ls_files, U!sessionVars, UP!sessionVars, U!vars, UP!vars
<1>1. U!TreeAssumption <=> UP!TreeAssumption
  OBVIOUS
<1>2. U!CallerAssumption <=> UP!CallerAssumption
  OBVIOUS
<1>3. U!Init <=> UP!Init
  OBVIOUS
<1>4. U!TypeOK <=> UP!TypeOK
  OBVIOUS
<1>5. U!ContentsCoexist <=> UP!ContentsCoexist
  OBVIOUS
<1>6. U!AcceptedIsOneMoment <=> UP!AcceptedIsOneMoment
  OBVIOUS
<1>7. U!WalkIsComplete <=> UP!WalkIsComplete
  OBVIOUS
<1>8. U!vars = UP!vars
  OBVIOUS
<1>9. U!CachedNode <=> UP!CachedNode
  OBVIOUS
<1>10. U!OpenParent <=> UP!OpenParent
  OBVIOUS
<1>11. U!StatNode <=> UP!StatNode
  OBVIOUS
<1>12. U!OpenNode <=> UP!OpenNode
  OBVIOUS
<1>13. U!ReadFirstHalf <=> UP!ReadFirstHalf
  OBVIOUS
<1>14. U!ReadSecondHalf <=> UP!ReadSecondHalf
  OBVIOUS
<1>15. U!RecheckDescriptor <=> UP!RecheckDescriptor
  OBVIOUS
<1>16. U!RecheckName <=> UP!RecheckName
  OBVIOUS
<1>17. U!RecheckParents <=> UP!RecheckParents
  OBVIOUS
<1>18. U!EndReopen <=> UP!EndReopen
  OBVIOUS
<1>19. U!OpenDirectory <=> UP!OpenDirectory
  OBVIOUS
<1>20. U!ReadLink <=> UP!ReadLink
  OBVIOUS
<1>21. U!RecheckLink <=> UP!RecheckLink
  OBVIOUS
<1>22. U!ListRoot <=> UP!ListRoot
  OBVIOUS
<1>23. U!OpenListed <=> UP!OpenListed
  OBVIOUS
<1>24. U!Scan <=> UP!Scan
  OBVIOUS
<1>25. U!EndList <=> UP!EndList
  OBVIOUS
<1>26. U!OpenStructure <=> UP!OpenStructure
  OBVIOUS
<1>27. U!EndStructure <=> UP!EndStructure
  OBVIOUS
<1>28. U!DropStructure <=> UP!DropStructure
  OBVIOUS
<1>29. U!StatAbsent <=> UP!StatAbsent
  OBVIOUS
<1>30. U!DescendAbsent <=> UP!DescendAbsent
  OBVIOUS
<1>31. U!StatAbsentLeaf <=> UP!StatAbsentLeaf
  OBVIOUS
<1>32. U!EndVerify <=> UP!EndVerify
  OBVIOUS
<1>33. U!Others <=> UP!Others
  OBVIOUS
<1>34. U!AskGit <=> UP!AskGit
  OBVIOUS
<1>35. U!FirstAnswer <=> UP!FirstAnswer
  OBVIOUS
<1>36. U!CaptureWithoutGit <=> UP!CaptureWithoutGit
  OBVIOUS
<1>37. U!CaptureBytes <=> UP!CaptureBytes
  OBVIOUS
<1>38. U!SealTree <=> UP!SealTree
  OBVIOUS
<1>39. U!LaterAnswer <=> UP!LaterAnswer
  OBVIOUS
<1>40. U!Reject <=> UP!Reject
  OBVIOUS
<1>41. U!ReadMember <=> UP!ReadMember
  OBVIOUS
<1>42. U!callerVars = UP!callerVars
  OBVIOUS
<1> QED
  BY ONLY <1>1, <1>2, <1>3, <1>4, <1>5, <1>6, <1>7, <1>8, <1>9, <1>10, <1>11, <1>12, <1>13,
          <1>14, <1>15, <1>16, <1>17, <1>18, <1>19, <1>20, <1>21, <1>22, <1>23, <1>24, <1>25,
          <1>26, <1>27, <1>28, <1>29, <1>30, <1>31, <1>32, <1>33, <1>34, <1>35, <1>36, <1>37,
          <1>38, <1>39, <1>40, <1>41, <1>42

\* A step of the one is a step of the other.
LEMMA TreeNextAlike == U!Next <=> UP!Next
<1>1. U!Observe <=> UP!Observe
  BY TreesAlike DEF U!Observe, UP!Observe
<1>2. (UNCHANGED U!callerVars) <=> (UNCHANGED UP!callerVars)
  BY DEF U!callerVars, UP!callerVars
<1> QED
  BY TreesAlike, <1>1, <1>2 DEF U!Next, UP!Next

-----------------------------------------------------------------------------
(* The composition: a behaviour is about one component.                    *)

\* The invariant of the component that runs.
PartInv ==
    /\ part \in {"universe", "artifacts", "repository", "suite"}
    /\ part = "universe" => UP!TreeInv
    /\ part = "artifacts" => CopyInv
    /\ part = "repository" => GitInv
    /\ part = "suite" => SuiteInv

\* A step of the composition is a step of the component it is about.
LEMMA PartMoves ==
  ASSUME [Next]_vars
  PROVE  /\ part' = part
         /\ part = "universe" => [U!Next]_(U!vars)
         /\ part = "artifacts" => [A!Next]_(A!vars)
         /\ part = "repository" => [G!Next]_(G!vars)
         /\ part = "suite" => [S!Next]_(S!vars)
<1>1. CASE UNCHANGED vars
  <2>1. part' = part
    BY <1>1 DEF vars
  <2>2. UNCHANGED U!vars /\ UNCHANGED A!vars /\ UNCHANGED G!vars /\ UNCHANGED S!vars
    BY <1>1 DEF vars, U!vars, U!sessionVars, U!fs, U!facts, U!control, U!callerVars,
       A!vars, A!sources, A!inside, A!reading, A!records, A!faults, A!ends,
       A!history, G!vars, S!vars, S!facts, S!suite, S!ledger, S!cards, S!bindings, S!adapter, S!history
  <2> QED
    BY <2>1, <2>2
<1>2. CASE Next
  BY <1>2 DEF Next, UniverseStep, ArtifactsStep, RepositoryStep, SuiteStep,
     TheRestStays
<1> QED
  BY <1>1, <1>2

\* Every component starts as it should.
LEMMA PartInitial == Init => PartInv
  BY TreesAlike, UP!TreeInitially, CopyInitially, GitInitially, SuiteInitially, SizesAssumption
  DEF Init, PartInv

\* Every step keeps it.
LEMMA PartSteps == PartInv /\ [Next]_vars => PartInv'
<1> SUFFICES ASSUME PartInv, [Next]_vars PROVE PartInv'
  OBVIOUS
<1>1. part' = part
  BY PartMoves
<1>2. part = "universe" => UP!TreeInv'
  <2> SUFFICES ASSUME part = "universe" PROVE UP!TreeInv'
    OBVIOUS
  <2>1. UP!TreeInv /\ [U!Next]_(U!vars)
    BY PartMoves DEF PartInv
  <2>2. (UNCHANGED U!vars) <=> (UNCHANGED UP!vars)
    BY DEF U!vars, U!sessionVars, U!fs, U!facts, U!control, U!callerVars,
           UP!vars, UP!sessionVars, UP!fs, UP!facts, UP!control, UP!callerVars
  <2>3. [UP!Next]_(UP!vars)
    BY <2>1, <2>2, TreeNextAlike
  <2>4. UP!TreeAssumption /\ UP!CallerAssumption
    BY SizesAssumption, TreesAlike
  <2> QED
    BY ONLY <2>1, <2>3, <2>4, UP!TreeSteps
<1>3. part = "artifacts" => CopyInv'
  BY PartMoves, SizesAssumption, CopySteps DEF PartInv
<1>4. part = "repository" => GitInv'
  BY PartMoves, SizesAssumption, GitSteps DEF PartInv
<1>5. part = "suite" => SuiteInv'
  BY PartMoves, SizesAssumption, SuiteSteps DEF PartInv
<1> QED
  BY <1>1, <1>2, <1>3, <1>4, <1>5 DEF PartInv

\* The invariant of the composition, whichever component runs.
THEOREM Invariance == Spec => []PartInv
  BY PartInitial, PartSteps, PTL DEF Spec

\* Every component keeps to its types, for any tree, files, repository and suite; no copy
\* exceeds the size that is allowed, and no round of reads its limit (_RegularFileRound).
THEOREM TypesKept == Spec => []TypeOK
<1>1. ASSUME PartInv PROVE TypeOK
  <2>1. part = "universe" => U!TypeOK
    BY <1>1, TreesAlike, UP!TreeTypesMeant, SizesAssumption DEF PartInv
  <2>2. part = "artifacts" => A!TypeOK
    BY <1>1, CopyTypesMeant DEF PartInv
  <2>3. part = "repository" => G!TypeOK
    BY <1>1, GitTypesMeant DEF PartInv
  <2>4. part = "suite" => S!TypeOK
    BY <1>1, SuiteTypesMeant DEF PartInv, SuiteInv
  <2> QED
    BY <1>1, <2>1, <2>2, <2>3, <2>4 DEF PartInv, TypeOK
<1> QED
  BY <1>1, Invariance, PTL

\* What an observation accepts was true as a whole at one moment, whatever others did between
\* its system calls: the files, links, child sets and absences of a sealed tree (seal,
\* verify), the universe that Git lists (_make_public_file_universe), the artifact that is
\* frozen (_capture) and the answers of git (observe_identity).
THEOREM AcceptedWasOneMoment == Spec => []AcceptedIsOneMoment
<1>1. PartInv => AcceptedIsOneMoment
  BY TreesAlike, UP!TreeKeepsPromises, CopyPromises, GitPromises DEF PartInv,
         AcceptedIsOneMoment
<1> QED
  BY <1>1, Invariance, PTL

\* An accepted answer of git was true as a whole at one moment, and what is published is what
\* was committed, for any repository and any changes of others (snapshot_publication).
THEOREM GitWasTrue ==
  Spec => [](part = "repository" => G!AcceptedWasTrue /\ G!PublishedIsCommitted)
<1>1. PartInv => (part = "repository" => G!AcceptedWasTrue /\ G!PublishedIsCommitted)
  BY GitPromises DEF PartInv
<1> QED
  BY <1>1, Invariance, PTL

\* An artifact that is frozen is what its path led to (_capture).
THEOREM FrozenWasPublic == Spec => [](part = "artifacts" => A!FrozenIsPublic)
<1>1. PartInv => (part = "artifacts" => A!FrozenIsPublic)
  BY CopyPromises DEF PartInv
<1> QED
  BY <1>1, Invariance, PTL

\* The copies in use stay what was frozen, for any number of roles, chunks, uses and moves of
\* others (_seal_pending_descriptor, _verify_copy).
THEOREM CopiesFrozen == Spec => CopiesStayFrozen
<1> DEFINE sealed == part = "artifacts" => A!NothingCanWrite
           frozen == part = "artifacts" => A!UsesAreFrozen
<1>1. PartInv => sealed
  BY CopyPromises DEF PartInv
<1>2. PartInv /\ [Next]_vars => [frozen]_vars
  BY PartMoves, CopyFrozenUses DEF PartInv
<1> HIDE DEF sealed, frozen
<1>3. Spec => []sealed
  BY <1>1, Invariance, PTL
<1>4. Spec => [][frozen]_vars
  BY <1>2, Invariance, PTL DEF Spec
<1> QED
  BY <1>3, <1>4 DEF CopiesStayFrozen, sealed, frozen

\* Cleanup destroys and hides nothing, wherever it fails and whatever others do meanwhile
\* (_cleanup).
THEOREM CleanupHonest == Spec => CleanupIsHonest
<1> DEFINE honest == part = "artifacts" => A!OthersKept /\ A!CompleteIsClean /\ A!LeftIsNamed
           stays  == part = "artifacts" => A!UncertainStays
<1>1. PartInv => honest
  BY CopyPromises DEF PartInv
<1>2. PartInv /\ [Next]_vars => [stays]_vars
  BY PartMoves, CopyUncertainKept DEF PartInv
<1> HIDE DEF honest, stays
<1>3. Spec => []honest
  BY <1>1, Invariance, PTL
<1>4. Spec => [][stays]_vars
  BY <1>2, Invariance, PTL DEF Spec
<1> QED
  BY <1>3, <1>4 DEF CleanupIsHonest, honest, stays

\* An accepted run of the suite is real, for any suite of tests, classes and modules, any
\* contract and any tampering by test code (_run_python_tooling_root).
THEOREM SuiteReal == Spec => SuiteIsReal
<1> DEFINE real == part = "suite" =>
                       S!AcceptedIsReal /\ S!AcceptedIsSpotless /\ S!NoTicketLeft /\ S!HooksRestored
           reviewed == part = "suite" => S!RunsReviewedCode
<1>1. PartInv => real
  BY SuitePromises DEF PartInv
<1>2. [Next]_vars => [reviewed]_vars
  <2> SUFFICES ASSUME [Next]_vars, part = "suite", ~UNCHANGED vars PROVE S!RunsReviewedCode
    OBVIOUS
  <2>1. CASE S!Next
    BY <2>1, SuiteReviewed
  <2>2. CASE UNCHANGED S!vars
    BY <2>2 DEF S!RunsReviewedCode, S!vars, S!history
  <2> QED
    BY <2>1, <2>2, PartMoves
<1> HIDE DEF real, reviewed
<1>3. Spec => []real
  BY <1>1, Invariance, PTL
<1>4. Spec => [][reviewed]_vars
  BY <1>2, PTL DEF Spec
<1> QED
  BY <1>3, <1>4 DEF SuiteIsReal, real, reviewed
=============================================================================
