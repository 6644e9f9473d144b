----------------------------- MODULE TreeProofs -----------------------------
(***************************************************************************)
(* A session on a tree and its callers (FileUniverse), for any tree of two *)
(* levels and any changes by others.  What a session has learned holds of  *)
(* every moment at which the stamps it recorded are still those of the     *)
(* inodes; a stamp that has moved never comes back, and what is sealed is  *)
(* looked at again after it.                                               *)
(***************************************************************************)
EXTENDS FileUniverse, FiniteSetTheorems, SequenceTheorems, TLAPS

-----------------------------------------------------------------------------
TreeSingles == { <<n>> : n \in Names }
TreeDirs    == {Top} \cup TreeSingles
TreeKinds   == {"regular", "symlink", "directory"}
TreeMarks   == 0 .. MaxMoves
TreeBytes   == Nat \X Nat

\* The tasks of a session, and those that wait in a queue.
TreeNodeTasks   == [do : {"node"}, path : Paths, bytes : BOOLEAN, walk : BOOLEAN]
TreeListTasks   == [do : {"list"}, path : TreeDirs, bytes : BOOLEAN, walk : BOOLEAN]
TreeLevelTasks  == [do : {"structure"}, path : TreeDirs, ino : Directories]
TreeAbsentTasks == [do : {"absent"}, path : Paths]
TreeDropTasks   == [do : {"drop"}, path : {Top}]
TreeTasks == TreeNodeTasks \cup TreeListTasks \cup TreeLevelTasks \cup TreeAbsentTasks \cup TreeDropTasks
TreeSet(q) == { q[i] : i \in 1 .. Len(q) }
TreeWaits(q, do, p) == \E t \in TreeSet(q) : t.do = do /\ t.path = p
\* The tasks of these kinds come before all others.
TreeFirst(q, kinds) ==
    \A i, j \in 1 .. Len(q) : i < j /\ q[j].do \in kinds => q[i].do \in kinds

\* A file system of directories of two levels, and one moment of it.
TreeShaped(es) ==
    /\ es \in [Directories -> [Names -> Inodes \cup {None}]]
    /\ \A d \in Directories, n \in Names : es[d][n] \in Directories => d = Root /\ es[d][n] # Root
TreeNow == [entries |-> entries, data |-> data, stamp |-> stamp]
TreeMoment(m) ==
    TreeShaped(m.entries) /\ m.data \in [Leaves -> TreeBytes] /\ m.stamp \in [Inodes -> TreeMarks]
TreeTimed == clock \in TreeMarks /\ \A i \in Inodes : stamp[i] <= clock
\* Between two moments an inode of the same stamp kept its bytes, its entries and its names.
TreeLater(m, l) ==
    \A i \in Inodes :
        /\ m.stamp[i] <= l.stamp[i]
        /\ m.stamp[i] = l.stamp[i] =>
             /\ i \in Leaves => l.data[i] = m.data[i]
             /\ i \in Directories => l.entries[i] = m.entries[i]
             /\ \A d \in Directories, n \in Names : m.entries[d][n] = i => l.entries[d][n] = i

\* What a session knows: nodes, directories, absences and the structure.
TreeNodeType  == [kind : TreeKinds, ino : Inodes, stamp : TreeMarks, digest : TreeBytes \cup {<< >>},
                  up : Directories, bytes : BOOLEAN]
TreeDirType   == [ino : Directories, children : (SUBSET Names) \cup {None}]
TreeLevelType == [ino : Directories, stamp : TreeMarks, children : SUBSET (Names \X TreeKinds)]
TreeNodesMeant(ns, ds) ==
    /\ DOMAIN ns \subseteq Paths
    /\ \A p \in DOMAIN ns :
         /\ ns[p] \in TreeNodeType /\ ns[p].kind = Kind[ns[p].ino]
         /\ Up(p) \in DOMAIN ds /\ ns[p].up = ds[Up(p)].ino
         /\ ns[p].kind = "directory" => p \in DOMAIN ds /\ ds[p].ino = ns[p].ino /\ Up(p) = Top
TreeDirsMeant(ds) ==
    /\ DOMAIN ds \subseteq TreeDirs /\ Top \in DOMAIN ds /\ ds[Top].ino = Root
    /\ \A d \in DOMAIN ds : ds[d] \in TreeDirType /\ (d # Top => ds[d].ino # Root)
TreeLevelsMeant(st) ==
    /\ DOMAIN st \subseteq TreeDirs
    /\ \A d \in DOMAIN st : st[d] \in TreeLevelType /\ (d = Top <=> st[d].ino = Root)
    /\ Top \in DOMAIN st =>
         \A d \in DOMAIN st : d # Top => <<d[1], "directory">> \in st[Top].children
TreeMeant(ns, ds, abs, st) ==
    /\ TreeNodesMeant(ns, ds) /\ TreeDirsMeant(ds) /\ abs \subseteq Paths \X Paths /\ TreeLevelsMeant(st)

\* What is known was so at moment m or before.
TreeSeen(ns, st, m) ==
    /\ \A p \in DOMAIN ns : ns[p].stamp <= m.stamp[ns[p].ino]
    /\ \A d \in DOMAIN st : st[d].stamp <= m.stamp[st[d].ino]
\* A file or link that still has its stamp is in its place with its bytes.
TreeHeld(ns, m) ==
    \A p \in DOMAIN ns :
        ns[p].kind # "directory" /\ m.stamp[ns[p].ino] = ns[p].stamp =>
            m.entries[ns[p].up][Leaf(p)] = ns[p].ino /\ m.data[ns[p].ino] = ns[p].digest
\* While the root has its stamp, the directories are where they were, and those it has are in
\* the structure or will be.
TreeRootStill(st, m) == Top \in DOMAIN st /\ m.stamp[Root] = st[Top].stamp
TreeLed(ds, st, m) ==
    TreeRootStill(st, m) => \A d \in DOMAIN ds : Resolve(m.entries, d) = ds[d].ino
TreeCovered(st, m, q) ==
    TreeRootStill(st, m) =>
        /\ \A n \in Names : m.entries[Root][n] \in Directories =>
             \/ <<n>> \in DOMAIN st /\ st[<<n>>].ino = m.entries[Root][n]
             \/ \E t \in TreeSet(q) : t.do = "structure" /\ t.path = <<n>>
        /\ \A t \in TreeSet(q) : t.do = "structure" /\ t.path # Top => t.ino = m.entries[Root][t.path[1]]
\* While all directories have their stamps, what was absent is.
TreeStill(st, m) == Top \in DOMAIN st /\ \A d \in DOMAIN st : m.stamp[st[d].ino] = st[d].stamp
TreeAbsent(abs, st, m) == TreeStill(st, m) => \A a \in abs : Lookup(m.entries, a[1]) = None
TreeTrue(ns, ds, abs, st, m, q) ==
    /\ TreeSeen(ns, st, m) /\ TreeHeld(ns, m) /\ TreeLed(ds, st, m) /\ TreeCovered(st, m, q)
    /\ TreeAbsent(abs, st, m)

\* The children of a listed directory are known or will be; in an archive nothing else is.
TreeListed(ds, d) == d \in DOMAIN ds /\ ds[d].children # None
TreeWalked(ns, ds, q) ==
    \A d \in DOMAIN ds : TreeListed(ds, d) =>
        \A n \in ds[d].children : Append(d, n) \in DOMAIN ns \/ TreeWaits(q, "node", Append(d, n))
TreeChild(ds, p) == TreeListed(ds, Up(p)) /\ Leaf(p) \in ds[Up(p)].children
TreeOnlyChildren(ns, ds, q) ==
    IF mode = "archive"
      THEN /\ \A p \in DOMAIN ns : TreeChild(ds, p)
           /\ \A t \in TreeSet(q) : t.do = "node" => TreeChild(ds, t.path)
      ELSE /\ ~ TreeListed(ds, Top)
           /\ \A t \in TreeSet(q) : t.do = "list" => t.path # Top
\* What Git listed is captured or will be.
TreeAsked(ns, abs, st, q) ==
    mode = "git" =>
        /\ \A p \in files.present : p \in DOMAIN ns \/ TreeWaits(q, "node", p)
        /\ \A p \in files.deleted : (\E a \in abs : a[1] = p) \/ TreeWaits(q, "absent", p)
        /\ Top \in DOMAIN st \/ StructureTask \in TreeSet(q)

\* The points of a session, by what they do.

TreePoints == {Start, "stat", "listed", "open", "read", "rest", "recheck", "rebind", "chain", "opendir",
               "readlink", "relink", "scan", "descend", "leaf"}
TreeReading == {"open", "read", "rest", "recheck", "rebind", "chain"}
TreeLinking == {"readlink", "relink"}
TreeNoding  == {"stat", "opendir"} \cup TreeReading \cup TreeLinking

TreeTyped ==
    /\ TreeMoment(TreeNow) /\ TreeTimed
    /\ TreeMeant(nodes, dirs, absences, structure)
    /\ status \in {"capturing", "verifying", "sealed", "reopening", "failed"}
    /\ reads \in 0 .. MaxReads /\ todo \in Seq(TreeTasks)
    /\ pc \in TreePoints /\ (pc # Start => todo # << >>)
    /\ TreeFirst(todo, {"structure"})
    /\ \A t \in TreeSet(todo) : t.do = "structure" => (t.path = Top <=> t.ino = Root)

\* Where a step is, and what its descriptors are of.
TreePlaced ==
    /\ DOMAIN reg = DOMAIN NoReg
    /\ pc \in TreeNoding => Task.do = "node"
    /\ pc = "listed" => Task.do = "list" /\ Task.path # Top
    /\ pc = "scan" => Task.do \in {"list", "structure"}
    /\ pc \in {"descend", "leaf"} => Task.do = "absent" /\ Len(Task.path) = 2
    /\ pc \in TreeNoding \cup {"listed"} => Up(Task.path) \in DOMAIN dirs /\ reg.up = dirs[Up(Task.path)].ino
    /\ pc = "leaf" => reg.up \in Directories
    /\ pc = "leaf" /\ status = "capturing" =>
         <<Task.path[1]>> \in DOMAIN dirs /\ reg.up = dirs[<<Task.path[1]>>].ino
    /\ pc = "opendir" => reg.ino \in Directories \ {Root} /\ Up(Task.path) = Top
TreeOpened ==
    /\ pc \in TreeReading => reg.ino \in Inodes /\ Kind[reg.ino] = "regular"
    /\ pc \in TreeLinking => reg.ino \in Inodes /\ Kind[reg.ino] = "symlink"
    /\ pc \in TreeReading \cup TreeLinking => reg.stamp \in TreeMarks /\ reg.stamp <= stamp[reg.ino]
    /\ pc = "rest" => reg.half \in Nat
    /\ pc \in {"recheck", "rebind", "chain", "relink"} => reg.seen \in TreeBytes
    /\ pc = "rest" /\ stamp[reg.ino] = reg.stamp => reg.half = data[reg.ino][1]
    /\ pc \in {"recheck", "rebind", "chain", "relink"} /\ stamp[reg.ino] = reg.stamp => reg.seen = data[reg.ino]
    /\ pc \in TreeReading \cup TreeLinking /\ status # "reopening" /\ stamp[reg.ino] = reg.stamp =>
         entries[reg.up][Leaf(Task.path)] = reg.ino
\* A directory that still has its stamp is as it was scanned.
TreeEntries(i, ns) == { <<n, Kind[entries[i][n]], entries[i][n]>> : n \in { m \in ns : entries[i][m] # None } }
TreeScanning ==
    pc = "scan" =>
      /\ reg.ino \in Directories /\ reg.left \subseteq Names
      /\ \A c \in reg.seen : /\ c \in Names \X TreeKinds \X Inodes
                             /\ c[2] = Kind[c[3]]
                             /\ c[3] \in Directories => c[3] # Root /\ reg.ino = Root
      /\ Task.do = "structure" =>
           /\ Task.path = Top <=> reg.ino = Root
           /\ reg.ino = Task.ino
           /\ reg.stamp \in TreeMarks /\ reg.stamp <= stamp[reg.ino]
           /\ stamp[reg.ino] = reg.stamp => reg.seen = TreeEntries(reg.ino, Names \ reg.left)

TreeCapturing ==
    status = "capturing" =>
      /\ TreeTrue(nodes, dirs, absences, structure, TreeNow, todo)
      /\ TreeWalked(nodes, dirs, todo) /\ TreeOnlyChildren(nodes, dirs, todo)
      /\ step = "seal" => TreeAsked(nodes, absences, structure, todo)
      /\ (\E t \in TreeSet(todo) : t.do = "structure") =>
           DOMAIN nodes = {} /\ DOMAIN dirs = {Top} /\ absences = {}
      /\ \A t \in TreeSet(todo) :
           /\ t.do = "list" /\ t.path # Top => t.path \in DOMAIN nodes /\ nodes[t.path].kind = "directory"
           /\ t.do = "drop" => mode = "archive"
           /\ t.do = "structure" /\ t.path # Top =>
                Top \in DOMAIN structure /\ <<t.path[1], "directory">> \in structure[Top].children
           /\ t.do = "structure" /\ t.path = Top => DOMAIN structure = {}
      /\ \A i \in 2 .. Len(todo) : todo[i].do = "structure" => todo[i].path # Top

\* What a sealed snapshot says, verified or not.
TreeLooking == {"verifying", "sealed", "reopening"}
TreeSealed ==
    status \in TreeLooking =>
      /\ TreeMoment(atSeal) /\ TreeLater(atSeal, TreeNow)
      /\ TreeMeant(snap.nodes, snap.dirs, snap.absences, snap.structure)
      /\ TreeTrue(snap.nodes, snap.dirs, snap.absences, snap.structure, atSeal, << >>)
      /\ TreeWalked(snap.nodes, snap.dirs, << >>) /\ TreeOnlyChildren(snap.nodes, snap.dirs, << >>)
      /\ TreeAsked(snap.nodes, snap.absences, snap.structure, << >>)

\* A file or link of the snapshot was seen after the seal as it is in the snapshot, and then its
\* directory, if listed, had been listed again.
TreeAgain(p) ==
    /\ atSeal.stamp[snap.nodes[p].ino] = snap.nodes[p].stamp
    /\ TreeListed(snap.dirs, Up(p)) => TreeChild(snap.dirs, p)
\* A directory that lists a file with the stamp of the snapshot has it as a child.
TreeStands(p) == stamp[snap.nodes[p].ino] = snap.nodes[p].stamp
TreeRelisted(p) ==
    /\ TreeListed(snap.dirs, Up(p)) /\ ~ TreeChild(snap.dirs, p) /\ TreeStands(p) =>
         TreeWaits(todo, "list", Up(p))
\* A level of the structure still to be verified.
TreePending(d) == StructureTask \in TreeSet(todo) \/ TreeWaits(todo, "structure", d)
TreeVerifying ==
    status = "verifying" =>
      /\ TreeFirst(todo, {"structure", "list"})
      /\ \A t \in TreeSet(todo) : /\ t.do = "node" => t.path \in DOMAIN snap.nodes /\ t.walk = FALSE
                                  /\ t.do = "list" => t.path \in DOMAIN snap.dirs
      /\ \A p \in DOMAIN nodes : /\ p \in DOMAIN snap.nodes /\ nodes[p] = snap.nodes[p]
                                 /\ p \in NodeFiles(snap) => TreeAgain(p)
      /\ \A p \in NodeFiles(snap) : TreeAgain(p) \/ TreeWaits(todo, "node", p)
      /\ \A p \in NodeFiles(snap) : TreeRelisted(p)
      /\ \A d \in DOMAIN snap.structure :
           atSeal.stamp[snap.structure[d].ino] = snap.structure[d].stamp \/ TreePending(d)
\* What a step of the verification has seen so far it saw after the seal.
TreeRereading ==
    status = "verifying" =>
      /\ pc \in TreeReading \cup TreeLinking =>
           /\ atSeal.stamp[reg.ino] <= reg.stamp
           /\ /\ reg.ino = snap.nodes[Task.path].ino /\ reg.stamp = snap.nodes[Task.path].stamp
              /\ TreeListed(snap.dirs, Up(Task.path))
              => TreeChild(snap.dirs, Task.path)
      /\ pc = "scan" /\ Task.do = "list" =>
           /\ reg.ino = snap.dirs[Task.path].ino
           /\ \A p \in NodeFiles(snap) : Up(p) = Task.path /\ Leaf(p) \notin reg.left /\ TreeStands(p) =>
                Leaf(p) \in NamesOf(reg.seen)
TreeVerified ==
    status \in {"sealed", "reopening"} =>
      /\ \A p \in NodeFiles(snap) : TreeAgain(p)
      /\ \A d \in DOMAIN snap.structure :
           atSeal.stamp[snap.structure[d].ino] = snap.structure[d].stamp
TreeReopening ==
    /\ status = "reopening" => /\ Len(todo) = 1 /\ Task.do = "node" /\ Task.walk = FALSE
                               /\ Task.path \in DOMAIN snap.nodes
                               /\ snap.nodes[Task.path].kind = "regular"
                               /\ pc = Start \/ pc \in TreeReading
    /\ status \in {"sealed", "failed"} => todo = << >>

\* The caller. What Git answered before the last verification began was true of the sealed
\* tree, or a directory has changed since and the verification will fail.
TreeGone(d) == stamp[snap.structure[d].ino] # snap.structure[d].stamp
TreeAnswer(k) == IF k \in {1, 3} THEN deleted_files(atSeal.entries) ELSE ls_files(atSeal.entries)
TreeListing == files.listed = ls_files(atSeal.entries) /\ files.deleted = deleted_files(atSeal.entries)
TreeCalling ==
    /\ mode \in {"git", "archive", "package", "tarball"}
    /\ step \in {"before", "capture", "bytes", "seal", "after", "verify", "final", "accepted", "rejected"}
    /\ asked \in Seq(SUBSET Paths) /\ Len(asked) <= 4 /\ (~ UsesGit => asked = << >>)
    /\ step \in {"before", "capture"} =>
         /\ status = "capturing" /\ todo = << >> /\ DOMAIN nodes = {} /\ dirs = OnlyRoot
         /\ absences = {} /\ structure = NoStructure
    /\ step = "before" <=> UsesGit /\ step \in {"before", "capture"}
    /\ step = "bytes" => mode = "archive"
    /\ step \in {"bytes", "seal"} => status \in {"capturing", "failed"}
    /\ step = "seal" => asked = << >>
    /\ step = "after" => UsesGit
    /\ step = "final" /\ UsesGit => mode = "git"
    /\ step = "verify" => FALSE
    /\ step \in {"after", "final"} => status \in {"verifying", "sealed", "failed"}
    /\ step = "accepted" => status \in {"sealed", "reopening", "failed"}
    /\ status = "reopening" => step = "accepted"
    /\ step \in {"after", "final"} /\ todo # << >> => asked = << >>
    /\ UsesGit /\ step \in {"seal", "after", "final", "accepted"} =>
         /\ files.listed \subseteq Paths /\ files.deleted \subseteq Paths
         /\ files.present = files.listed \ files.deleted
TreeAnswered ==
    mode = "git" /\ status \in {"verifying", "sealed"} =>
      /\ step = "after" => \A k \in 1 .. Len(asked) :
           asked[k] = TreeAnswer(k) \/ \E d \in DOMAIN snap.structure : TreeGone(d)
      /\ step = "final" => TreeListing \/ \E d \in DOMAIN snap.structure : TreePending(d) /\ TreeGone(d)
TreeAccepted ==
    /\ ContentsCoexist /\ AcceptedIsOneMoment /\ WalkIsComplete
TreeInv ==
    /\ TreeTyped /\ TreePlaced /\ TreeOpened /\ TreeScanning /\ TreeCapturing /\ TreeSealed
    /\ TreeVerifying /\ TreeRereading /\ TreeVerified /\ TreeReopening /\ TreeCalling /\ TreeAnswered /\ TreeAccepted

\* A path is a name at the top, or a name in a directory there.
LEMMA TreePaths ==
  ASSUME NEW p \in Paths
  PROVE  \/ /\ Len(p) = 1 /\ p[1] \in Names /\ p = <<p[1]>> /\ Up(p) = Top /\ Leaf(p) = p[1]
            /\ p \in TreeSingles
         \/ /\ Len(p) = 2 /\ p[1] \in Names /\ p[2] \in Names /\ p = <<p[1], p[2]>>
            /\ Up(p) = <<p[1]>> /\ Up(p) \in TreeSingles /\ Up(p) # Top /\ Leaf(p) = p[2]
<1>1. CASE p \in { <<n>> : n \in Names }
  <2>1. PICK n \in Names : p = <<n>>
    BY <1>1
  <2> QED
    BY <2>1 DEF Up, Leaf, Top, TreeSingles
<1>2. CASE p \in Names \X Names
  <2>1. PICK n \in Names, k \in Names : p = <<n, k>>
    BY <1>2
  <2> QED
    BY <2>1 DEF Up, Leaf, Top, TreeSingles
<1> QED
  BY <1>1, <1>2 DEF Paths

\* Every path has a directory and a name.
LEMMA TreeUps ==
  ASSUME NEW p \in Paths
  PROVE  Up(p) \in TreeDirs /\ Leaf(p) \in Names /\ (Up(p) = Top => p \in TreeSingles)
BY TreePaths DEF TreeDirs

\* What a path of one name is.
LEMMA TreeSingle ==
  ASSUME NEW d \in TreeSingles
  PROVE  d # Top /\ d[1] \in Names /\ d = <<d[1]>> /\ d \in Paths /\ d \in TreeDirs /\ Up(d) = Top
         /\ Leaf(d) = d[1] /\ Len(d) = 1
<1>1. PICK n \in Names : d = <<n>>
  BY DEF TreeSingles
<1>2. Len(d) = 1 /\ d[1] = n
  BY <1>1
<1> QED
  BY <1>1, <1>2 DEF Up, Leaf, Top, Paths, TreeSingles, TreeDirs

\* A name appended to a path of one name.
LEMMA TreeLonger == ASSUME NEW k \in Names, NEW n \in Names PROVE Append(<<k>>, n) = <<k, n>>
<1>1. <<k>> \in Seq(Names) /\ Len(<<k>>) = 1 /\ <<k>>[1] = k
  OBVIOUS
<1>2. /\ Append(<<k>>, n) \in Seq(Names) /\ Len(Append(<<k>>, n)) = 2
      /\ Append(<<k>>, n)[1] = k /\ Append(<<k>>, n)[2] = n
  <2>1. /\ Append(<<k>>, n) \in Seq(Names) /\ Len(Append(<<k>>, n)) = Len(<<k>>) + 1
        /\ \A i \in 1 .. Len(<<k>>) : Append(<<k>>, n)[i] = <<k>>[i]
        /\ Append(<<k>>, n)[Len(<<k>>) + 1] = n
    BY <1>1, AppendProperties
  <2> QED
    BY <2>1, <1>1
<1>3. <<k, n>> \in Seq(Names) /\ Len(<<k, n>>) = 2 /\ <<k, n>>[1] = k /\ <<k, n>>[2] = n
  OBVIOUS
<1>4. \A i \in 1 .. 2 : Append(<<k>>, n)[i] = <<k, n>>[i]
  BY <1>2, <1>3
<1> QED
  BY <1>2, <1>3, <1>4, SeqEqual

\* A name below a directory is a path there.
LEMMA TreeAppended ==
  ASSUME NEW d \in TreeDirs, NEW n \in Names
  PROVE  Append(d, n) \in Paths /\ Up(Append(d, n)) = d /\ Leaf(Append(d, n)) = n
<1>1. CASE d = Top
  <2>1. Append(d, n) = <<n>>
    BY <1>1 DEF Top
  <2> QED
    BY <2>1, <1>1 DEF Paths, Up, Leaf
<1>2. CASE d \in TreeSingles
  <2>1. PICK k \in Names : d = <<k>>
    BY <1>2 DEF TreeSingles
  <2>2. Append(d, n) = <<k, n>>
    BY <2>1, TreeLonger
  <2> QED
    BY <2>2, <2>1 DEF Paths, Up, Leaf
<1> QED
  BY <1>1, <1>2 DEF TreeDirs

\* A path is its directory and its name.
LEMMA TreeRejoined ==
  ASSUME NEW p \in Paths
  PROVE  Append(Up(p), Leaf(p)) = p
<1>1. CASE Len(p) = 1
  BY <1>1, TreePaths DEF Top
<1>2. CASE Len(p) = 2
  <2>1. p[1] \in Names /\ p[2] \in Names /\ p = <<p[1], p[2]>> /\ Up(p) = <<p[1]>> /\ Leaf(p) = p[2]
    BY <1>2, TreePaths
  <2>2. Append(<<p[1]>>, p[2]) = <<p[1], p[2]>>
    BY <2>1, TreeLonger
  <2> QED
    BY <2>1, <2>2
<1> QED
  BY <1>1, <1>2, TreePaths

\* An empty queue holds nothing.
LEMMA TreeEmptySet == TreeSet(<< >>) = {}
BY DEF TreeSet

\* A queue of one task.
LEMMA TreeOneSet == ASSUME NEW x PROVE TreeSet(<<x>>) = {x} /\ Len(<<x>>) = 1 /\ <<x>>[1] = x
<1>1. Len(<<x>>) = 1 /\ <<x>>[1] = x
  OBVIOUS
<1> QED
  BY <1>1 DEF TreeSet

\* Two queues joined hold what both hold.
LEMMA TreeJoinedSet ==
  ASSUME NEW group, NEW q \in Seq(group), NEW r \in Seq(group)
  PROVE  q \o r \in Seq(group) /\ TreeSet(q \o r) = TreeSet(q) \cup TreeSet(r)
<1>1. q \o r \in Seq(group) /\ Len(q \o r) = Len(q) + Len(r)
      /\ \A i \in 1 .. Len(q) + Len(r) : (q \o r)[i] = IF i <= Len(q) THEN q[i] ELSE r[i - Len(q)]
  BY ConcatProperties
<1>2. Len(q) \in Nat /\ Len(r) \in Nat
  BY LenProperties
<1>3. TreeSet(q \o r) \subseteq TreeSet(q) \cup TreeSet(r)
  BY <1>1, <1>2 DEF TreeSet
<1>4. ASSUME NEW x \in TreeSet(q) PROVE x \in TreeSet(q \o r)
  BY <1>1, <1>2 DEF TreeSet
<1>5. ASSUME NEW x \in TreeSet(r) PROVE x \in TreeSet(q \o r)
  <2>1. PICK i \in 1 .. Len(r) : x = r[i]
    BY DEF TreeSet
  <2>2. i + Len(q) \in 1 .. Len(q) + Len(r) /\ ~ (i + Len(q) <= Len(q)) /\ i + Len(q) - Len(q) = i
    BY <1>2
  <2>3. (q \o r)[i + Len(q)] = x
    BY <2>1, <2>2, <1>1
  <2> QED
    BY <2>2, <2>3, <1>1 DEF TreeSet
<1> QED
  BY <1>1, <1>3, <1>4, <1>5

\* A queue is its first task and the rest.
LEMMA TreeRestSet ==
  ASSUME NEW group, NEW q \in Seq(group), q # << >>
  PROVE  /\ Tail(q) \in Seq(group) /\ Head(q) \in group /\ TreeSet(q) = {Head(q)} \cup TreeSet(Tail(q))
         /\ Len(Tail(q)) = Len(q) - 1 /\ \A i \in 1 .. Len(q) - 1 : Tail(q)[i] = q[i + 1]
         /\ Len(q) \in Nat \ {0} /\ Head(q) = q[1]
<1>1. /\ Tail(q) \in Seq(group) /\ Head(q) \in group /\ Len(Tail(q)) = Len(q) - 1 /\ Head(q) = q[1]
      /\ \A i \in 1 .. Len(Tail(q)) : Tail(q)[i] = q[i + 1]
  BY HeadTailProperties
<1>2. Len(q) \in Nat \ {0}
  BY EmptySeq, LenProperties
<1>3. TreeSet(q) \subseteq {Head(q)} \cup TreeSet(Tail(q))
  <2> SUFFICES ASSUME NEW i \in 1 .. Len(q) PROVE q[i] \in {Head(q)} \cup TreeSet(Tail(q))
    BY DEF TreeSet
  <2>1. CASE i = 1
    BY <2>1, <1>1
  <2>2. CASE i # 1
    <3>1. i - 1 \in 1 .. Len(Tail(q)) /\ i - 1 + 1 = i
      BY <2>2, <1>1, <1>2
    <3>2. Tail(q)[i - 1] = q[i]
      BY <3>1, <1>1
    <3> QED
      BY <3>1, <3>2 DEF TreeSet
  <2> QED
    BY <2>1, <2>2
<1>4. {Head(q)} \cup TreeSet(Tail(q)) \subseteq TreeSet(q)
  <2>1. Head(q) \in TreeSet(q)
    BY <1>1, <1>2 DEF TreeSet
  <2>2. ASSUME NEW i \in 1 .. Len(Tail(q)) PROVE Tail(q)[i] \in TreeSet(q)
    <3>1. i + 1 \in 1 .. Len(q) /\ Tail(q)[i] = q[i + 1]
      BY <1>1, <1>2
    <3> QED
      BY <3>1 DEF TreeSet
  <2> QED
    BY <2>1, <2>2 DEF TreeSet
<1> QED
  BY <1>1, <1>2, <1>3, <1>4

\* What a queue holds is of the kind of the queue.
LEMMA TreeElements ==
  ASSUME NEW group, NEW q \in Seq(group)
  PROVE  TreeSet(q) \subseteq group
BY ElementOfSeq DEF TreeSet

\* A finite set put in any order is a sequence of just its members.
LEMMA TreeMembers ==
  ASSUME NEW items, IsFiniteSet(items)
  PROVE  InSomeOrder(items) \in Seq(items) /\ TreeSet(InSomeOrder(items)) = items
<1> DEFINE c == Cardinality(items)
<1>1. c \in Nat /\ ExistsBijection(1 .. c, items)
  BY FS_CardinalityType
<1>2. PICK f \in Bijection(1 .. c, items) : TRUE
  BY <1>1 DEF ExistsBijection
<1>3. f \in [1 .. c -> items] /\ \A x, y \in DOMAIN f : f[x] = f[y] => x = y
  BY <1>2 DEF Bijection, Injection, IsInjective
<1> DEFINE distinct(g) == \A x, y \in DOMAIN g : g[x] = g[y] => x = y
<1>4. InSomeOrder(items) \in [1 .. c -> items] /\ distinct(InSomeOrder(items))
  BY <1>3 DEF InSomeOrder
<1>5. PICK g \in [1 .. c -> items] : g = InSomeOrder(items) /\ distinct(g)
  BY <1>4
<1>6. g \in Injection(1 .. c, items)
  BY <1>5 DEF Injection, IsInjective
<1>7. Cardinality(1 .. c) = c /\ IsFiniteSet(1 .. c)
  BY <1>1, FS_Interval
<1>8. g \in Surjection(1 .. c, items)
  BY <1>6, <1>7, FS_Injection
<1>9. g \in Seq(items) /\ Len(g) = c
  BY <1>1, <1>5
<1>10. \A x \in items : \E i \in 1 .. c : g[i] = x
  BY <1>8 DEF Surjection
<1> QED
  BY <1>5, <1>9, <1>10 DEF TreeSet

\* Queues in which some kinds come first.
LEMMA TreeFirstRest ==
  ASSUME NEW q \in Seq(TreeTasks), q # << >>, NEW kinds, TreeFirst(q, kinds)
  PROVE  /\ TreeFirst(Tail(q), kinds)
         /\ Head(q).do \notin kinds => \A t \in TreeSet(q) : t.do \notin kinds
<1>1. /\ Len(Tail(q)) = Len(q) - 1 /\ \A i \in 1 .. Len(q) - 1 : Tail(q)[i] = q[i + 1]
      /\ Len(q) \in Nat \ {0} /\ Head(q) = q[1]
  BY TreeRestSet
<1>2. ASSUME NEW i \in 1 .. Len(Tail(q)), NEW j \in 1 .. Len(Tail(q)), i < j, Tail(q)[j].do \in kinds
      PROVE  Tail(q)[i].do \in kinds
  <2>1. i + 1 \in 1 .. Len(q) /\ j + 1 \in 1 .. Len(q) /\ i + 1 < j + 1
    BY <1>1, <1>2
  <2>2. Tail(q)[i] = q[i + 1] /\ Tail(q)[j] = q[j + 1]
    BY <1>1
  <2> QED
    BY <2>1, <2>2, <1>2 DEF TreeFirst
<1>3. ASSUME Head(q).do \notin kinds, NEW i \in 1 .. Len(q) PROVE q[i].do \notin kinds
  <2>1. CASE i = 1
    BY <2>1, <1>1, <1>3
  <2>2. CASE i # 1
    <3>1. 1 \in 1 .. Len(q) /\ 1 < i
      BY <2>2, <1>1
    <3> QED
      BY <3>1, <1>1, <1>3 DEF TreeFirst
  <2> QED
    BY <2>1, <2>2
<1> QED
  BY <1>2, <1>3 DEF TreeFirst, TreeSet

\* Joined queues still have some kinds first, if the second has none of them or the first no other.
LEMMA TreeFirstJoined ==
  ASSUME NEW q \in Seq(TreeTasks), NEW r \in Seq(TreeTasks), NEW kinds,
         \/ TreeFirst(r, kinds) /\ \A t \in TreeSet(q) : t.do \in kinds
         \/ TreeFirst(q, kinds) /\ \A t \in TreeSet(r) : t.do \notin kinds
  PROVE  TreeFirst(q \o r, kinds)
<1>1. /\ Len(q \o r) = Len(q) + Len(r) /\ Len(q) \in Nat /\ Len(r) \in Nat
      /\ \A i \in 1 .. Len(q) + Len(r) : (q \o r)[i] = IF i <= Len(q) THEN q[i] ELSE r[i - Len(q)]
  BY ConcatProperties, LenProperties
<1> SUFFICES ASSUME NEW i \in 1 .. Len(q) + Len(r), NEW j \in 1 .. Len(q) + Len(r), i < j,
                    (q \o r)[j].do \in kinds
             PROVE  (q \o r)[i].do \in kinds
  BY <1>1 DEF TreeFirst
<1>2. CASE i <= Len(q) /\ j <= Len(q)
  <2>1. i \in 1 .. Len(q) /\ j \in 1 .. Len(q) /\ (q \o r)[i] = q[i] /\ (q \o r)[j] = q[j]
    BY <1>1, <1>2
  <2> QED
    BY <2>1 DEF TreeFirst, TreeSet
<1>3. CASE i <= Len(q) /\ ~ (j <= Len(q))
  <2>1. i \in 1 .. Len(q) /\ j - Len(q) \in 1 .. Len(r) /\ (q \o r)[i] = q[i] /\ (q \o r)[j] = r[j - Len(q)]
    BY <1>1, <1>3
  <2> QED
    BY <2>1 DEF TreeFirst, TreeSet
<1>4. CASE ~ (i <= Len(q)) /\ ~ (j <= Len(q))
  <2>1. /\ i - Len(q) \in 1 .. Len(r) /\ j - Len(q) \in 1 .. Len(r) /\ i - Len(q) < j - Len(q)
        /\ (q \o r)[i] = r[i - Len(q)] /\ (q \o r)[j] = r[j - Len(q)]
    BY <1>1, <1>4
  <2> QED
    BY <2>1 DEF TreeFirst, TreeSet
<1> QED
  BY <1>1, <1>2, <1>3, <1>4

\* A queue of these kinds only, or of none of them.
LEMMA TreeFirstAlone ==
  ASSUME NEW q \in Seq(TreeTasks), NEW kinds,
         (\A t \in TreeSet(q) : t.do \in kinds) \/ (\A t \in TreeSet(q) : t.do \notin kinds)
  PROVE  TreeFirst(q, kinds)
BY DEF TreeFirst, TreeSet

\* What a task is by what it does.
LEMMA TreeTask ==
  ASSUME NEW t \in TreeTasks
  PROVE  /\ t.do = "node" => t \in TreeNodeTasks
         /\ t.do = "list" => t \in TreeListTasks
         /\ t.do = "structure" => t \in TreeLevelTasks
         /\ t.do = "absent" => t \in TreeAbsentTasks
         /\ t.do = "drop" => t \in TreeDropTasks
         /\ t.do \in {"node", "list", "structure", "absent", "drop"}
BY DEF TreeTasks, TreeNodeTasks, TreeListTasks, TreeLevelTasks, TreeAbsentTasks, TreeDropTasks

\* There are finitely many paths.
LEMMA TreeFinite == TreeAssumption => IsFiniteSet(Paths) /\ IsFiniteSet(TreeDirs) /\ IsFiniteSet(Paths \X Paths)
<1> SUFFICES ASSUME TreeAssumption PROVE IsFiniteSet(Paths) /\ IsFiniteSet(TreeDirs) /\ IsFiniteSet(Paths \X Paths)
  OBVIOUS
<1>1. IsFiniteSet(Names)
  BY DEF TreeAssumption
<1>2. IsFiniteSet(TreeSingles)
  <2> DEFINE f == [n \in Names |-> <<n>>]
  <2>1. f \in Surjection(Names, TreeSingles)
    BY DEF Surjection, TreeSingles
  <2> QED
    BY <2>1, <1>1, FS_Surjection
<1>3. IsFiniteSet(Names \X Names)
  BY <1>1, FS_Product
<1>4. IsFiniteSet(Paths)
  BY <1>2, <1>3, FS_Union DEF Paths, TreeSingles
<1>5. IsFiniteSet(TreeDirs)
  BY <1>2, FS_Singleton, FS_Union DEF TreeDirs
<1> QED
  BY <1>4, <1>5, FS_Product

\* The tasks that a dictionary or set of paths gives, in any order.
LEMMA TreeImage ==
  ASSUME NEW f, IsFiniteSet(DOMAIN f), NEW group, \A x \in DOMAIN f : f[x] \in group
  PROVE  /\ InSomeOrder({ f[x] : x \in DOMAIN f }) \in Seq(group)
         /\ TreeSet(InSomeOrder({ f[x] : x \in DOMAIN f })) = { f[x] : x \in DOMAIN f }
<1> DEFINE items == { f[x] : x \in DOMAIN f }
           g == [x \in DOMAIN f |-> f[x]]
<1>1. g \in Surjection(DOMAIN f, items)
  BY DEF Surjection
<1>2. IsFiniteSet(items)
  BY <1>1, FS_Surjection
<1>3. InSomeOrder(items) \in Seq(items) /\ TreeSet(InSomeOrder(items)) = items
  <2> HIDE DEF items
  <2> QED
    BY <1>2, TreeMembers
<1>4. items \subseteq group
  OBVIOUS
<1>5. Seq(items) \subseteq Seq(group)
  <2> HIDE DEF items
  <2> QED
    BY <1>4
<1> QED
  BY <1>3, <1>5

\* Moments.
LEMMA TreeLaterItself == ASSUME NEW m, TreeMoment(m) PROVE TreeLater(m, m)
BY DEF TreeLater, TreeMoment, TreeMarks, TreeAssumption

\* Later than later is later.
LEMMA TreeLaterStill ==
  ASSUME TreeAssumption, NEW k, NEW m, NEW l, TreeMoment(k), TreeMoment(m), TreeMoment(l), TreeLater(k, m), TreeLater(m, l)
  PROVE  TreeLater(k, l)
<1> SUFFICES ASSUME NEW i \in Inodes
             PROVE  /\ k.stamp[i] <= l.stamp[i]
                    /\ k.stamp[i] = l.stamp[i] =>
                         /\ i \in Leaves => l.data[i] = k.data[i]
                         /\ i \in Directories => l.entries[i] = k.entries[i]
                         /\ \A d \in Directories, n \in Names : k.entries[d][n] = i => l.entries[d][n] = i
  BY DEF TreeLater
<1>1. k.stamp[i] \in Nat /\ m.stamp[i] \in Nat /\ l.stamp[i] \in Nat
  BY DEF TreeMoment, TreeMarks, TreeAssumption
<1>2. k.stamp[i] <= m.stamp[i] /\ m.stamp[i] <= l.stamp[i]
  BY DEF TreeLater
<1>3. ASSUME k.stamp[i] = l.stamp[i]
      PROVE  /\ i \in Leaves => l.data[i] = k.data[i]
             /\ i \in Directories => l.entries[i] = k.entries[i]
             /\ \A d \in Directories, n \in Names : k.entries[d][n] = i => l.entries[d][n] = i
  <2>1. k.stamp[i] = m.stamp[i] /\ m.stamp[i] = l.stamp[i]
    BY <1>1, <1>2, <1>3
  <2> QED
    BY <2>1 DEF TreeLater
<1> QED
  BY <1>1, <1>2, <1>3

\* Whatever others do gives every inode that they change, or whose name they change, a new stamp.
LEMMA TreeOthersMove ==
  ASSUME TreeAssumption, TreeMoment(TreeNow), TreeTimed, WriteHalf \/ TakeAway \/ PutBack
  PROVE  TreeMoment(TreeNow)' /\ TreeTimed' /\ TreeLater(TreeNow, TreeNow')
<1>1. /\ entries \in [Directories -> [Names -> Inodes \cup {None}]]
      /\ data \in [Leaves -> TreeBytes] /\ stamp \in [Inodes -> TreeMarks]
      /\ \A d \in Directories, n \in Names : entries[d][n] \in Directories => d = Root /\ entries[d][n] # Root
      /\ clock \in 0 .. MaxMoves /\ MaxMoves \in Nat /\ \A i \in Inodes : stamp[i] <= clock
      /\ None \notin Inodes /\ Directories \subseteq Inodes /\ Leaves = Inodes \ Directories
  BY DEF TreeMoment, TreeNow, TreeShaped, TreeTimed, TreeMarks, TreeAssumption, Directories,
         Leaves
<1>2. ASSUME NEW touched, Bump(touched)
      PROVE  /\ clock < MaxMoves /\ clock' = clock + 1 /\ stamp' \in [Inodes -> TreeMarks] /\ clock' \in TreeMarks
             /\ \A i \in Inodes : /\ stamp'[i] <= clock' /\ stamp[i] <= stamp'[i]
                                  /\ stamp[i] = stamp'[i] => i \notin touched
  BY <1>1, <1>2 DEF Bump, TreeMarks
<1>3. CASE WriteHalf
  <2>1. PICK i \in { j \in Leaves : Kind[j] = "regular" }, h \in {1, 2} :
             /\ Bump({i})
             /\ data' = [data EXCEPT ![i][h] = clock + 1]
             /\ UNCHANGED entries
    BY <1>3 DEF WriteHalf
  <2>2. data' \in [Leaves -> TreeBytes]
    <3>1. data[i] \in Nat \X Nat /\ clock + 1 \in Nat
      BY <1>1 DEF TreeBytes
    <3>2. [data[i] EXCEPT ![h] = clock + 1] \in Nat \X Nat
      BY <3>1
    <3> QED
      BY <1>1, <2>1, <3>2 DEF TreeBytes
  <2>3. \A j \in Leaves : j # i => data'[j] = data[j]
    BY <1>1, <2>1
  <2>4. TreeLater(TreeNow, TreeNow')
    BY <1>2, <2>1, <2>3 DEF TreeLater, TreeNow
  <2>5. TreeMoment(TreeNow)' /\ TreeTimed'
    BY <1>1, <1>2, <2>1, <2>2 DEF TreeMoment, TreeNow, TreeShaped, TreeTimed
  <2> QED
    BY <2>4, <2>5
<1>4. CASE TakeAway
  <2>1. PICK d \in Directories, n \in Names :
             /\ entries[d][n] # None
             /\ Bump({d, entries[d][n]})
             /\ entries' = [entries EXCEPT ![d][n] = None]
             /\ UNCHANGED data
    BY <1>4 DEF TakeAway
  <2>2. /\ entries' \in [Directories -> [Names -> Inodes \cup {None}]]
        /\ \A e \in Directories : e # d => entries'[e] = entries[e]
        /\ \A e \in Directories, k \in Names : entries'[e][k] = IF e = d /\ k = n THEN None ELSE entries[e][k]
    BY <1>1, <2>1
  <2>3. TreeShaped(entries)'
    BY <1>1, <2>2 DEF TreeShaped
  <2>4. TreeLater(TreeNow, TreeNow')
    BY <1>2, <2>1, <2>2 DEF TreeLater, TreeNow
  <2>5. TreeMoment(TreeNow)' /\ TreeTimed'
    BY <1>1, <1>2, <2>1, <2>3 DEF TreeMoment, TreeNow, TreeTimed
  <2> QED
    BY <2>4, <2>5
<1>5. CASE PutBack
  <2>1. PICK d \in Directories, n \in Names, i \in Inodes \ (Placed \cup {Root}) :
             /\ ~IsDirectory(entries[d][n])
             /\ Kind[i] = "directory" => d = Root /\ entries[d][n] = None
             /\ Bump({d, i} \cup ({entries[d][n]} \ {None}))
             /\ entries' = [entries EXCEPT ![d][n] = i]
             /\ UNCHANGED data
    BY <1>5 DEF PutBack
  <2>2. /\ entries' \in [Directories -> [Names -> Inodes \cup {None}]]
        /\ \A e \in Directories : e # d => entries'[e] = entries[e]
        /\ \A e \in Directories, k \in Names : entries'[e][k] = IF e = d /\ k = n THEN i ELSE entries[e][k]
    BY <1>1, <2>1
  <2>3. TreeShaped(entries)'
    BY <1>1, <2>1, <2>2 DEF TreeShaped, Directories
  <2>4. TreeLater(TreeNow, TreeNow')
    BY <1>1, <1>2, <2>1, <2>2 DEF TreeLater, TreeNow
  <2>5. TreeMoment(TreeNow)' /\ TreeTimed'
    BY <1>1, <1>2, <2>1, <2>3 DEF TreeMoment, TreeNow, TreeTimed
  <2> QED
    BY <2>4, <2>5
<1> QED
  BY <1>3, <1>4, <1>5

\* Where paths lead at a moment.
LEMMA TreeResolves ==
  ASSUME TreeAssumption, NEW es, TreeShaped(es), NEW d \in TreeDirs
  PROVE  /\ Resolve(es, d) \in Directories \cup {None}
         /\ d = Top => Resolve(es, d) = Root
         /\ d # Top => /\ d[1] \in Names
                       /\ Resolve(es, d) # None => es[Root][d[1]] = Resolve(es, d) /\ Resolve(es, d) # Root
                       /\ es[Root][d[1]] \in Directories => Resolve(es, d) = es[Root][d[1]]
         /\ Root \in Directories /\ None \notin Inodes /\ Directories \subseteq Inodes
         /\ \A n \in Names : es[Root][n] \in Inodes \cup {None}
<1>1. Root \in Directories /\ None \notin Inodes /\ Directories \subseteq Inodes
      /\ \A n \in Names : es[Root][n] \in Inodes \cup {None}
  BY DEF TreeAssumption, TreeShaped, Directories
<1>2. CASE d = Top
  BY <1>1, <1>2 DEF Resolve
<1>3. CASE d # Top
  <2>1. d[1] \in Names
    BY <1>3, TreeSingle DEF TreeDirs
  <2>2. Resolve(es, d) = IF es[Root][d[1]] \in Directories THEN es[Root][d[1]] ELSE None
    BY <1>1, <1>3, <2>1 DEF Resolve, IsDirectory, Directories, TreeShaped
  <2> QED
    BY <1>1, <1>3, <2>1, <2>2 DEF TreeShaped
<1> QED
  BY <1>2, <1>3

\* What is known at a moment still holds later, as far as the stamps still are the recorded ones.
LEMMA TreeStaysTrue ==
  ASSUME TreeAssumption, NEW ns, NEW ds, NEW abs, NEW st, NEW m, NEW l, NEW q,
         TreeMeant(ns, ds, abs, st), TreeMoment(m), TreeMoment(l), TreeLater(m, l),
         TreeTrue(ns, ds, abs, st, m, q),
         abs = {} \/ \A t \in TreeSet(q) : t.do # "structure"
  PROVE  TreeTrue(ns, ds, abs, st, l, q)
<1>1. /\ \A i \in Inodes : m.stamp[i] \in Nat /\ l.stamp[i] \in Nat /\ m.stamp[i] <= l.stamp[i]
      /\ TreeShaped(m.entries) /\ TreeShaped(l.entries)
      /\ Root \in Directories /\ Directories \subseteq Inodes
  BY DEF TreeMoment, TreeMarks, TreeAssumption, TreeLater, Directories
<1>2. \A p \in DOMAIN ns : /\ p \in Paths /\ ns[p].ino \in Inodes /\ ns[p].stamp \in Nat /\ ns[p].up \in Directories
                           /\ ns[p].kind # "directory" => ns[p].ino \in Leaves
  BY DEF TreeMeant, TreeNodesMeant, TreeNodeType, TreeMarks, Leaves, Directories, TreeKinds,
         TreeAssumption
<1>3. \A d \in DOMAIN st : st[d].ino \in Directories /\ st[d].stamp \in Nat
  BY DEF TreeMeant, TreeLevelsMeant, TreeLevelType, TreeMarks, TreeAssumption
<1>4. TreeSeen(ns, st, l)
  BY <1>1, <1>2, <1>3 DEF TreeSeen, TreeTrue
<1>5. TreeHeld(ns, l)
  <2> SUFFICES ASSUME NEW p \in DOMAIN ns, ns[p].kind # "directory", l.stamp[ns[p].ino] = ns[p].stamp
               PROVE  l.entries[ns[p].up][Leaf(p)] = ns[p].ino /\ l.data[ns[p].ino] = ns[p].digest
    BY DEF TreeHeld
  <2>1. m.stamp[ns[p].ino] = l.stamp[ns[p].ino]
    BY <1>1, <1>2 DEF TreeTrue, TreeSeen
  <2>2. m.entries[ns[p].up][Leaf(p)] = ns[p].ino /\ m.data[ns[p].ino] = ns[p].digest
    BY <2>1 DEF TreeTrue, TreeHeld
  <2>3. Leaf(p) \in Names
    BY <1>2, TreeUps
  <2> QED
    BY <1>2, <2>1, <2>2, <2>3 DEF TreeLater
<1>6. TreeRootStill(st, l) => TreeRootStill(st, m) /\ m.stamp[Root] = l.stamp[Root] /\ l.entries[Root] = m.entries[Root]
  <2> SUFFICES ASSUME TreeRootStill(st, l)
               PROVE  TreeRootStill(st, m) /\ m.stamp[Root] = l.stamp[Root] /\ l.entries[Root] = m.entries[Root]
    OBVIOUS
  <2>1. Top \in DOMAIN st /\ st[Top].ino = Root /\ st[Top].stamp <= m.stamp[Root] /\ l.stamp[Root] = st[Top].stamp
    BY DEF TreeRootStill, TreeMeant, TreeLevelsMeant, TreeTrue, TreeSeen
  <2>2. m.stamp[Root] = l.stamp[Root]
    BY <1>1, <1>3, <2>1
  <2> QED
    BY <1>1, <2>1, <2>2 DEF TreeRootStill, TreeLater
<1>7. TreeLed(ds, st, l)
  <2> SUFFICES ASSUME TreeRootStill(st, l), NEW d \in DOMAIN ds PROVE Resolve(l.entries, d) = ds[d].ino
    BY DEF TreeLed
  <2>1. Resolve(m.entries, d) = ds[d].ino
    BY <1>6 DEF TreeTrue, TreeLed
  <2> QED
    BY <1>6, <2>1 DEF Resolve
<1>8. TreeCovered(st, l, q)
  BY <1>6 DEF TreeTrue, TreeCovered
<1>9. TreeAbsent(abs, st, l)
  <2> SUFFICES ASSUME TreeStill(st, l), NEW a \in abs PROVE Lookup(l.entries, a[1]) = None
    BY DEF TreeAbsent
  <2>1. TreeStill(st, m) /\ \A d \in DOMAIN st : m.stamp[st[d].ino] = l.stamp[st[d].ino]
    <3>1. ASSUME NEW d \in DOMAIN st PROVE m.stamp[st[d].ino] = l.stamp[st[d].ino]
      BY <1>1, <1>3 DEF TreeStill, TreeTrue, TreeSeen
    <3> QED
      BY <3>1 DEF TreeStill
  <2>2. TreeRootStill(st, l)
    BY DEF TreeStill, TreeRootStill, TreeMeant, TreeLevelsMeant
  <2>3. Lookup(m.entries, a[1]) = None
    BY <2>1 DEF TreeTrue, TreeAbsent
  <2>4. a[1] \in Paths
    BY DEF TreeMeant
  <2> DEFINE d == Up(a[1])
  <2>5. d \in TreeDirs /\ Resolve(l.entries, d) = Resolve(m.entries, d)
    BY <1>6, <2>2, <2>4, TreeUps DEF Resolve
  <2>6. CASE Resolve(m.entries, d) = None
    BY <2>5, <2>6 DEF Lookup
  <2>7. CASE Resolve(m.entries, d) # None
    <3> DEFINE i == Resolve(m.entries, d)
    <3>1. i \in Directories
      BY <2>7, <2>5, <1>1, TreeResolves
    <3>2. l.entries[i] = m.entries[i]
      <4>1. CASE d = Top
        BY <4>1, <1>6, <2>2 DEF Resolve
      <4>2. CASE d # Top
        <5>1. i = m.entries[Root][d[1]] /\ d[1] \in Names
          BY <4>2, <2>7, <2>5, <1>1, TreeResolves
        <5>2. <<d[1]>> \in DOMAIN st /\ st[<<d[1]>>].ino = i
          BY <5>1, <3>1, <1>6, <2>2 DEF TreeTrue, TreeCovered
        <5>3. m.stamp[i] = l.stamp[i]
          BY <5>2, <2>1
        <5> QED
          BY <5>3, <3>1, <1>1 DEF TreeLater
      <4> QED
        BY <4>1, <4>2
    <3> QED
      BY <2>3, <2>5, <2>7, <3>2 DEF Lookup
  <2> QED
    BY <2>6, <2>7
<1> QED
  BY <1>4, <1>5, <1>7, <1>8, <1>9 DEF TreeTrue

\* Steps that end in failure, and steps that only move on.
LEMMA TreeAcceptedStays ==
  ASSUME TreeInv, UNCHANGED <<snap, atSeal, mode, files, step>>, status' # "sealed" \/ status = "sealed"
  PROVE  TreeAccepted'
BY DEF TreeInv, TreeAccepted, ContentsCoexist, AcceptedIsOneMoment, WalkIsComplete, NodeFiles,
       Lookup,
       Resolve, ls_files, deleted_files, Exists, InScope, Up, Leaf

\* A failure ends the session.
LEMMA TreeFailKeeps ==
  ASSUME TreeInv, NEW reason, Fail(reason), Running, UNCHANGED callerVars
  PROVE  TreeInv'
<1> USE DEF Fail, fs, facts, callerVars
<1>1. /\ status' = "failed" /\ todo' = << >> /\ pc' = Start
      /\ UNCHANGED <<entries, stamp, data, clock, nodes, dirs, absences, structure, snap, reads, atSeal,
                     mode, step, asked, files>>
  OBVIOUS
<1>2. TreeTyped'
  <2>1. << >> \in Seq(TreeTasks) /\ TreeSet(<< >>) = {} /\ TreeFirst(<< >>, {"structure"})
    BY TreeEmptySet DEF TreeFirst
  <2>2. TreeMoment(TreeNow)' /\ TreeTimed' /\ TreeMeant(nodes, dirs, absences, structure)'
    BY <1>1 DEF TreeInv, TreeTyped, TreeTimed, TreeNow
  <2> QED
    BY <1>1, <2>1, <2>2 DEF TreeInv, TreeTyped, TreePoints
<1>3. TreePlaced' /\ TreeOpened' /\ TreeScanning'
  BY <1>1 DEF TreePlaced, TreeOpened, TreeScanning, Start, TreeNoding, TreeReading, TreeLinking
<1>4. TreeCapturing' /\ TreeSealed' /\ TreeVerifying' /\ TreeRereading' /\ TreeVerified' /\ TreeReopening' /\ TreeAnswered'
  BY <1>1 DEF TreeCapturing, TreeSealed, TreeVerifying, TreeRereading, TreeVerified,
         TreeReopening, TreeAnswered,
     TreeLooking
<1>5. TreeCalling'
  BY <1>1 DEF TreeInv, TreeCalling, Running, UsesGit
<1>6. TreeAccepted'
  BY <1>1, TreeAcceptedStays
<1> QED
  BY <1>2, <1>3, <1>4, <1>5, <1>6 DEF TreeInv

\* What is sealed stays as it was while nothing moves.
LEMMA TreeSealedStays ==
  ASSUME TreeInv, UNCHANGED <<fs, snap, atSeal, mode, files>>, status' \in TreeLooking => status \in TreeLooking
  PROVE  TreeSealed'
BY DEF TreeInv, TreeSealed, fs, TreeNow, TreeOnlyChildren, TreeAsked

\* What is captured stays true while nothing moves.
LEMMA TreeCapturingStays ==
  ASSUME TreeInv, UNCHANGED <<fs, facts, status, todo, mode, files, step>>
  PROVE  TreeCapturing'
BY DEF TreeInv, TreeCapturing, fs, facts, TreeNow, TreeOnlyChildren, TreeAsked

\* What is verified stays true while nothing moves.
LEMMA TreeVerifyingStays ==
  ASSUME TreeInv, UNCHANGED <<fs, nodes, snap, atSeal, status, todo>>
  PROVE  TreeVerifying'
BY DEF TreeInv, TreeVerifying, TreeAgain, TreeRelisted, TreeStands, TreePending, fs

\* A step from one call of an observation to the next.
LEMMA TreeMoveKeeps ==
  ASSUME TreeInv, UNCHANGED <<fs, facts, snap, status, todo, atSeal, callerVars>>, Running,
         pc' \in TreePoints, reads' \in 0 .. MaxReads,
         TreePlaced', TreeOpened', TreeScanning', TreeRereading',
         status = "reopening" => pc' = Start \/ pc' \in TreeReading
  PROVE  TreeInv'
<1> USE DEF fs, facts, callerVars
<1>1. TreeTyped'
  <2>1. TreeMoment(TreeNow)' /\ TreeTimed' /\ TreeMeant(nodes, dirs, absences, structure)'
    BY DEF TreeInv, TreeTyped, TreeTimed, TreeNow
  <2> QED
    BY <2>1 DEF TreeInv, TreeTyped, Running
<1>2. TreeCapturing' /\ TreeSealed' /\ TreeVerifying'
  BY TreeCapturingStays, TreeSealedStays, TreeVerifyingStays
<1>3. TreeVerified' /\ TreeReopening'
  BY DEF TreeInv, TreeVerified, TreeReopening, TreeAgain, Task
<1>4. TreeCalling'
  BY DEF TreeInv, TreeCalling, UsesGit
<1>5. TreeAnswered'
  BY DEF TreeInv, TreeAnswered, TreeAnswer, TreeListing, TreePending, TreeGone, deleted_files,
         ls_files, InScope
<1>6. TreeAccepted'
  BY TreeAcceptedStays
<1> QED
  BY <1>1, <1>2, <1>3, <1>4, <1>5, <1>6 DEF TreeInv

\* Changes by others.
LEMMA TreeStandsStill ==
  ASSUME TreeAssumption, TreeInv, status \in TreeLooking, TreeLater(TreeNow, TreeNow'), UNCHANGED <<snap, atSeal>>
  PROVE  /\ \A p \in NodeFiles(snap) : TreeStands(p)' => TreeStands(p)
         /\ \A d \in DOMAIN snap.structure : TreeGone(d) => TreeGone(d)'
<1>1. /\ TreeMeant(snap.nodes, snap.dirs, snap.absences, snap.structure) /\ TreeMoment(atSeal)
      /\ TreeLater(atSeal, TreeNow) /\ TreeSeen(snap.nodes, snap.structure, atSeal)
      /\ TreeMoment(TreeNow)
  BY DEF TreeInv, TreeSealed, TreeTyped, TreeTrue
<1>2. \A i \in Inodes : /\ atSeal.stamp[i] \in Nat /\ stamp[i] \in Nat /\ atSeal.stamp[i] <= stamp[i]
                        /\ stamp[i] <= stamp'[i]
  BY <1>1 DEF TreeMoment, TreeNow, TreeLater, TreeMarks, TreeAssumption
<1>3. \A p \in NodeFiles(snap) : TreeStands(p)' => TreeStands(p)
  <2> SUFFICES ASSUME NEW p \in NodeFiles(snap), TreeStands(p)' PROVE TreeStands(p)
    OBVIOUS
  <2> DEFINE i == snap.nodes[p].ino
  <2>1. i \in Inodes /\ snap.nodes[p].stamp \in Nat /\ snap.nodes[p].stamp <= atSeal.stamp[i]
    BY <1>1 DEF TreeMeant, TreeNodesMeant, TreeNodeType, NodeFiles, TreeMarks, TreeAssumption,
           TreeSeen
  <2>2. stamp'[i] = snap.nodes[p].stamp
    BY DEF TreeStands
  <2> HIDE DEF i
  <2>3. stamp[i] = snap.nodes[p].stamp
    BY <1>2, <2>1, <2>2
  <2> QED
    BY <2>3 DEF TreeStands, i
<1>4. \A d \in DOMAIN snap.structure : TreeGone(d) => TreeGone(d)'
  <2> SUFFICES ASSUME NEW d \in DOMAIN snap.structure, ~ TreeGone(d)' PROVE ~ TreeGone(d)
    OBVIOUS
  <2> DEFINE i == snap.structure[d].ino
  <2>1. i \in Inodes /\ snap.structure[d].stamp \in Nat /\ snap.structure[d].stamp <= atSeal.stamp[i]
    BY <1>1 DEF TreeMeant, TreeLevelsMeant, TreeLevelType, Directories, TreeMarks,
           TreeAssumption, TreeSeen
  <2>2. stamp'[i] = snap.structure[d].stamp
    BY DEF TreeGone
  <2> HIDE DEF i
  <2>3. stamp[i] = snap.structure[d].stamp
    BY <1>2, <2>1, <2>2
  <2> QED
    BY <2>3 DEF TreeGone, i
<1> QED
  BY <1>3, <1>4

\* Changes by others, between any two steps of the session (Others).
LEMMA TreeOthersKeeps ==
  ASSUME TreeAssumption, TreeInv, Others, UNCHANGED callerVars
  PROVE  TreeInv'
<1>1. TreeMoment(TreeNow)' /\ TreeTimed' /\ TreeLater(TreeNow, TreeNow') /\ TreeMoment(TreeNow)
  BY TreeOthersMove DEF TreeInv, TreeTyped, Others
<1>2. UNCHANGED <<nodes, dirs, absences, structure, snap, status, why, todo, pc, reg, reads, atSeal,
                  mode, step, asked, files>>
  BY DEF Others, facts, control, callerVars
<1>3. \A i \in Inodes : stamp[i] \in Nat /\ stamp'[i] \in Nat /\ stamp[i] <= stamp'[i]
  BY <1>1 DEF TreeMoment, TreeNow, TreeLater, TreeMarks, TreeAssumption
<1>4. TreeTyped'
  <2>1. TreeMeant(nodes, dirs, absences, structure)'
    BY <1>2 DEF TreeInv, TreeTyped
  <2> QED
    BY <1>1, <1>2, <2>1 DEF TreeInv, TreeTyped
<1>5. TreePlaced'
  BY <1>2 DEF TreeInv, TreePlaced, Task
<1>6. TreeOpened'
  <2> DEFINE i == reg.ino
  <2>1. CASE pc \in TreeReading \cup TreeLinking
    <3>1. i \in Inodes /\ i \in Leaves /\ reg.stamp \in Nat /\ reg.stamp <= stamp[i]
      BY <2>1 DEF TreeInv, TreeOpened, TreeMarks, TreeAssumption, Leaves, Directories
    <3>2. reg.stamp <= stamp'[i] /\ (stamp'[i] = reg.stamp => stamp[i] = stamp'[i])
      BY <3>1, <1>3
    <3>3. stamp'[i] = reg.stamp => data'[i] = data[i]
      BY <3>1, <3>2, <1>1 DEF TreeLater, TreeNow
    <3>4. ASSUME stamp'[i] = reg.stamp, status # "reopening" PROVE entries'[reg.up][Leaf(Task.path)] = i
      <4>1. entries[reg.up][Leaf(Task.path)] = i
        BY <2>1, <3>2, <3>4 DEF TreeInv, TreeOpened
      <4>2. Task.do = "node" /\ reg.up = dirs[Up(Task.path)].ino /\ Up(Task.path) \in DOMAIN dirs
        BY <2>1 DEF TreeInv, TreePlaced, TreeNoding
      <4>3. todo # << >> /\ Task \in TreeTasks
        BY <2>1, TreeRestSet DEF TreeInv, TreeTyped, TreeReading, TreeLinking, Start, Task
      <4>4. Leaf(Task.path) \in Names
        BY <4>2, <4>3, TreeTask, TreeUps DEF TreeNodeTasks
      <4>5. reg.up \in Directories
        BY <4>2 DEF TreeInv, TreeTyped, TreeMeant, TreeDirsMeant, TreeDirType
      <4> QED
        BY <3>1, <3>2, <3>4, <4>1, <4>4, <4>5, <1>1 DEF TreeLater, TreeNow
    <3> HIDE DEF i
    <3>5. reg' = reg /\ pc' = pc /\ status' = status /\ todo' = todo
      BY <1>2
    <3> QED
      BY <3>1, <3>2, <3>3, <3>4, <3>5 DEF TreeInv, TreeOpened, i, Task
  <2>2. CASE pc \notin TreeReading \cup TreeLinking
    BY <2>2, <1>2 DEF TreeOpened, TreeReading, TreeLinking
  <2> QED
    BY <2>1, <2>2
<1>7. TreeScanning'
  <2> SUFFICES ASSUME pc = "scan" PROVE TreeScanning'
    BY <1>2 DEF TreeScanning
  <2>1. Task.do = "structure" => reg.stamp <= stamp'[reg.ino]
                                /\ (stamp'[reg.ino] = reg.stamp => entries'[reg.ino] = entries[reg.ino] /\ stamp[reg.ino] = reg.stamp)
    <3> SUFFICES ASSUME Task.do = "structure"
                 PROVE  reg.stamp <= stamp'[reg.ino]
                        /\ (stamp'[reg.ino] = reg.stamp => entries'[reg.ino] = entries[reg.ino] /\ stamp[reg.ino] = reg.stamp)
      OBVIOUS
    <3>1. reg.ino \in Directories /\ reg.ino \in Inodes /\ reg.stamp \in Nat /\ reg.stamp <= stamp[reg.ino]
      BY DEF TreeInv, TreeScanning, TreeMarks, TreeAssumption, Directories
    <3>2. reg.stamp <= stamp'[reg.ino] /\ (stamp'[reg.ino] = reg.stamp => stamp[reg.ino] = stamp'[reg.ino])
      BY <3>1, <1>3
    <3> QED
      BY <3>1, <3>2, <1>1 DEF TreeLater, TreeNow
  <2> QED
    BY <1>2, <2>1 DEF TreeInv, TreeScanning, TreeEntries, Task
<1>8. TreeCapturing'
  <2> SUFFICES ASSUME status = "capturing" PROVE TreeCapturing'
    BY <1>2 DEF TreeCapturing
  <2>1. TreeTrue(nodes, dirs, absences, structure, TreeNow, todo)
        /\ (absences = {} \/ \A t \in TreeSet(todo) : t.do # "structure")
    BY DEF TreeInv, TreeCapturing
  <2>2. PICK l : l = TreeNow'
    OBVIOUS
  <2>3. TreeMoment(l) /\ TreeLater(TreeNow, l)
    BY <1>1, <2>2
  <2>4. TreeTrue(nodes, dirs, absences, structure, l, todo)
    BY <2>1, <2>3, <1>1, TreeStaysTrue DEF TreeInv, TreeTyped
  <2> QED
    BY <1>2, <2>2, <2>4 DEF TreeInv, TreeCapturing, TreeOnlyChildren, TreeAsked
<1>9. TreeSealed'
  <2> SUFFICES ASSUME status \in TreeLooking PROVE TreeSealed'
    BY <1>2 DEF TreeSealed
  <2>1. PICK l : l = TreeNow'
    OBVIOUS
  <2>2. TreeLater(atSeal, l)
    BY <1>1, <2>1, TreeLaterStill DEF TreeInv, TreeSealed
  <2> QED
    BY <1>2, <2>1, <2>2 DEF TreeInv, TreeSealed, TreeOnlyChildren, TreeAsked
<1>10. TreeVerifying' /\ TreeRereading'
  <2> SUFFICES ASSUME status = "verifying" PROVE TreeVerifying' /\ TreeRereading'
    BY <1>2 DEF TreeVerifying, TreeRereading
  <2>1. \A p \in NodeFiles(snap) : TreeStands(p)' => TreeStands(p)
    BY <1>1, <1>2, TreeStandsStill DEF TreeLooking
  <2>2. TreeVerifying'
    BY <1>2, <2>1 DEF TreeInv, TreeVerifying, TreeAgain, TreeRelisted, TreePending
  <2>3. TreeRereading'
    BY <1>2, <2>1 DEF TreeInv, TreeRereading, Task
  <2> QED
    BY <2>2, <2>3
<1>11. TreeVerified' /\ TreeReopening'
  BY <1>2 DEF TreeInv, TreeVerified, TreeReopening, TreeAgain, Task
<1>12. TreeCalling'
  BY <1>2 DEF TreeInv, TreeCalling, UsesGit
<1>13. TreeAnswered'
  <2> SUFFICES ASSUME status \in {"verifying", "sealed"} PROVE TreeAnswered'
    BY <1>2 DEF TreeAnswered
  <2>1. \A d \in DOMAIN snap.structure : TreeGone(d) => TreeGone(d)'
    BY <1>1, <1>2, TreeStandsStill DEF TreeLooking
  <2> QED
    BY <1>2, <2>1 DEF TreeInv, TreeAnswered, TreeAnswer, TreeListing, TreePending,
           deleted_files, ls_files, InScope
<1>14. TreeAccepted'
  BY <1>2, TreeAcceptedStays
<1> QED
  BY <1>4, <1>5, <1>6, <1>7, <1>8, <1>9, <1>10, <1>11, <1>12, <1>13, <1>14 DEF TreeInv

\* The steps of one observation.
LEMMA TreeRunning ==
  ASSUME TreeInv, Running
  PROVE  /\ todo \in Seq(TreeTasks) /\ Tail(todo) \in Seq(TreeTasks)
         /\ Task \in TreeTasks /\ TreeSet(todo) = {Task} \cup TreeSet(Tail(todo))
         /\ Task.do \in {"node", "list", "structure", "absent", "drop"}
         /\ Task.do = "node" => Task \in TreeNodeTasks /\ Task.path \in Paths
         /\ Task.do = "list" => Task \in TreeListTasks /\ Task.path \in TreeDirs
         /\ Task.do = "structure" => Task \in TreeLevelTasks /\ Task.path \in TreeDirs
         /\ Task.do = "absent" => Task \in TreeAbsentTasks /\ Task.path \in Paths
<1>1. todo \in Seq(TreeTasks) /\ todo # << >>
  BY DEF TreeInv, TreeTyped, Running
<1>2. Task \in TreeTasks /\ TreeSet(todo) = {Task} \cup TreeSet(Tail(todo)) /\ Tail(todo) \in Seq(TreeTasks)
  BY <1>1, TreeRestSet DEF Task
<1> QED
  BY <1>1, <1>2, TreeTask DEF TreeNodeTasks, TreeListTasks, TreeLevelTasks, TreeAbsentTasks

\* What the name of the task leads to now.
LEMMA TreeHere ==
  ASSUME TreeAssumption, TreeInv, pc \in TreeNoding \cup {"listed"}
  PROVE  /\ Running /\ Task.path \in Paths /\ Leaf(Task.path) \in Names
         /\ Up(Task.path) \in DOMAIN dirs /\ reg.up \in Directories /\ reg.up = dirs[Up(Task.path)].ino
         /\ Here \in Inodes \cup {None}
         /\ Here \in Directories => reg.up = Root /\ Here # Root /\ Up(Task.path) = Top
<1>1. Running
  BY DEF TreeInv, TreeTyped, Running, Start, TreeNoding, TreeReading, TreeLinking
<1>2. Task.path \in Paths
  BY <1>1, TreeRunning, TreeSingle DEF TreeInv, TreePlaced, TreeDirs
<1>3. Up(Task.path) \in DOMAIN dirs /\ reg.up = dirs[Up(Task.path)].ino
  BY DEF TreeInv, TreePlaced
<1>4. reg.up \in Directories /\ (reg.up = Root => Up(Task.path) = Top)
  BY <1>3 DEF TreeInv, TreeTyped, TreeMeant, TreeDirsMeant, TreeDirType
<1>5. Leaf(Task.path) \in Names
  BY <1>2, TreeUps
<1>6. TreeShaped(entries)
  BY DEF TreeInv, TreeTyped, TreeMoment, TreeNow
<1> QED
  BY <1>1, <1>2, <1>3, <1>4, <1>5, <1>6 DEF TreeShaped, Here

\* Stamps are numbers, and none is below what it was at the seal.
LEMMA TreeStamps ==
  ASSUME TreeAssumption, TreeInv, NEW i \in Inodes
  PROVE  /\ stamp[i] \in TreeMarks /\ stamp[i] \in Nat /\ stamp[i] <= stamp[i]
         /\ i \in Leaves => data[i] \in TreeBytes
         /\ Kind[i] \in TreeKinds /\ (i \in Directories <=> Kind[i] = "directory") /\ i # None
         /\ status \in TreeLooking => atSeal.stamp[i] \in Nat /\ atSeal.stamp[i] <= stamp[i]
<1>1. stamp[i] \in TreeMarks /\ (i \in Leaves => data[i] \in TreeBytes)
  BY DEF TreeInv, TreeTyped, TreeMoment, TreeNow
<1>2. status \in TreeLooking => atSeal.stamp[i] \in TreeMarks /\ atSeal.stamp[i] <= stamp[i]
  BY DEF TreeInv, TreeSealed, TreeMoment, TreeLater, TreeNow
<1> QED
  BY <1>1, <1>2 DEF TreeMarks, TreeAssumption, TreeKinds, Directories

\* A file of the snapshot seen with its stamp after its directory was listed again.
LEMMA TreeSeenAgain ==
  ASSUME TreeAssumption, TreeInv, Verifying, Running, Task.do = "node",
         NEW i \in Leaves, i = snap.nodes[Task.path].ino, stamp[i] = snap.nodes[Task.path].stamp,
         TreeListed(snap.dirs, Up(Task.path))
  PROVE  TreeChild(snap.dirs, Task.path)
<1> DEFINE p == Task.path
<1>1. Task \in TreeSet(todo) /\ todo \in Seq(TreeTasks)
  BY TreeRunning
<1>2. p \in DOMAIN snap.nodes /\ TreeFirst(todo, {"structure", "list"})
  BY <1>1 DEF TreeInv, TreeVerifying, Verifying
<1>3. snap.nodes[p].kind # "directory"
  BY <1>2 DEF TreeInv, TreeSealed, TreeLooking, Verifying, TreeMeant, TreeNodesMeant, Leaves,
         Directories
<1>4. TreeRelisted(p) /\ TreeStands(p)
  BY <1>2, <1>3 DEF TreeInv, TreeVerifying, Verifying, NodeFiles, TreeStands
<1>5. \A t \in TreeSet(todo) : t.do # "list"
  <2>1. Head(todo).do \notin {"structure", "list"}
    BY DEF Task
  <2> QED
    BY <1>1, <1>2, <2>1, TreeFirstRest DEF Running
<1> QED
  BY <1>4, <1>5 DEF TreeRelisted, TreeWaits

\* os.stat of the name, which decides how the node is read (StatNode).
LEMMA TreeStatKeeps ==
  ASSUME TreeAssumption, TreeInv, StatNode, UNCHANGED callerVars
  PROVE  TreeInv'
<1>1. Running /\ pc = "stat" /\ Task.do = "node"
  BY DEF StatNode, Doing, At
<1>2. CASE /\ Here # None /\ KindExpected(Here)
           /\ To(CASE Kind[Here] = "regular"   -> "open"
                   [] Kind[Here] = "directory" -> "opendir"
                   [] Kind[Here] = "symlink"   -> "readlink",
                 [reg EXCEPT !.ino = Here, !.stamp = stamp[Here]])
           /\ UNCHANGED <<fs, facts, reads>>
  <2> DEFINE i == Here
  <2>1. /\ Task.path \in Paths /\ Leaf(Task.path) \in Names /\ Up(Task.path) \in DOMAIN dirs
        /\ reg.up \in Directories /\ reg.up = dirs[Up(Task.path)].ino
        /\ i \in Inodes
        /\ i \in Directories => reg.up = Root /\ i # Root /\ Up(Task.path) = Top
    BY <1>1, <1>2, TreeHere DEF TreeNoding
  <2>2. /\ stamp[i] \in TreeMarks /\ stamp[i] <= stamp[i]
        /\ Kind[i] \in TreeKinds /\ (i \in Directories <=> Kind[i] = "directory")
        /\ status \in TreeLooking => atSeal.stamp[i] <= stamp[i]
    BY <2>1, TreeStamps
  <2>3. /\ pc' = CASE Kind[i] = "regular" -> "open" [] Kind[i] = "directory" -> "opendir"
                   [] Kind[i] = "symlink" -> "readlink"
        /\ UNCHANGED <<snap, status, why, todo, atSeal, fs, facts, reads>>
        /\ reg' = [reg EXCEPT !.ino = i, !.stamp = stamp[i]]
    BY <1>2 DEF To
  <2>4. DOMAIN reg = DOMAIN NoReg
    BY DEF TreeInv, TreePlaced
  <2>5. reg'.ino = i /\ reg'.stamp = stamp[i] /\ reg'.up = reg.up /\ DOMAIN reg' = DOMAIN NoReg
    BY <2>3, <2>4 DEF NoReg
  <2>6. \/ Kind[i] = "regular" /\ pc' = "open"
        \/ Kind[i] = "directory" /\ pc' = "opendir"
        \/ Kind[i] = "symlink" /\ pc' = "readlink"
    BY <2>2, <2>3 DEF TreeKinds
  <2>7. status # "reopening"
    BY <1>1 DEF TreeInv, TreeReopening, Start, TreeReading
  <2>8. entries[reg.up][Leaf(Task.path)] = i
    BY DEF Here
  <2> HIDE DEF i
  <2>9. TreePlaced'
    BY <1>1, <2>1, <2>2, <2>3, <2>5, <2>6 DEF TreePlaced, TreeNoding, TreeReading, TreeLinking,
           Task, facts
  <2>10. TreeOpened'
    BY <2>1, <2>2, <2>3, <2>5, <2>6, <2>8 DEF TreeOpened, TreeReading, TreeLinking, Task, fs
  <2>11. TreeScanning'
    BY <2>6 DEF TreeScanning
  <2>12. TreeRereading'
    <3> SUFFICES ASSUME Verifying PROVE TreeRereading'
      BY <2>3 DEF TreeRereading, Verifying
    <3>1. atSeal.stamp[i] <= stamp[i]
      BY <2>2 DEF TreeLooking, Verifying
    <3>2. i \in Leaves /\ i = snap.nodes[Task.path].ino /\ stamp[i] = snap.nodes[Task.path].stamp
          /\ TreeListed(snap.dirs, Up(Task.path)) => TreeChild(snap.dirs, Task.path)
      BY <1>1, TreeSeenAgain
    <3>3. Kind[i] # "directory" => i \in Leaves
      BY <2>1, <2>2 DEF Leaves
    <3> QED
      BY <2>3, <2>5, <2>6, <3>1, <3>2, <3>3 DEF TreeRereading, TreeReading, TreeLinking, Task
  <2>13. pc' \in TreePoints /\ reads' \in 0 .. MaxReads
    BY <2>3, <2>6 DEF TreePoints, TreeInv, TreeTyped
  <2> QED
    BY <1>1, <2>3, <2>7, <2>9, <2>10, <2>11, <2>12, <2>13, TreeMoveKeeps
<1>3. CASE ~ (Here # None /\ KindExpected(Here))
  BY <1>1, <1>3, TreeFailKeeps DEF StatNode
<1> QED
  BY <1>2, <1>3 DEF StatNode

\* A step that has opened what it looks for and goes on, changing at most what it has read.
LEMMA TreeReadOn ==
  ASSUME TreeAssumption, TreeInv, Running, pc \in TreeReading \cup TreeLinking,
         UNCHANGED <<fs, facts, snap, status, todo, atSeal, callerVars>>, reads' \in 0 .. MaxReads,
         \/ pc \in TreeReading /\ pc' \in TreeReading
         \/ pc \in TreeLinking /\ pc' \in TreeLinking,
         DOMAIN reg' = DOMAIN reg, reg'.up = reg.up, reg'.ino = reg.ino, reg'.stamp = reg.stamp,
         pc' = "rest" => reg'.half \in Nat /\ (stamp[reg.ino] = reg.stamp => reg'.half = data[reg.ino][1]),
         pc' \in {"recheck", "rebind", "chain", "relink"} =>
           reg'.seen \in TreeBytes /\ (stamp[reg.ino] = reg.stamp => reg'.seen = data[reg.ino])
  PROVE  TreeInv'
<1>1. pc' \in TreePoints /\ pc' \in TreeReading \cup TreeLinking /\ pc' \notin {"listed", "scan", "descend", "leaf", "opendir"}
      /\ pc \in TreeNoding /\ pc' \in TreeNoding
  BY DEF TreeReading, TreeLinking, TreePoints, TreeNoding
<1>2. TreePlaced'
  <2>1. Task.do = "node" /\ Up(Task.path) \in DOMAIN dirs /\ reg.up = dirs[Up(Task.path)].ino /\ DOMAIN reg = DOMAIN NoReg
    BY <1>1 DEF TreeInv, TreePlaced
  <2> QED
    BY <1>1, <2>1 DEF TreePlaced, Task, facts
<1>3. TreeOpened'
  <2>1. /\ reg.ino \in Inodes /\ reg.stamp \in TreeMarks /\ reg.stamp <= stamp[reg.ino]
        /\ pc \in TreeReading => Kind[reg.ino] = "regular"
        /\ pc \in TreeLinking => Kind[reg.ino] = "symlink"
        /\ status # "reopening" /\ stamp[reg.ino] = reg.stamp => entries[reg.up][Leaf(Task.path)] = reg.ino
    BY DEF TreeInv, TreeOpened
  <2>2. Task' = Task /\ stamp' = stamp /\ data' = data /\ entries' = entries /\ status' = status
    BY DEF Task, fs
  <2>3. /\ pc' \in TreeReading => pc \in TreeReading
        /\ pc' \in TreeLinking => pc \in TreeLinking
    BY DEF TreeReading, TreeLinking
  <2> QED
    BY <1>1, <2>1, <2>2, <2>3 DEF TreeOpened
<1>4. TreeScanning'
  BY <1>1 DEF TreeScanning
<1>5. TreeRereading'
  BY <1>1 DEF TreeInv, TreeRereading, Task
<1>6. status = "reopening" => pc' \in TreeReading
  BY DEF TreeInv, TreeReopening, TreeReading, TreeLinking, Start
<1> QED
  BY <1>1, <1>2, <1>3, <1>4, <1>5, <1>6, TreeMoveKeeps

\* A regular file is opened within the byte limit of the round (OpenNode).
LEMMA TreeOpenKeeps ==
  ASSUME TreeAssumption, TreeInv, OpenNode, UNCHANGED callerVars
  PROVE  TreeInv'
<1>1. Running /\ pc = "open" /\ pc \in TreeReading
  BY DEF OpenNode, Doing, At, TreeReading
<1>2. CASE Here # None /\ Same(Here) /\ reads < MaxReads
  <2>1. pc' = "read" /\ reg' = reg /\ UNCHANGED <<fs, facts, snap, status, todo, atSeal>> /\ reads' = reads + 1
    BY <1>2 DEF OpenNode, To
  <2>2. reads' \in 0 .. MaxReads
    BY <1>2, <2>1 DEF TreeInv, TreeTyped, TreeAssumption
  <2>3. pc' \in TreeReading
    BY <2>1 DEF TreeReading
  <2> QED
    BY <1>1, <2>1, <2>2, <2>3, TreeReadOn
<1>3. CASE ~ (Here # None /\ Same(Here) /\ reads < MaxReads)
  BY <1>1, <1>3, TreeFailKeeps DEF OpenNode
<1> QED
  BY <1>2, <1>3

\* The file is read half by half (ReadFirstHalf, ReadSecondHalf).
LEMMA TreeReadKeeps ==
  ASSUME TreeAssumption, TreeInv, ReadFirstHalf \/ ReadSecondHalf, UNCHANGED callerVars
  PROVE  TreeInv'
<1>1. Running /\ pc \in {"read", "rest"} /\ pc \in TreeReading
  BY DEF ReadFirstHalf, ReadSecondHalf, Doing, At, TreeReading
<1>2. DOMAIN reg = DOMAIN NoReg
  BY DEF TreeInv, TreePlaced
<1>3. reg.ino \in Inodes /\ reg.ino \in Leaves
  BY <1>1 DEF TreeInv, TreeOpened, Leaves, Directories
<1>4. data[reg.ino] \in Nat \X Nat
  BY <1>3, TreeStamps DEF TreeBytes
<1>5. reads \in 0 .. MaxReads
  BY DEF TreeInv, TreeTyped
<1>6. CASE ReadFirstHalf
  <2>1. pc' = "rest" /\ reg' = [reg EXCEPT !.half = data[reg.ino][1]]
        /\ UNCHANGED <<fs, facts, snap, status, todo, atSeal, reads>>
    BY <1>6 DEF ReadFirstHalf, To
  <2>2. /\ DOMAIN reg' = DOMAIN reg /\ reg'.up = reg.up /\ reg'.ino = reg.ino /\ reg'.stamp = reg.stamp
        /\ reg'.half = data[reg.ino][1]
    BY <1>2, <2>1 DEF NoReg
  <2>3. data[reg.ino][1] \in Nat
    BY <1>4
  <2>4. pc' \in TreeReading /\ pc' \notin {"recheck", "rebind", "chain", "relink"}
    BY <2>1 DEF TreeReading
  <2> QED
    BY <1>1, <1>5, <2>1, <2>2, <2>3, <2>4, TreeReadOn
<1>7. CASE ReadSecondHalf
  <2>1. pc' = "recheck" /\ reg' = [reg EXCEPT !.seen = <<reg.half, data[reg.ino][2]>>]
        /\ UNCHANGED <<fs, facts, snap, status, todo, atSeal, reads>> /\ pc = "rest"
    BY <1>7 DEF ReadSecondHalf, To, Doing, At
  <2>2. /\ DOMAIN reg' = DOMAIN reg /\ reg'.up = reg.up /\ reg'.ino = reg.ino /\ reg'.stamp = reg.stamp
        /\ reg'.seen = <<reg.half, data[reg.ino][2]>>
    BY <1>2, <2>1 DEF NoReg
  <2>3. reg.half \in Nat /\ (stamp[reg.ino] = reg.stamp => reg.half = data[reg.ino][1])
    BY <2>1 DEF TreeInv, TreeOpened
  <2>4. reg'.seen \in TreeBytes /\ (stamp[reg.ino] = reg.stamp => reg'.seen = data[reg.ino])
    BY <1>4, <2>2, <2>3 DEF TreeBytes
  <2>5. pc' \in TreeReading /\ pc' # "rest"
    BY <2>1 DEF TreeReading
  <2> QED
    BY <1>1, <1>5, <2>1, <2>2, <2>4, <2>5, TreeReadOn
<1> QED
  BY <1>6, <1>7

\* The descriptor, then the name, still have the stamp (RecheckDescriptor, RecheckName).
LEMMA TreeRecheckKeeps ==
  ASSUME TreeAssumption, TreeInv, RecheckDescriptor \/ RecheckName, UNCHANGED callerVars
  PROVE  TreeInv'
<1>1. Running /\ pc \in {"recheck", "rebind"} /\ pc \in TreeReading
  BY DEF RecheckDescriptor, RecheckName, Doing, At, TreeReading
<1>2. CASE pc' \in {"rebind", "chain"} /\ To(pc', reg) /\ UNCHANGED <<fs, facts, reads>>
  <2>1. reg' = reg /\ UNCHANGED <<fs, facts, snap, status, todo, atSeal, reads>>
    BY <1>2 DEF To
  <2>2. reg.seen \in TreeBytes /\ (stamp[reg.ino] = reg.stamp => reg.seen = data[reg.ino])
    BY <1>1 DEF TreeInv, TreeOpened
  <2>3. pc' \in TreeReading /\ pc' # "rest"
    BY <1>2 DEF TreeReading
  <2>4. reads \in 0 .. MaxReads
    BY DEF TreeInv, TreeTyped
  <2> QED
    BY <1>1, <2>1, <2>2, <2>3, <2>4, TreeReadOn
<1>3. CASE Fail("changed")
  BY <1>1, <1>3, TreeFailKeeps
<1> QED
  BY <1>2, <1>3 DEF RecheckDescriptor, RecheckName, To

\* The link is read (ReadLink).
LEMMA TreeReadLinkKeeps ==
  ASSUME TreeAssumption, TreeInv, ReadLink, UNCHANGED callerVars
  PROVE  TreeInv'
<1>1. Running /\ pc = "readlink" /\ pc \in TreeLinking
  BY DEF ReadLink, Doing, At, TreeLinking
<1>2. CASE Here # None /\ Kind[Here] = "symlink"
  <2>1. pc' = "relink" /\ reg' = [reg EXCEPT !.seen = data[Here]]
        /\ UNCHANGED <<fs, facts, snap, status, todo, atSeal, reads>>
    BY <1>2 DEF ReadLink, To
  <2>2. DOMAIN reg = DOMAIN NoReg
    BY DEF TreeInv, TreePlaced
  <2>3. /\ DOMAIN reg' = DOMAIN reg /\ reg'.up = reg.up /\ reg'.ino = reg.ino /\ reg'.stamp = reg.stamp
        /\ reg'.seen = data[Here]
    BY <2>1, <2>2 DEF NoReg
  <2>4. Here \in Inodes
    BY <1>1, <1>2, TreeHere DEF TreeNoding
  <2>5. data[Here] \in TreeBytes
    BY <1>2, <2>4, TreeStamps DEF Leaves
  <2>6. stamp[reg.ino] = reg.stamp => Here = reg.ino
    <3>1. status # "reopening"
      BY <1>1 DEF TreeInv, TreeReopening, Start, TreeReading
    <3> QED
      BY <1>1, <3>1 DEF TreeInv, TreeOpened, Here
  <2>7. pc' \in TreeLinking /\ pc' # "rest"
    BY <2>1 DEF TreeLinking
  <2>8. reads \in 0 .. MaxReads
    BY DEF TreeInv, TreeTyped
  <2> QED
    BY <1>1, <2>1, <2>3, <2>5, <2>6, <2>7, <2>8, TreeReadOn
<1>3. CASE ~ (Here # None /\ Kind[Here] = "symlink")
  BY <1>1, <1>3, TreeFailKeeps DEF ReadLink
<1> QED
  BY <1>2, <1>3

\* os.scandir gives the next name (Scan).
LEMMA TreeScanKeeps ==
  ASSUME TreeAssumption, TreeInv, Scan, UNCHANGED callerVars
  PROVE  TreeInv'
<1> DEFINE n == Next1(reg.left)
           i == entries[reg.ino][n]
           seen == IF i = None THEN reg.seen ELSE reg.seen \cup {<<n, Kind[i], i>>}
<1>1. Running /\ pc = "scan" /\ Task.do \in {"list", "structure"} /\ reg.left # {} /\ n \in reg.left
  BY DEF Scan, At, Next1
<1>2. DOMAIN reg = DOMAIN NoReg
  BY DEF TreeInv, TreePlaced
<1>3. pc' = "scan" /\ UNCHANGED <<snap, status, todo, atSeal, fs, facts, reads>>
  BY DEF Scan, To
<1>4. reg' = [reg EXCEPT !.left = reg.left \ {n}, !.seen = seen]
  BY DEF Scan, To
<1>5. /\ DOMAIN reg' = DOMAIN NoReg /\ reg'.ino = reg.ino /\ reg'.stamp = reg.stamp
      /\ reg'.left = reg.left \ {n} /\ reg'.seen = seen
  BY <1>2, <1>4 DEF NoReg
<1>6. /\ reg.ino \in Directories /\ reg.left \subseteq Names
      /\ \A c \in reg.seen : /\ c \in Names \X TreeKinds \X Inodes
                             /\ c[2] = Kind[c[3]]
                             /\ c[3] \in Directories => c[3] # Root /\ reg.ino = Root
  BY <1>1 DEF TreeInv, TreeScanning
<1>7. i \in Inodes \cup {None} /\ (i \in Directories => reg.ino = Root /\ i # Root)
  BY <1>1, <1>6 DEF TreeInv, TreeTyped, TreeMoment, TreeNow, TreeShaped
<1>8. i # None => i \in Inodes /\ Kind[i] \in TreeKinds
  BY <1>7, TreeStamps
<1>9. n \in Names
  BY <1>1, <1>6
<1>10. Task.do = "structure" /\ stamp[reg.ino] = reg.stamp => seen = TreeEntries(reg.ino, Names \ (reg.left \ {n}))
  <2> SUFFICES ASSUME Task.do = "structure", stamp[reg.ino] = reg.stamp
               PROVE  seen = TreeEntries(reg.ino, Names \ (reg.left \ {n}))
    OBVIOUS
  <2>1. reg.seen = TreeEntries(reg.ino, Names \ reg.left)
    BY <1>1 DEF TreeInv, TreeScanning
  <2>2. Names \ (reg.left \ {n}) = (Names \ reg.left) \cup {n}
    BY <1>1, <1>6
  <2>3. CASE i = None
    BY <2>1, <2>2, <2>3 DEF TreeEntries
  <2>4. CASE i # None
    BY <2>1, <2>2, <2>4 DEF TreeEntries
  <2> QED
    BY <2>3, <2>4
<1>11. Verifying /\ Task.do = "list" =>
         \A p \in NodeFiles(snap) : Up(p) = Task.path /\ Leaf(p) \notin reg.left \ {n} /\ TreeStands(p) =>
              Leaf(p) \in NamesOf(seen)
  <2> SUFFICES ASSUME Verifying, Task.do = "list", NEW p \in NodeFiles(snap), Up(p) = Task.path,
                      Leaf(p) \notin reg.left \ {n}, TreeStands(p)
               PROVE  Leaf(p) \in NamesOf(seen)
    OBVIOUS
  <2>1. CASE Leaf(p) \notin reg.left
    <3>1. Leaf(p) \in NamesOf(reg.seen)
      BY <1>1, <2>1 DEF TreeInv, TreeRereading, Verifying
    <3> QED
      BY <3>1 DEF NamesOf
  <2>2. CASE Leaf(p) = n
    <3> DEFINE k == snap.nodes[p].ino
    <3>1. /\ p \in DOMAIN snap.nodes /\ k \in Inodes /\ snap.nodes[p].kind # "directory"
          /\ snap.nodes[p].up = snap.dirs[Up(p)].ino /\ snap.nodes[p].stamp \in Nat
          /\ snap.nodes[p].stamp <= atSeal.stamp[k] /\ TreeHeld(snap.nodes, atSeal)
      BY DEF TreeInv, TreeSealed, TreeLooking, Verifying, NodeFiles, TreeMeant, TreeNodesMeant,
             TreeNodeType, TreeMarks,
             TreeAssumption, TreeTrue, TreeSeen
    <3>2. stamp[k] = snap.nodes[p].stamp /\ atSeal.stamp[k] \in Nat /\ atSeal.stamp[k] <= stamp[k]
      BY <3>1, TreeStamps DEF TreeStands, TreeLooking, Verifying
    <3>3. atSeal.stamp[k] = snap.nodes[p].stamp
      BY <3>1, <3>2
    <3>4. reg.ino = snap.dirs[Task.path].ino
      BY <1>1 DEF TreeInv, TreeRereading, Verifying
    <3>5. atSeal.entries[reg.ino][n] = k
      BY <2>2, <3>1, <3>3, <3>4 DEF TreeHeld
    <3>6. entries[reg.ino][n] = k
      BY <3>1, <3>2, <3>3, <3>5, <1>6, <1>9 DEF TreeInv, TreeSealed, TreeLooking, Verifying,
             TreeLater, TreeNow
    <3>7. i # None
      BY <3>1, <3>6, TreeStamps
    <3>8. <<n, Kind[i], i>> \in seen
      BY <3>7
    <3> QED
      BY <2>2, <3>8 DEF NamesOf
  <2> QED
    BY <2>1, <2>2
<1>12. Task' = Task /\ stamp' = stamp /\ entries' = entries /\ status' = status /\ snap' = snap /\ atSeal' = atSeal
       /\ dirs' = dirs
  BY <1>3 DEF Task, fs, facts
<1>13. \A c \in seen : /\ c \in Names \X TreeKinds \X Inodes
                       /\ c[2] = Kind[c[3]]
                       /\ c[3] \in Directories => c[3] # Root /\ reg.ino = Root
  BY <1>6, <1>7, <1>8, <1>9
<1> HIDE DEF n, i, seen
<1>14. TreeScanning'
  <2>1. Task.do = "structure" =>
           /\ Task.path = Top <=> reg.ino = Root
           /\ reg.ino = Task.ino
           /\ reg.stamp \in TreeMarks /\ reg.stamp <= stamp[reg.ino]
    BY <1>1 DEF TreeInv, TreeScanning
  <2>2. reg'.left \subseteq Names
    BY <1>5, <1>6
  <2>4. (stamp[reg.ino] = reg.stamp)' <=> stamp[reg.ino] = reg.stamp
    BY <1>5, <1>12
  <2>5. TreeEntries(reg.ino, Names \ reg.left)' = TreeEntries(reg.ino, Names \ (reg.left \ {n}))
    BY <1>5, <1>12 DEF TreeEntries
  <2> QED
    BY <1>3, <1>5, <1>6, <1>10, <1>12, <1>13, <2>1, <2>2, <2>4, <2>5 DEF TreeScanning
<1>15. TreePlaced' /\ TreeOpened'
  BY <1>1, <1>3, <1>5, <1>12 DEF TreePlaced, TreeOpened, TreeNoding, TreeReading, TreeLinking
<1>16. TreeRereading'
  <2> SUFFICES ASSUME Verifying PROVE TreeRereading'
    BY <1>12 DEF TreeRereading, Verifying
  <2>1. Task.do = "list" => reg.ino = snap.dirs[Task.path].ino
    BY <1>1 DEF TreeInv, TreeRereading, Verifying
  <2>2. pc' \notin TreeReading \cup TreeLinking
    BY <1>3 DEF TreeReading, TreeLinking
  <2>3. \A p : TreeStands(p)' <=> TreeStands(p)
    BY <1>12 DEF TreeStands
  <2> QED
    BY <1>5, <1>11, <1>12, <2>1, <2>2, <2>3 DEF TreeRereading
<1>17. pc' \in TreePoints /\ reads' \in 0 .. MaxReads /\ status # "reopening"
  BY <1>1, <1>3 DEF TreePoints, TreeInv, TreeTyped, TreeReopening, Start, TreeReading
<1> QED
  BY <1>1, <1>3, <1>14, <1>15, <1>16, <1>17, TreeMoveKeeps

\* A level of the structure is opened (OpenStructure).
LEMMA TreeOpenLevelKeeps ==
  ASSUME TreeAssumption, TreeInv, OpenStructure, UNCHANGED callerVars
  PROVE  TreeInv'
<1> DEFINE i == Resolve(entries, Task.path)
<1>1. Running /\ pc = Start /\ Task.do = "structure"
  BY DEF OpenStructure, Doing, At
<1>2. CASE i # None /\ (Task.path # Top => i = Task.ino)
  <2>1. To("scan", [NoReg EXCEPT !.ino = i, !.stamp = stamp[i], !.left = Names]) /\ UNCHANGED <<fs, facts, reads>>
    BY <1>2 DEF OpenStructure
  <2>2. /\ pc' = "scan" /\ UNCHANGED <<snap, status, todo, atSeal, fs, facts, reads>>
        /\ DOMAIN reg' = DOMAIN NoReg /\ reg'.ino = i /\ reg'.stamp = stamp[i] /\ reg'.left = Names
        /\ reg'.seen = {}
    BY <2>1 DEF To, NoReg
  <2>3. Task \in TreeLevelTasks /\ Task.path \in TreeDirs /\ Task \in TreeSet(todo)
    BY <1>1, TreeRunning
  <2>4. Task.path = Top <=> Task.ino = Root
    BY <1>1, <2>3 DEF TreeInv, TreeTyped
  <2>5. TreeShaped(entries)
    BY DEF TreeInv, TreeTyped, TreeMoment, TreeNow
  <2>6. i \in Directories \cup {None} /\ (Task.path = Top => i = Root) /\ Directories \subseteq Inodes /\ Root \in Directories
    BY <2>3, <2>5, TreeResolves
  <2>7. i \in Directories /\ i \in Inodes /\ i = Task.ino
    BY <1>2, <2>4, <2>6
  <2>8. stamp[i] \in TreeMarks /\ stamp[i] <= stamp[i]
    BY <2>7, TreeStamps
  <2> HIDE DEF i
  <2>9. Task' = Task /\ stamp' = stamp
    BY <2>2 DEF Task, fs
  <2>10. TreeEntries(reg.ino, Names \ reg.left)' = {}
    BY <2>2 DEF TreeEntries
  <2>11. TreeScanning'
    BY <2>2, <2>4, <2>7, <2>8, <2>9, <2>10 DEF TreeScanning
  <2>12. TreePlaced' /\ TreeOpened' /\ TreeRereading'
    BY <1>1, <2>2, <2>9 DEF TreePlaced, TreeOpened, TreeRereading, TreeNoding, TreeReading,
           TreeLinking
  <2>13. pc' \in TreePoints /\ reads' \in 0 .. MaxReads /\ status # "reopening"
    BY <1>1, <2>2 DEF TreePoints, TreeInv, TreeTyped, TreeReopening
  <2> QED
    BY <1>1, <2>2, <2>11, <2>12, <2>13, TreeMoveKeeps
<1>3. CASE ~ (i # None /\ (Task.path # Top => i = Task.ino))
  BY <1>1, <1>3, TreeFailKeeps DEF OpenStructure
<1> QED
  BY <1>2, <1>3

\* A directory merged into those known.
LEMMA TreeMerged ==
  ASSUME TreeAssumption, NEW d \in TreeDirs, NEW i \in Directories, NEW kids \in (SUBSET Names) \cup {None},
         TreeDirsMeant(dirs), CanMerge(d, i, kids), Merge(d, i, kids), d \in DOMAIN dirs \/ i # Root
  PROVE  /\ TreeDirsMeant(dirs') /\ DOMAIN dirs' = DOMAIN dirs \cup {d} /\ dirs'[d].ino = i
         /\ \A e \in DOMAIN dirs : dirs'[e].ino = dirs[e].ino /\ (e # d => dirs'[e] = dirs[e])
         /\ \A e : TreeListed(dirs, e) => TreeListed(dirs', e) /\ dirs'[e].children = dirs[e].children
         /\ \A e : e # d \/ kids = None => (TreeListed(dirs', e) <=> TreeListed(dirs, e))
         /\ kids # None => dirs'[d].children = kids
<1>1. CASE d \in DOMAIN dirs /\ dirs[d].children # None
  <2>1. dirs' = dirs
    BY <1>1 DEF Merge
  <2> QED
    BY <1>1, <2>1 DEF CanMerge, TreeListed
<1>2. CASE ~ (d \in DOMAIN dirs /\ dirs[d].children # None)
  <2>1. dirs' = [y \in DOMAIN dirs \cup {d} |-> IF y = d THEN [ino |-> i, children |-> kids] ELSE dirs[y]]
    BY <1>2 DEF Merge, Put
  <2>2. DOMAIN dirs' = DOMAIN dirs \cup {d} /\ dirs'[d] = [ino |-> i, children |-> kids]
        /\ \A e \in DOMAIN dirs : e # d => dirs'[e] = dirs[e]
    BY <2>1
  <2>3. d \in DOMAIN dirs => dirs[d].ino = i
    BY DEF CanMerge
  <2>4. TreeDirsMeant(dirs')
    BY <2>2, <2>3 DEF TreeDirsMeant, TreeDirType
  <2>5. \A e : TreeListed(dirs, e) => e # d /\ e \in DOMAIN dirs
    BY <1>2 DEF TreeListed
  <2> QED
    BY <2>2, <2>3, <2>4, <2>5 DEF TreeListed
<1> QED
  BY <1>1, <1>2

\* A directory that is opened on the way is known from now on.
LEMMA TreeNodesStay ==
  ASSUME NEW ns, NEW ds, NEW es, TreeNodesMeant(ns, ds), \A e \in DOMAIN ds : e \in DOMAIN es /\ es[e].ino = ds[e].ino
  PROVE  TreeNodesMeant(ns, es)
BY DEF TreeNodesMeant

\* A step that opens a directory on the way and goes on.
LEMMA TreeMergeKeeps ==
  ASSUME TreeAssumption, TreeInv, Running, Task.do # "structure", status # "reopening" \/ pc' = Start \/ pc' \in TreeReading,
         UNCHANGED <<fs, nodes, absences, structure, reads, snap, status, todo, atSeal, callerVars>>,
         NEW d \in TreeDirs, Resolve(entries, d) # None,
         CanMerge(d, Resolve(entries, d), None), Merge(d, Resolve(entries, d), None),
         pc' \in TreePoints, TreePlaced', TreeOpened', TreeScanning', TreeRereading'
  PROVE  TreeInv'
<1> DEFINE i == Resolve(entries, d)
<1>1. TreeMeant(nodes, dirs, absences, structure) /\ TreeShaped(entries)
  BY DEF TreeInv, TreeTyped, TreeMoment, TreeNow
<1>2. i \in Directories /\ (d # Top => i # Root) /\ (d = Top => i = Root)
  BY <1>1, TreeResolves
<1>3. d \in DOMAIN dirs \/ i # Root
  BY <1>1, <1>2 DEF TreeMeant, TreeDirsMeant
<1>4. /\ TreeDirsMeant(dirs') /\ DOMAIN dirs' = DOMAIN dirs \cup {d} /\ dirs'[d].ino = i
      /\ \A e \in DOMAIN dirs : dirs'[e].ino = dirs[e].ino
      /\ \A e : TreeListed(dirs, e) => TreeListed(dirs', e) /\ dirs'[e].children = dirs[e].children
      /\ \A e : TreeListed(dirs', e) <=> TreeListed(dirs, e)
  <2>1. CanMerge(d, i, None) /\ Merge(d, i, None) /\ None \in (SUBSET Names) \cup {None} /\ TreeDirsMeant(dirs)
    BY <1>1 DEF TreeMeant
  <2> HIDE DEF i
  <2> QED
    BY <1>2, <1>3, <2>1, TreeMerged
<1>5. UNCHANGED <<entries, stamp, data, clock, nodes, absences, structure, reads, snap, status, todo, atSeal,
                  mode, step, asked, files>>
  BY DEF fs, callerVars
<1>6. TreeMeant(nodes, dirs', absences, structure)
  BY <1>1, <1>4, TreeNodesStay DEF TreeMeant
<1>7. TreeTyped'
  <2>1. TreeMoment(TreeNow)' /\ TreeTimed'
    BY <1>5 DEF TreeInv, TreeTyped, TreeTimed, TreeNow
  <2> QED
    BY <1>5, <1>6, <2>1 DEF TreeInv, TreeTyped, Running
<1>8. TreeCapturing'
  <2> SUFFICES ASSUME status = "capturing" PROVE TreeCapturing'
    BY <1>5 DEF TreeCapturing
  <2>1. \A t \in TreeSet(todo) : t.do # "structure"
    <3>1. Head(todo).do \notin {"structure"} /\ todo \in Seq(TreeTasks) /\ todo # << >> /\ TreeFirst(todo, {"structure"})
      BY DEF TreeInv, TreeTyped, Task, Running
    <3> QED
      BY <3>1, TreeFirstRest
  <2>2. TreeTrue(nodes, dirs', absences, structure, TreeNow, todo)
    <3>1. TreeTrue(nodes, dirs, absences, structure, TreeNow, todo)
      BY DEF TreeInv, TreeCapturing
    <3>2. \A e \in DOMAIN dirs' : e \in DOMAIN dirs \/ Resolve(TreeNow.entries, e) = dirs'[e].ino
      BY <1>4 DEF TreeNow
    <3> QED
      BY <1>4, <3>1, <3>2 DEF TreeTrue, TreeLed
  <2>3. TreeTrue(nodes, dirs, absences, structure, TreeNow, todo)'
    BY <1>5, <2>2 DEF TreeNow
  <2>4. TreeWalked(nodes, dirs', todo)
    BY <1>4 DEF TreeInv, TreeCapturing, TreeWalked, TreeListed
  <2>5. TreeOnlyChildren(nodes, dirs', todo)
    BY <1>4 DEF TreeInv, TreeCapturing, TreeOnlyChildren, TreeChild
  <2>6. TreeOnlyChildren(nodes, dirs, todo)'
    BY <1>5, <2>5 DEF TreeOnlyChildren
  <2> QED
    BY <1>5, <2>1, <2>3, <2>4, <2>6 DEF TreeInv, TreeCapturing, TreeAsked
<1>9. TreeSealed' /\ TreeVerifying'
  BY <1>5, TreeSealedStays, TreeVerifyingStays
<1>10. TreeVerified' /\ TreeReopening'
  BY <1>5 DEF TreeInv, TreeVerified, TreeReopening, TreeAgain, Task
<1>11. TreeCalling'
  BY <1>5 DEF TreeInv, TreeCalling, UsesGit, Running
<1>12. TreeAnswered'
  BY <1>5 DEF TreeInv, TreeAnswered, TreeAnswer, TreeListing, TreePending, TreeGone,
         deleted_files, ls_files, InScope
<1>13. TreeAccepted'
  BY <1>5, TreeAcceptedStays
<1> QED
  BY <1>7, <1>8, <1>9, <1>10, <1>11, <1>12, <1>13 DEF TreeInv

\* The directory of the path is opened (OpenParent).
LEMMA TreeParentKeeps ==
  ASSUME TreeAssumption, TreeInv, OpenParent, UNCHANGED callerVars
  PROVE  TreeInv'
<1> DEFINE d == Up(Task.path)
           up == Resolve(entries, d)
<1>1. Running /\ pc = Start /\ Task.do \in {"node", "list"} /\ Task.path # Top
  BY DEF OpenParent, At
<1>2. Task.path \in Paths /\ d \in TreeDirs
  BY <1>1, TreeRunning, TreeUps, TreeSingle DEF TreeDirs
<1>3. CASE up # None /\ CanMerge(d, up, None)
  <2>1. /\ Merge(d, up, None)
        /\ IF status = "reopening"
             THEN To("open", [NoReg EXCEPT !.up = up, !.ino = snap.nodes[Task.path].ino, !.stamp = snap.nodes[Task.path].stamp])
             ELSE To(IF Task.do = "node" THEN "stat" ELSE "listed", [NoReg EXCEPT !.up = up])
        /\ UNCHANGED <<fs, nodes, absences, structure, reads>>
    BY <1>3 DEF OpenParent
  <2>2. UNCHANGED <<snap, status, todo, atSeal>> /\ Task' = Task /\ stamp' = stamp
    BY <2>1 DEF To, Task, fs
  <2>3. TreeMeant(nodes, dirs, absences, structure) /\ TreeShaped(entries)
    BY DEF TreeInv, TreeTyped, TreeMoment, TreeNow
  <2>4. up \in Directories /\ (d # Top => up # Root) /\ (d = Top => up = Root)
    BY <1>2, <1>3, <2>3, TreeResolves
  <2>5. d \in DOMAIN dirs' /\ dirs'[d].ino = up
    <3>1. d \in DOMAIN dirs \/ up # Root
      BY <2>3, <2>4 DEF TreeMeant, TreeDirsMeant
    <3>2. CanMerge(d, up, None) /\ Merge(d, up, None) /\ None \in (SUBSET Names) \cup {None} /\ TreeDirsMeant(dirs)
      BY <1>3, <2>1, <2>3 DEF TreeMeant
    <3> HIDE DEF up, d
    <3> QED
      BY <1>2, <2>4, <3>1, <3>2, TreeMerged
  <2>6. /\ DOMAIN reg' = DOMAIN NoReg /\ reg'.up = up
        /\ pc' = IF status = "reopening" THEN "open" ELSE IF Task.do = "node" THEN "stat" ELSE "listed"
        /\ status = "reopening" => reg'.ino = snap.nodes[Task.path].ino /\ reg'.stamp = snap.nodes[Task.path].stamp
    BY <2>1 DEF To, NoReg
  <2> HIDE DEF up, d
  <2>7. pc' \in TreePoints /\ pc' \notin TreeLinking \cup {"scan", "leaf", "descend", "opendir"}
        /\ (pc' \in TreeReading <=> status = "reopening") /\ (pc' = "listed" <=> Task.do = "list" /\ status # "reopening")
        /\ pc' \notin {"rest", "recheck", "rebind", "chain", "relink"}
    <3>1. pc' \in {"open", "stat", "listed"} /\ (pc' = "open" <=> status = "reopening")
          /\ (pc' = "listed" <=> Task.do = "list" /\ status # "reopening")
      BY <1>1, <2>6
    <3> QED
      BY <3>1 DEF TreePoints, TreeReading, TreeLinking
  <2>8. status = "reopening" => Task.do = "node" /\ Task.path \in DOMAIN snap.nodes /\ snap.nodes[Task.path].kind = "regular"
    BY DEF TreeInv, TreeReopening
  <2>9. TreePlaced'
    <3>1. Task.do = "list" /\ pc' # "listed" => FALSE
      BY <2>7, <2>8
    <3> QED
      BY <1>1, <2>2, <2>5, <2>6, <2>7, <2>8, <3>1 DEF TreePlaced, TreeNoding, d
  <2>10. TreeOpened'
    <3>1. CASE status = "reopening"
      <4> DEFINE k == snap.nodes[Task.path].ino
      <4>1. /\ k \in Inodes /\ Kind[k] = "regular" /\ snap.nodes[Task.path].stamp \in TreeMarks
            /\ snap.nodes[Task.path].stamp <= atSeal.stamp[k]
        BY <2>8, <3>1 DEF TreeInv, TreeSealed, TreeLooking, TreeMeant, TreeNodesMeant,
               TreeNodeType, TreeTrue, TreeSeen
      <4>2. atSeal.stamp[k] \in Nat /\ stamp[k] \in Nat /\ atSeal.stamp[k] <= stamp[k]
        BY <3>1, <4>1, TreeStamps DEF TreeLooking
      <4>3. snap.nodes[Task.path].stamp <= stamp[k]
        BY <4>1, <4>2 DEF TreeMarks, TreeAssumption
      <4> QED
        BY <2>2, <2>6, <2>7, <3>1, <4>1, <4>3 DEF TreeOpened
    <3>2. CASE status # "reopening"
      BY <2>7, <3>2 DEF TreeOpened
    <3> QED
      BY <3>1, <3>2
  <2>11. TreeScanning'
    BY <2>7 DEF TreeScanning
  <2>12. TreeRereading'
    BY <2>2, <2>7 DEF TreeRereading
  <2>13. status # "reopening" \/ pc' \in TreeReading
    BY <2>7
  <2> QED
    BY <1>1, <1>2, <1>3, <2>1, <2>2, <2>7, <2>9, <2>10, <2>11, <2>12, <2>13, TreeMergeKeeps DEF up
<1>4. CASE ~ (up # None /\ CanMerge(d, up, None))
  BY <1>1, <1>4, TreeFailKeeps DEF OpenParent
<1> QED
  BY <1>3, <1>4

\* The directory in which a path is absent is opened (DescendAbsent).
LEMMA TreeDescendKeeps ==
  ASSUME TreeAssumption, TreeInv, DescendAbsent, UNCHANGED callerVars
  PROVE  TreeInv'
<1> DEFINE d == <<Task.path[1]>>
           i == Resolve(entries, d)
<1>1. Running /\ pc = "descend" /\ Task.do = "absent" /\ Len(Task.path) = 2
  BY DEF DescendAbsent, Doing, At, TreeInv, TreePlaced
<1>2. Task.path \in Paths /\ d \in TreeDirs /\ d # Top /\ d = Up(Task.path)
  <2>1. Task.path \in Paths
    BY <1>1, TreeRunning
  <2>2. Up(Task.path) = <<Task.path[1]>> /\ Up(Task.path) \in TreeSingles /\ Up(Task.path) # Top
    BY <1>1, <2>1, TreePaths
  <2> QED
    BY <2>1, <2>2 DEF TreeDirs
<1>3. CASE i # None /\ (~Verifying => CanMerge(d, i, None))
  <2>1. /\ IF Verifying THEN UNCHANGED dirs ELSE Merge(d, i, None)
        /\ To("leaf", [NoReg EXCEPT !.up = i])
        /\ UNCHANGED <<fs, nodes, absences, structure, reads>>
    BY <1>3 DEF DescendAbsent
  <2>2. UNCHANGED <<snap, status, todo, atSeal>> /\ Task' = Task
    BY <2>1 DEF To, Task
  <2>3. TreeMeant(nodes, dirs, absences, structure) /\ TreeShaped(entries)
    BY DEF TreeInv, TreeTyped, TreeMoment, TreeNow
  <2>4. i \in Directories /\ i # Root
    BY <1>2, <1>3, <2>3, TreeResolves
  <2>5. ~Verifying => d \in DOMAIN dirs' /\ dirs'[d].ino = i
    <3>1. ~Verifying => CanMerge(d, i, None) /\ Merge(d, i, None)
      BY <1>3, <2>1
    <3>2. None \in (SUBSET Names) \cup {None} /\ TreeDirsMeant(dirs)
      BY <2>3 DEF TreeMeant
    <3> HIDE DEF i, d
    <3> QED
      BY <1>2, <2>4, <3>1, <3>2, TreeMerged
  <2>6. /\ DOMAIN reg' = DOMAIN NoReg /\ reg'.up = i /\ pc' = "leaf"
    BY <2>1 DEF To, NoReg
  <2>7. status = "capturing" => ~Verifying
    BY DEF Verifying
  <2>8. TreePlaced'
    BY <1>1, <2>2, <2>4, <2>5, <2>6, <2>7 DEF TreePlaced, TreeNoding, TreeReading, TreeLinking
  <2>9. TreeOpened' /\ TreeScanning' /\ TreeRereading'
    BY <2>6 DEF TreeOpened, TreeScanning, TreeRereading, TreeReading, TreeLinking
  <2>10. pc' \in TreePoints /\ status # "reopening"
    BY <1>1, <2>6 DEF TreePoints, TreeInv, TreeReopening
  <2>11. CASE Verifying
    <3>1. UNCHANGED facts /\ reads' \in 0 .. MaxReads
      BY <2>1, <2>11 DEF facts, TreeInv, TreeTyped
    <3> QED
      BY <1>1, <2>1, <2>2, <2>8, <2>9, <2>10, <3>1, TreeMoveKeeps
  <2>12. CASE ~Verifying
    BY <1>1, <1>2, <1>3, <2>1, <2>2, <2>8, <2>9, <2>10, <2>12, TreeMergeKeeps
  <2> QED
    BY <2>11, <2>12
<1>4. CASE ~ (i # None /\ (~Verifying => CanMerge(d, i, None)))
  BY <1>1, <1>4, TreeFailKeeps DEF DescendAbsent
<1> QED
  BY <1>3, <1>4

\* Steps that end a task.
LEMMA TreeFinished ==
  ASSUME TreeInv, Running, NEW more \in Seq(TreeTasks), Finish(more), UNCHANGED <<fs, callerVars>>, status # "reopening"
  PROVE  /\ todo' \in Seq(TreeTasks) /\ TreeSet(todo') = TreeSet(more) \cup TreeSet(Tail(todo))
         /\ TreeSet(todo) = {Task} \cup TreeSet(Tail(todo)) /\ todo' = more \o Tail(todo)
         /\ status \in {"capturing", "verifying"}
         /\ UNCHANGED <<snap, status, atSeal, entries, stamp, data, clock, mode, step, asked, files>>
         /\ TreePlaced' /\ TreeOpened' /\ TreeScanning' /\ TreeRereading' /\ TreeSealed' /\ TreeVerified'
         /\ TreeReopening' /\ TreeCalling' /\ TreeAccepted'
         /\ asked = << >> \/ step \notin {"after", "final"}
         /\ TreeMoment(TreeNow)' /\ TreeTimed'
<1>1. /\ todo' = more \o Tail(todo) /\ pc' = Start /\ reg' = NoReg
      /\ UNCHANGED <<snap, status, why, atSeal, entries, stamp, data, clock, mode, step, asked, files>>
  BY DEF Finish, fs, callerVars
<1>2. todo \in Seq(TreeTasks) /\ Tail(todo) \in Seq(TreeTasks) /\ TreeSet(todo) = {Task} \cup TreeSet(Tail(todo))
  BY TreeRunning
<1>3. todo' \in Seq(TreeTasks) /\ TreeSet(todo') = TreeSet(more) \cup TreeSet(Tail(todo))
  <2>1. more \o Tail(todo) \in Seq(TreeTasks) /\ TreeSet(more \o Tail(todo)) = TreeSet(more) \cup TreeSet(Tail(todo))
    <3>1. PICK rest : rest = Tail(todo)
      OBVIOUS
    <3>2. rest \in Seq(TreeTasks)
      BY <1>2, <3>1
    <3>3. more \o rest \in Seq(TreeTasks) /\ TreeSet(more \o rest) = TreeSet(more) \cup TreeSet(rest)
      BY <3>2, TreeJoinedSet
    <3> QED
      BY <3>1, <3>3
  <2> QED
    BY <1>1, <2>1
<1>4. status \in {"capturing", "verifying"}
  BY DEF TreeInv, TreeTyped, TreeReopening, Running
<1>5. TreePlaced' /\ TreeOpened' /\ TreeScanning' /\ TreeRereading'
  BY <1>1 DEF TreePlaced, TreeOpened, TreeScanning, TreeRereading, TreeNoding, TreeReading,
         TreeLinking, Start
<1>6. TreeSealed'
  BY <1>1, TreeSealedStays DEF fs
<1>7. TreeVerified' /\ TreeReopening'
  BY <1>1, <1>4 DEF TreeVerified, TreeReopening
<1>8. /\ asked = << >> \/ step \notin {"after", "final"}
      /\ step \notin {"before", "capture"}
  BY DEF TreeInv, TreeCalling, Running
<1>9. TreeCalling'
  BY <1>1, <1>8 DEF TreeInv, TreeCalling, UsesGit
<1>10. TreeAccepted'
  BY <1>1, TreeAcceptedStays
<1>11. TreeMoment(TreeNow)' /\ TreeTimed'
  BY <1>1 DEF TreeInv, TreeTyped, TreeTimed, TreeNow
<1> QED
  BY <1>1, <1>2, <1>3, <1>4, <1>5, <1>6, <1>7, <1>8, <1>9, <1>10, <1>11

\* What a task of the verification has to show.
LEMMA TreeFinishVerifying ==
  ASSUME TreeInv, Running, status = "verifying", NEW more \in Seq(TreeTasks), Finish(more), UNCHANGED <<fs, callerVars>>,
         \A t \in TreeSet(more) : Task.do = "structure" /\ t.do = "structure",
         \A p \in DOMAIN nodes' : /\ p \in DOMAIN snap.nodes /\ nodes'[p] = snap.nodes[p]
                                  /\ p \in NodeFiles(snap) => TreeAgain(p),
         Task.do = "node" /\ Task.path \in NodeFiles(snap) => TreeAgain(Task.path),
         Task.do = "list" =>
           \A p \in NodeFiles(snap) : Up(p) = Task.path /\ TreeListed(snap.dirs, Up(p)) /\ TreeStands(p) =>
             TreeChild(snap.dirs, p),
         \A d \in DOMAIN snap.structure :
           \/ TreePending(d) => StructureTask \in TreeSet(Tail(todo)) \/ TreeWaits(Tail(todo), "structure", d)
                                \/ \E t \in TreeSet(more) : t.do = "structure" /\ t.path = d
           \/ atSeal.stamp[snap.structure[d].ino] = snap.structure[d].stamp /\ ~ TreeGone(d)
  PROVE  TreeVerifying' /\ TreeAnswered' /\ TreeFirst(todo', {"structure"})
<1>1. /\ todo' \in Seq(TreeTasks) /\ TreeSet(todo') = TreeSet(more) \cup TreeSet(Tail(todo))
      /\ TreeSet(todo) = {Task} \cup TreeSet(Tail(todo)) /\ todo' = more \o Tail(todo)
      /\ UNCHANGED <<snap, status, atSeal, entries, stamp, data, clock, mode, step, asked, files>>
      /\ asked = << >> \/ step \notin {"after", "final"}
  BY TreeFinished
<1>2. todo \in Seq(TreeTasks) /\ todo # << >> /\ Tail(todo) \in Seq(TreeTasks)
      /\ TreeFirst(todo, {"structure", "list"}) /\ TreeFirst(todo, {"structure"})
  BY TreeRunning DEF Running, TreeInv, TreeTyped, TreeVerifying
<1>3. ASSUME NEW kinds, TreeFirst(todo, kinds), "structure" \in kinds
      PROVE  TreeFirst(todo', kinds)
  <2>1. TreeFirst(Tail(todo), kinds)
    BY <1>2, <1>3, TreeFirstRest
  <2>2. \A t \in TreeSet(more) : t.do \in kinds
    BY <1>3
  <2> QED
    BY <1>1, <1>2, <2>1, <2>2, TreeFirstJoined
<1>4. TreeFirst(todo', {"structure", "list"}) /\ TreeFirst(todo', {"structure"})
  BY <1>2, <1>3
<1>5. \A p : /\ TreeWaits(todo, "node", p) => (TreeWaits(todo, "node", p))' \/ (Task.do = "node" /\ Task.path = p)
             /\ TreeWaits(todo, "list", p) => (TreeWaits(todo, "list", p))' \/ (Task.do = "list" /\ Task.path = p)
  BY <1>1 DEF TreeWaits
<1>6. \A d \in DOMAIN snap.structure :
        \/ TreePending(d) => TreePending(d)'
        \/ atSeal.stamp[snap.structure[d].ino] = snap.structure[d].stamp /\ ~ TreeGone(d)
  BY <1>1 DEF TreePending, TreeWaits
<1>7. \A t \in TreeSet(todo') : /\ t.do = "node" => t.path \in DOMAIN snap.nodes /\ t.walk = FALSE
                                /\ t.do = "list" => t.path \in DOMAIN snap.dirs
  BY <1>1 DEF TreeInv, TreeVerifying
<1>8. \A p \in NodeFiles(snap) : TreeAgain(p) \/ (TreeWaits(todo, "node", p))'
  <2> SUFFICES ASSUME NEW p \in NodeFiles(snap) PROVE TreeAgain(p) \/ (TreeWaits(todo, "node", p))'
    OBVIOUS
  <2>1. TreeAgain(p) \/ TreeWaits(todo, "node", p)
    BY DEF TreeInv, TreeVerifying
  <2> QED
    BY <1>5, <2>1
<1>9. \A p \in NodeFiles(snap) : TreeRelisted(p)'
  <2> SUFFICES ASSUME NEW p \in NodeFiles(snap),
                      TreeListed(snap.dirs, Up(p)), ~ TreeChild(snap.dirs, p), TreeStands(p)
               PROVE  (TreeWaits(todo, "list", Up(p)))'
    BY <1>1 DEF TreeRelisted, TreeStands
  <2>1. TreeWaits(todo, "list", Up(p))
    BY DEF TreeInv, TreeVerifying, TreeRelisted
  <2> QED
    BY <1>5, <2>1
<1>10. \A d \in DOMAIN snap.structure :
         atSeal.stamp[snap.structure[d].ino] = snap.structure[d].stamp \/ TreePending(d)'
  BY <1>6 DEF TreeInv, TreeVerifying
<1>11. TreeVerifying'
  BY <1>1, <1>4, <1>7, <1>8, <1>9, <1>10 DEF TreeVerifying, TreeAgain
<1>12. TreeAnswered'
  <2> SUFFICES ASSUME mode = "git" PROVE TreeAnswered'
    BY <1>1 DEF TreeAnswered
  <2>1. step = "after" => asked = << >>
    BY <1>1
  <2>2. step = "final" => TreeListing \/ \E d \in DOMAIN snap.structure : TreePending(d)' /\ TreeGone(d)
    BY <1>6 DEF TreeInv, TreeAnswered
  <2>3. TreeListing' <=> TreeListing
    BY <1>1 DEF TreeListing, deleted_files, ls_files, InScope
  <2>4. \A d : TreeGone(d)' <=> TreeGone(d)
    BY <1>1 DEF TreeGone
  <2> QED
    BY <1>1, <2>1, <2>2, <2>3, <2>4 DEF TreeAnswered
<1> QED
  BY <1>4, <1>11, <1>12

\* What a task of the capture has to show.
LEMMA TreeFinishCapturing ==
  ASSUME TreeInv, Running, status = "capturing", NEW more \in Seq(TreeTasks), Finish(more), UNCHANGED <<fs, callerVars>>,
         Task.do # "structure", Top \in DOMAIN structure => Top \in DOMAIN structure' \/ mode # "git",
         \A t \in TreeSet(more) : t.do \in {"node", "list"},
         TreeTrue(nodes', dirs', absences', structure', TreeNow, todo),
         TreeWalked(nodes', dirs', todo'), TreeOnlyChildren(nodes', dirs', todo'),
         \A p \in DOMAIN nodes : p \in DOMAIN nodes' /\ nodes'[p].kind = nodes[p].kind,
         \A a \in absences : \E b \in absences' : b[1] = a[1],
         Task.do = "node" => Task.path \in DOMAIN nodes',
         Task.do = "absent" => \E a \in absences' : a[1] = Task.path,
         \A t \in TreeSet(more) : t.do = "list" => t.path \in DOMAIN nodes' /\ nodes'[t.path].kind = "directory"
  PROVE  TreeCapturing' /\ TreeFirst(todo', {"structure"}) /\ \A t \in TreeSet(todo') : t.do # "structure"
<1>1. /\ todo' \in Seq(TreeTasks) /\ TreeSet(todo') = TreeSet(more) \cup TreeSet(Tail(todo))
      /\ TreeSet(todo) = {Task} \cup TreeSet(Tail(todo))
      /\ UNCHANGED <<snap, status, atSeal, entries, stamp, data, clock, mode, step, asked, files>>
  BY TreeFinished
<1>2. \A t \in TreeSet(todo) : t.do # "structure"
  <2>1. Head(todo).do \notin {"structure"} /\ todo \in Seq(TreeTasks) /\ todo # << >> /\ TreeFirst(todo, {"structure"})
    BY DEF TreeInv, TreeTyped, Task, Running
  <2> QED
    BY <2>1, TreeFirstRest
<1>3. \A t \in TreeSet(todo') : t.do # "structure"
  BY <1>1, <1>2
<1>4. TreeFirst(todo', {"structure"})
  BY <1>1, <1>3, TreeFirstAlone
<1>5. TreeTrue(nodes, dirs, absences, structure, TreeNow, todo)'
  <2>1. TreeCovered(structure, TreeNow, todo)'
    BY <1>1, <1>2 DEF TreeTrue, TreeCovered, TreeNow, TreeRootStill
  <2> QED
    BY <1>1, <2>1 DEF TreeTrue, TreeNow
<1>6. \A t \in TreeSet(todo') :
           /\ t.do = "list" /\ t.path # Top => t.path \in DOMAIN nodes' /\ nodes'[t.path].kind = "directory"
           /\ t.do = "drop" => mode = "archive"
  <2>1. \A t \in TreeSet(todo) :
           /\ t.do = "list" /\ t.path # Top => t.path \in DOMAIN nodes /\ nodes[t.path].kind = "directory"
           /\ t.do = "drop" => mode = "archive"
    BY DEF TreeInv, TreeCapturing
  <2>2. \A t \in TreeSet(more) : t.do # "drop"
    OBVIOUS
  <2> QED
    BY <1>1, <2>1, <2>2
<1>7. step = "seal" => (TreeAsked(nodes, absences, structure, todo))'
  <2> SUFFICES ASSUME step = "seal", mode = "git" PROVE (TreeAsked(nodes, absences, structure, todo))'
    BY <1>1 DEF TreeAsked
  <2>1. TreeAsked(nodes, absences, structure, todo)
    BY DEF TreeInv, TreeCapturing
  <2>2. \A p \in files.present : p \in DOMAIN nodes' \/ (TreeWaits(todo, "node", p))'
    BY <1>1, <2>1 DEF TreeAsked, TreeWaits
  <2>3. \A p \in files.deleted : (\E a \in absences' : a[1] = p) \/ (TreeWaits(todo, "absent", p))'
    BY <1>1, <2>1 DEF TreeAsked, TreeWaits
  <2>4. Top \in DOMAIN structure'
    BY <1>2, <2>1 DEF TreeAsked, StructureTask
  <2> QED
    BY <1>1, <2>2, <2>3, <2>4 DEF TreeAsked
<1>8. (TreeOnlyChildren(nodes, dirs, todo))'
  BY <1>1 DEF TreeOnlyChildren
<1>9. \A i \in 2 .. Len(todo') : todo'[i].do # "structure"
  BY <1>1, <1>3 DEF TreeSet
<1> QED
  BY <1>1, <1>3, <1>4, <1>5, <1>6, <1>7, <1>8, <1>9 DEF TreeCapturing

\* A task that ends keeps the invariant if what was captured or verified stays so.
LEMMA TreeFinishKeeps ==
  ASSUME TreeInv, Running, NEW more \in Seq(TreeTasks), Finish(more), UNCHANGED <<fs, callerVars>>, status # "reopening",
         \A t \in TreeSet(more) : t.do = "structure" => (t.path = Top <=> t.ino = Root),
         TreeMeant(nodes, dirs, absences, structure)', reads' \in 0 .. MaxReads,
         TreeFirst(todo, {"structure"})', TreeCapturing', TreeVerifying', TreeAnswered'
  PROVE  TreeInv'
<1>1. /\ todo' \in Seq(TreeTasks) /\ TreeSet(todo') = TreeSet(more) \cup TreeSet(Tail(todo))
      /\ TreeSet(todo) = {Task} \cup TreeSet(Tail(todo))
      /\ UNCHANGED <<snap, status, atSeal, entries, stamp, data, clock, mode, step, asked, files>>
      /\ TreePlaced' /\ TreeOpened' /\ TreeScanning' /\ TreeRereading' /\ TreeSealed' /\ TreeVerified'
      /\ TreeReopening' /\ TreeCalling' /\ TreeAccepted'
      /\ TreeMoment(TreeNow)' /\ TreeTimed'
  BY TreeFinished
<1>2. pc' = Start /\ Start \in TreePoints
  BY DEF Finish, TreePoints
<1>3. \A t \in TreeSet(todo') : t.do = "structure" => (t.path = Top <=> t.ino = Root)
  BY <1>1 DEF TreeInv, TreeTyped
<1>4. status' \in {"capturing", "verifying", "sealed", "reopening", "failed"}
  BY <1>1 DEF TreeInv, TreeTyped
<1>5. TreeTyped'
  BY <1>1, <1>2, <1>3, <1>4 DEF TreeTyped
<1> QED
  BY <1>1, <1>5 DEF TreeInv

\* A task that leaves nothing more to do.
LEMMA TreeNothingMore == << >> \in Seq(TreeTasks) /\ TreeSet(<< >>) = {}
BY TreeEmptySet

\* A directory of the snapshot is opened to be listed again.
LEMMA TreeOpenedKeeps ==
  ASSUME TreeAssumption, TreeInv, Running, Task.do = "list", status # "reopening",
         NEW i \in Directories, Verifying => i = snap.dirs[Task.path].ino, Opened(i), UNCHANGED callerVars
  PROVE  TreeInv'
<1>1. UNCHANGED <<fs, facts, reads>> /\ Task \in TreeSet(todo)
  BY TreeRunning DEF Opened
<1>2. reads \in 0 .. MaxReads /\ TreeMeant(nodes, dirs, absences, structure)
  BY DEF TreeInv, TreeTyped
<1>3. CASE Verifying /\ snap.dirs[Task.path].children = None
  <2>1. Finish(<< >>)
    BY <1>3 DEF Opened
  <2>2. \A p \in DOMAIN nodes' : /\ p \in DOMAIN snap.nodes /\ nodes'[p] = snap.nodes[p]
                                 /\ p \in NodeFiles(snap) => TreeAgain(p)
    BY <1>1, <1>3 DEF TreeInv, TreeVerifying, Verifying, facts
  <2>3. \A p \in NodeFiles(snap) : Up(p) = Task.path /\ TreeListed(snap.dirs, Up(p)) /\ TreeStands(p) =>
             TreeChild(snap.dirs, p)
    BY <1>3 DEF TreeListed
  <2>4. TreeSet(todo) = {Task} \cup TreeSet(Tail(todo))
    BY TreeRunning
  <2>5. \A d \in DOMAIN snap.structure :
           TreePending(d) => StructureTask \in TreeSet(Tail(todo)) \/ TreeWaits(Tail(todo), "structure", d)
    BY <2>4 DEF TreePending, TreeWaits, StructureTask
  <2>6. TreeVerifying' /\ TreeAnswered' /\ TreeFirst(todo', {"structure"})
    BY <1>1, <1>3, <2>1, <2>2, <2>3, <2>5, TreeNothingMore, TreeFinishVerifying DEF Verifying
  <2>7. TreeCapturing' /\ TreeMeant(nodes, dirs, absences, structure)' /\ reads' \in 0 .. MaxReads
    BY <1>1, <1>2, <1>3, <2>1 DEF TreeCapturing, Verifying, Finish, facts
  <2> QED
    BY <1>1, <2>1, <2>6, <2>7, TreeNothingMore, TreeFinishKeeps
<1>4. CASE ~ (Verifying /\ snap.dirs[Task.path].children = None)
  <2> DEFINE left == IF ~Verifying /\ structure # NoStructure THEN {} ELSE Names
  <2>1. To("scan", [NoReg EXCEPT !.ino = i, !.left = left])
    BY <1>4 DEF Opened
  <2>2. /\ pc' = "scan" /\ UNCHANGED <<snap, status, todo, atSeal>>
        /\ DOMAIN reg' = DOMAIN NoReg /\ reg'.ino = i /\ reg'.left = left /\ reg'.seen = {}
    BY <2>1 DEF To, NoReg
  <2>3. Task' = Task /\ Verifying' = Verifying
    BY <2>2 DEF Task, Verifying
  <2>4. TreeScanning'
    BY <2>2, <2>3 DEF TreeScanning
  <2>5. TreePlaced' /\ TreeOpened'
    BY <2>2, <2>3 DEF TreePlaced, TreeOpened, TreeNoding, TreeReading, TreeLinking
  <2>6. TreeRereading'
    <3> SUFFICES ASSUME Verifying PROVE TreeRereading'
      BY <2>2 DEF TreeRereading, Verifying
    <3>1. reg'.left = Names
      BY <2>2
    <3>2. \A p \in NodeFiles(snap) : Leaf(p) \in Names
      <4>1. \A p \in DOMAIN snap.nodes : p \in Paths
        BY DEF TreeInv, TreeSealed, Verifying, TreeLooking, TreeMeant, TreeNodesMeant
      <4> QED
        BY <4>1, TreeUps DEF NodeFiles
    <3>3. pc' \notin TreeReading \cup TreeLinking
      BY <2>2 DEF TreeReading, TreeLinking
    <3> QED
      BY <2>2, <2>3, <3>1, <3>2, <3>3 DEF TreeRereading
  <2>7. pc' \in TreePoints
    BY <2>2 DEF TreePoints
  <2> QED
    BY <1>1, <1>2, <2>2, <2>4, <2>5, <2>6, <2>7, TreeMoveKeeps
<1> QED
  BY <1>3, <1>4

\* A directory is opened to be listed (ListRoot, OpenListed).
LEMMA TreeListKeeps ==
  ASSUME TreeAssumption, TreeInv, ListRoot \/ OpenListed, UNCHANGED callerVars
  PROVE  TreeInv'
<1>1. CASE ListRoot
  <2>1. Running /\ pc = Start /\ Task.do = "list" /\ Task.path = Top /\ Opened(Root)
    BY <1>1 DEF ListRoot, Doing, At
  <2>2. status # "reopening" /\ Root \in Directories
    BY <2>1 DEF TreeInv, TreeReopening, TreeAssumption
  <2>3. Verifying => Root = snap.dirs[Task.path].ino
    BY <2>1 DEF TreeInv, TreeSealed, TreeLooking, Verifying, TreeMeant, TreeDirsMeant
  <2> QED
    BY <2>1, <2>2, <2>3, TreeOpenedKeeps
<1>2. CASE OpenListed /\ Here # None /\ Here = Expected(Task.path)
  <2>1. Running /\ pc = "listed" /\ Task.do = "list" /\ Opened(Here)
    BY <1>2 DEF OpenListed, Doing, At
  <2>2. Task.path # Top /\ Task \in TreeSet(todo)
    BY <2>1, TreeRunning DEF TreeInv, TreePlaced
  <2>3. status # "reopening"
    BY <2>1 DEF TreeInv, TreeReopening
  <2>4. CASE Verifying
    <3>1. Task.path \in DOMAIN snap.dirs /\ Here = snap.dirs[Task.path].ino
      BY <1>2, <2>1, <2>2, <2>4 DEF TreeInv, TreeVerifying, Expected, Verifying
    <3>2. Here \in Directories
      BY <2>4, <3>1 DEF TreeInv, TreeSealed, TreeLooking, Verifying, TreeMeant, TreeDirsMeant,
             TreeDirType
    <3>3. PICK i : i = Here
      OBVIOUS
    <3> QED
      BY <2>1, <2>3, <3>1, <3>2, <3>3, TreeOpenedKeeps
  <2>5. CASE ~Verifying
    <3>1. status = "capturing"
      <4>1. status # "sealed" /\ status # "failed"
        BY <2>1 DEF TreeInv, TreeReopening, Running
      <4> QED
        BY <2>3, <2>5, <4>1 DEF TreeInv, TreeTyped, Verifying
    <3>2. Task.path \in DOMAIN nodes /\ nodes[Task.path].kind = "directory" /\ Here = nodes[Task.path].ino
      BY <1>2, <2>1, <2>2, <2>5, <3>1 DEF TreeInv, TreeCapturing, Expected
    <3>3. Here \in Directories
      BY <3>2 DEF TreeInv, TreeTyped, TreeMeant, TreeNodesMeant, TreeNodeType, Directories
    <3>4. PICK i : i = Here
      OBVIOUS
    <3> QED
      BY <2>1, <2>3, <2>5, <3>3, <3>4, TreeOpenedKeeps
  <2> QED
    BY <2>4, <2>5
<1>3. CASE OpenListed /\ ~ (Here # None /\ Here = Expected(Task.path))
  BY <1>3, TreeFailKeeps DEF OpenListed, Doing, At
<1> QED
  BY <1>1, <1>2, <1>3

\* What follows the capture of a node.
LEMMA TreeAfter ==
  ASSUME TreeInv, Running, Task.do = "node", NEW node, node.kind = "directory" => Task.path \in TreeDirs
  PROVE  /\ After(node) \in Seq(TreeTasks)
         /\ \A t \in TreeSet(After(node)) : /\ t.do = "list" /\ t.path = Task.path /\ node.kind = "directory"
                                            /\ Task.walk # FALSE
<1>1. Task \in TreeNodeTasks
  BY TreeRunning
<1>2. CASE Task.walk = TRUE /\ node.kind = "directory"
  <2> DEFINE t == [Task EXCEPT !.do = "list"]
  <2>1. t \in TreeListTasks /\ t.do = "list" /\ t.path = Task.path
    BY <1>1, <1>2 DEF TreeNodeTasks, TreeListTasks
  <2>2. After(node) = <<t>>
    BY <1>2 DEF After
  <2>3. t \in TreeTasks
    BY <2>1 DEF TreeTasks
  <2>4. PICK k : k = t
    OBVIOUS
  <2>5. <<k>> \in Seq(TreeTasks) /\ TreeSet(<<k>>) = {k}
    BY <2>3, <2>4, TreeOneSet
  <2> QED
    BY <1>2, <2>1, <2>2, <2>4, <2>5
<1>3. CASE ~ (Task.walk = TRUE /\ node.kind = "directory")
  <2>1. After(node) = << >>
    BY <1>1, <1>3 DEF After, TreeNodeTasks
  <2> QED
    BY <2>1, TreeNothingMore
<1> QED
  BY <1>2, <1>3

\* No path is the top.
LEMMA TreeNotTop == ASSUME NEW p \in Paths PROVE p # Top
BY DEF Paths, Top

\* A session with tasks captures or verifies, if it does not reopen.
LEMMA TreeBusy == ASSUME TreeInv, Running, status # "reopening" PROVE status \in {"capturing", "verifying"}
BY DEF TreeInv, TreeTyped, TreeReopening, Running

\* A node that is known already (CachedNode).
LEMMA TreeCachedKeeps ==
  ASSUME TreeAssumption, TreeInv, CachedNode, UNCHANGED callerVars
  PROVE  TreeInv'
<1> DEFINE p == Task.path
<1>1. Running /\ pc = Start /\ Task.do = "node" /\ Known(p) /\ Finish(After(nodes[p])) /\ UNCHANGED <<fs, facts, reads>>
  BY DEF CachedNode, Doing, At
<1>2. status # "reopening" /\ p \in DOMAIN nodes /\ p \in Paths
  BY <1>1, TreeRunning DEF Known
<1>3. PICK node : node = nodes[p]
  OBVIOUS
<1>4. node.kind = "directory" => p \in TreeDirs /\ p \in DOMAIN dirs
  BY <1>2, <1>3 DEF TreeInv, TreeTyped, TreeMeant, TreeNodesMeant, TreeDirsMeant
<1>5. /\ After(node) \in Seq(TreeTasks)
      /\ \A t \in TreeSet(After(node)) : t.do = "list" /\ t.path = p /\ node.kind = "directory" /\ Task.walk # FALSE
  BY <1>1, <1>4, TreeAfter
<1>6. PICK more : more = After(node)
  OBVIOUS
<1>7. more \in Seq(TreeTasks) /\ Finish(more)
      /\ \A t \in TreeSet(more) : t.do = "list" /\ t.path = p /\ node.kind = "directory" /\ Task.walk # FALSE
  BY <1>1, <1>3, <1>5, <1>6
<1>8. /\ TreeSet(todo') = TreeSet(more) \cup TreeSet(Tail(todo)) /\ TreeSet(todo) = {Task} \cup TreeSet(Tail(todo))
      /\ status \in {"capturing", "verifying"} /\ Task \in TreeSet(todo)
      /\ UNCHANGED <<snap, status, atSeal, entries, stamp, data, clock, mode, step, asked, files>>
      /\ UNCHANGED <<nodes, dirs, absences, structure, reads>>
  BY <1>1, <1>2, <1>7, TreeFinished DEF facts
<1>9. reads \in 0 .. MaxReads /\ TreeMeant(nodes, dirs, absences, structure)
  BY DEF TreeInv, TreeTyped
<1>10. CASE status = "capturing"
  <2>1. TreeTrue(nodes', dirs', absences', structure', TreeNow, todo)
    BY <1>8, <1>10 DEF TreeInv, TreeCapturing
  <2>2. TreeWalked(nodes', dirs', todo')
    BY <1>1, <1>2, <1>8, <1>10 DEF TreeInv, TreeCapturing, TreeWalked, TreeWaits
  <2>3. p # Top
    BY <1>2, TreeNotTop
  <2>4. TreeOnlyChildren(nodes', dirs', todo')
    BY <1>7, <1>8, <1>10, <2>3 DEF TreeInv, TreeCapturing, TreeOnlyChildren
  <2>5. \A t \in TreeSet(more) : t.do \in {"node", "list"}
                                 /\ (t.do = "list" => t.path \in DOMAIN nodes' /\ nodes'[t.path].kind = "directory")
    BY <1>2, <1>3, <1>7, <1>8
  <2>6. TreeCapturing' /\ TreeFirst(todo', {"structure"})
    BY <1>1, <1>2, <1>7, <1>8, <1>10, <2>1, <2>2, <2>4, <2>5, TreeFinishCapturing
  <2>7. TreeVerifying' /\ TreeAnswered'
    <3>1. step \notin {"after", "final"} \/ asked = << >>
      BY <1>1, <1>2, <1>7, TreeFinished
    <3> QED
      BY <1>8, <1>10 DEF TreeVerifying, TreeAnswered
  <2> QED
    BY <1>1, <1>2, <1>7, <1>8, <1>9, <2>6, <2>7, TreeFinishKeeps
<1>11. CASE status = "verifying"
  <2>1. \A q \in DOMAIN nodes' : /\ q \in DOMAIN snap.nodes /\ nodes'[q] = snap.nodes[q]
                                 /\ q \in NodeFiles(snap) => TreeAgain(q)
    BY <1>8, <1>11 DEF TreeInv, TreeVerifying
  <2>2. Task.walk = FALSE
    BY <1>1, <1>8, <1>11 DEF TreeInv, TreeVerifying
  <2>3. \A t \in TreeSet(more) : Task.do = "structure" /\ t.do = "structure"
    BY <1>7, <2>2
  <2>4. p \in NodeFiles(snap) => TreeAgain(p)
    BY <1>2, <1>8, <2>1
  <2>5. \A d \in DOMAIN snap.structure :
           TreePending(d) => StructureTask \in TreeSet(Tail(todo)) \/ TreeWaits(Tail(todo), "structure", d)
    BY <1>1, <1>8 DEF TreePending, TreeWaits, StructureTask
  <2>6. TreeVerifying' /\ TreeAnswered' /\ TreeFirst(todo', {"structure"})
    BY <1>1, <1>7, <1>11, <2>1, <2>3, <2>4, <2>5, TreeFinishVerifying
  <2>7. TreeCapturing'
    BY <1>8, <1>11 DEF TreeCapturing
  <2> QED
    BY <1>1, <1>2, <1>7, <1>8, <1>9, <2>6, <2>7, TreeFinishKeeps
<1> QED
  BY <1>8, <1>10, <1>11

\* A node that is recorded: what it says was seen while its inode had the stamp recorded, and,
\* in a verification, after the seal.
TreeSightOf(node) ==
  /\ node \in TreeNodeType /\ node.kind = Kind[node.ino] /\ node.bytes = Task.bytes
  /\ Up(Task.path) \in DOMAIN dirs /\ node.up = dirs[Up(Task.path)].ino
  /\ node.stamp <= stamp[node.ino]
  /\ node.kind # "directory" /\ stamp[node.ino] = node.stamp =>
       entries[node.up][Leaf(Task.path)] = node.ino /\ data[node.ino] = node.digest
  /\ Verifying /\ node.kind # "directory" =>
       /\ atSeal.stamp[node.ino] <= node.stamp
       /\ node.ino = snap.nodes[Task.path].ino /\ node.stamp = snap.nodes[Task.path].stamp
          /\ TreeListed(snap.dirs, Up(Task.path)) => TreeChild(snap.dirs, Task.path)
\* Directories are added, each where it is now, and none is listed by that.
TreeDirsGrow ==
  /\ TreeDirsMeant(dirs)'
  /\ \A e \in DOMAIN dirs : e \in DOMAIN dirs' /\ dirs'[e].ino = dirs[e].ino
  /\ \A e : TreeListed(dirs', e) <=> TreeListed(dirs, e)
  /\ \A e : TreeListed(dirs, e) => dirs'[e].children = dirs[e].children
  /\ \A e \in DOMAIN dirs' : e \in DOMAIN dirs \/ Resolve(entries, e) = dirs'[e].ino

\* A node is compared with what is known of it, and recorded (Record).
LEMMA TreeRecordKeeps ==
  ASSUME TreeAssumption, TreeInv, Running, Task.do = "node", status # "reopening", NEW node, TreeSightOf(node), Record(node),
         UNCHANGED callerVars,
         status' # "failed" => TreeDirsGrow,
         status' = "failed" => UNCHANGED dirs,
         status' # "failed" /\ node.kind = "directory" =>
           Task.path \in DOMAIN dirs' /\ dirs'[Task.path].ino = node.ino /\ Up(Task.path) = Top
  PROVE  TreeInv'
<1> DEFINE p == Task.path
           recorded == /\ p \in DOMAIN nodes => [nodes[p] EXCEPT !.bytes = node.bytes] = node
                       /\ Verifying => snap.nodes[p] = node
<1>1. CASE ~ recorded
  BY <1>1, TreeFailKeeps DEF Record
<1>2. CASE recorded
  <2>1. /\ nodes' = [y \in DOMAIN nodes \cup {p} |-> IF y = p THEN node ELSE nodes[y]]
        /\ Finish(After(node)) /\ UNCHANGED <<fs, absences, structure, reads>>
    BY <1>2 DEF Record, Put
  <2>2. DOMAIN nodes' = DOMAIN nodes \cup {p} /\ nodes'[p] = node /\ \A q \in DOMAIN nodes : q # p => nodes'[q] = nodes[q]
    BY <2>1
  <2>3. status' = status /\ p \in Paths /\ Task \in TreeSet(todo)
    BY <2>1, TreeRunning DEF Finish
  <2>4. status # "failed"
    BY DEF TreeInv, TreeReopening, Running
  <2>5. TreeDirsGrow /\ (node.kind = "directory" => p \in DOMAIN dirs' /\ dirs'[p].ino = node.ino /\ Up(p) = Top)
    BY <2>3, <2>4
  <2>6. node.kind = "directory" => p \in TreeDirs
    BY <2>5 DEF TreeDirsGrow, TreeDirsMeant
  <2>7. PICK more : more = After(node)
    OBVIOUS
  <2>8. more \in Seq(TreeTasks) /\ Finish(more)
        /\ \A t \in TreeSet(more) : t.do = "list" /\ t.path = p /\ node.kind = "directory" /\ Task.walk # FALSE
    BY <2>1, <2>6, <2>7, TreeAfter
  <2>9. /\ TreeSet(todo') = TreeSet(more) \cup TreeSet(Tail(todo)) /\ TreeSet(todo) = {Task} \cup TreeSet(Tail(todo))
        /\ status \in {"capturing", "verifying"}
        /\ UNCHANGED <<snap, status, atSeal, entries, stamp, data, clock, mode, step, asked, files>>
        /\ UNCHANGED <<absences, structure, reads>>
    BY <2>1, <2>8, TreeFinished
  <2>10. reads \in 0 .. MaxReads /\ TreeMeant(nodes, dirs, absences, structure)
    BY DEF TreeInv, TreeTyped
  <2>11. \A q \in DOMAIN nodes : nodes'[q].kind = nodes[q].kind
    <3>1. p \in DOMAIN nodes => nodes[p].kind = node.kind
      <4>1. p \in DOMAIN nodes => nodes[p] \in TreeNodeType
        BY <2>10 DEF TreeMeant, TreeNodesMeant
      <4> QED
        BY <1>2, <4>1 DEF TreeNodeType
    <3> QED
      BY <2>2, <3>1
  <2>12. TreeNodesMeant(nodes', dirs')
    <3>1. TreeNodesMeant(nodes, dirs')
      BY <2>5, <2>10, TreeNodesStay DEF TreeMeant, TreeDirsGrow
    <3>2. Up(p) \in DOMAIN dirs' /\ node.up = dirs'[Up(p)].ino /\ node \in TreeNodeType /\ node.kind = Kind[node.ino]
      BY <2>5 DEF TreeDirsGrow, TreeSightOf
    <3> QED
      BY <2>2, <2>3, <2>5, <3>1, <3>2 DEF TreeNodesMeant
  <2>13. TreeMeant(nodes, dirs, absences, structure)'
    BY <2>5, <2>9, <2>10, <2>12 DEF TreeMeant, TreeDirsGrow
  <2>14. CASE status = "capturing"
    <3>1. TreeTrue(nodes, dirs, absences, structure, TreeNow, todo)
      BY <2>14 DEF TreeInv, TreeCapturing
    <3>2. TreeSeen(nodes', structure, TreeNow)
      BY <2>2, <3>1 DEF TreeTrue, TreeSeen, TreeNow, TreeSightOf
    <3>3. TreeHeld(nodes', TreeNow)
      BY <2>2, <3>1 DEF TreeTrue, TreeHeld, TreeNow, TreeSightOf
    <3>4. TreeLed(dirs', structure, TreeNow)
      BY <2>5, <3>1 DEF TreeTrue, TreeLed, TreeNow, TreeDirsGrow
    <3>5. TreeTrue(nodes', dirs', absences', structure', TreeNow, todo)
      BY <2>9, <3>1, <3>2, <3>3, <3>4 DEF TreeTrue
    <3>6. TreeWalked(nodes', dirs', todo')
      <4>1. TreeWalked(nodes, dirs, todo)
        BY <2>14 DEF TreeInv, TreeCapturing
      <4>2. \A q : TreeWaits(todo, "node", q) => q = p \/ TreeWaits(todo', "node", q)
        BY <2>9 DEF TreeWaits
      <4> SUFFICES ASSUME NEW d \in DOMAIN dirs', TreeListed(dirs', d), NEW n \in dirs'[d].children
                   PROVE  Append(d, n) \in DOMAIN nodes' \/ TreeWaits(todo', "node", Append(d, n))
        BY DEF TreeWalked
      <4>3. TreeListed(dirs, d) /\ d \in DOMAIN dirs /\ n \in dirs[d].children
        BY <2>5 DEF TreeDirsGrow, TreeListed
      <4>4. Append(d, n) \in DOMAIN nodes \/ TreeWaits(todo, "node", Append(d, n))
        BY <4>1, <4>3 DEF TreeWalked
      <4> QED
        BY <2>2, <4>2, <4>4
    <3>7. TreeOnlyChildren(nodes', dirs', todo')
      <4>1. TreeOnlyChildren(nodes, dirs, todo)
        BY <2>14 DEF TreeInv, TreeCapturing
      <4>2. \A q : TreeChild(dirs, q) => TreeChild(dirs', q)
        BY <2>5 DEF TreeDirsGrow, TreeChild
      <4>3. p # Top
        BY <2>3, TreeNotTop
      <4>4. CASE mode = "archive"
        <5>1. TreeChild(dirs, p)
          BY <2>3, <4>1, <4>4 DEF TreeOnlyChildren
        <5>2. \A q \in DOMAIN nodes' : TreeChild(dirs', q)
          BY <2>2, <4>1, <4>2, <4>4, <5>1 DEF TreeOnlyChildren
        <5>3. \A t \in TreeSet(todo') : t.do = "node" => TreeChild(dirs', t.path)
          BY <2>8, <2>9, <4>1, <4>2, <4>4 DEF TreeOnlyChildren
        <5> QED
          BY <4>4, <5>2, <5>3 DEF TreeOnlyChildren
      <4>5. CASE mode # "archive"
        <5>1. ~ TreeListed(dirs', Top)
          BY <2>5, <4>1, <4>5 DEF TreeOnlyChildren, TreeDirsGrow
        <5>2. \A t \in TreeSet(todo') : t.do = "list" => t.path # Top
          BY <2>8, <2>9, <4>1, <4>3, <4>5 DEF TreeOnlyChildren
        <5> QED
          BY <4>5, <5>1, <5>2 DEF TreeOnlyChildren
      <4> QED
        BY <4>4, <4>5
    <3>8. \A t \in TreeSet(more) : t.do \in {"node", "list"}
                                   /\ (t.do = "list" => t.path \in DOMAIN nodes' /\ nodes'[t.path].kind = "directory")
      BY <2>2, <2>8
    <3>9. TreeCapturing' /\ TreeFirst(todo', {"structure"})
      BY <2>1, <2>2, <2>8, <2>9, <2>11, <2>14, <3>5, <3>6, <3>7, <3>8, TreeFinishCapturing
    <3>10. TreeVerifying' /\ TreeAnswered'
      <4>1. step \notin {"after", "final"} \/ asked = << >>
        BY <2>1, <2>8, TreeFinished
      <4> QED
        BY <2>9, <2>14 DEF TreeVerifying, TreeAnswered
    <3> QED
      BY <2>1, <2>8, <2>9, <2>10, <2>13, <3>9, <3>10, TreeFinishKeeps
  <2>15. CASE status = "verifying"
    <3>1. p \in DOMAIN snap.nodes /\ snap.nodes[p] = node
      BY <1>2, <2>3, <2>15 DEF TreeInv, TreeVerifying, Verifying
    <3>2. p \in NodeFiles(snap) => TreeAgain(p)
      <4> SUFFICES ASSUME p \in NodeFiles(snap) PROVE TreeAgain(p)
        OBVIOUS
      <4>1. node.kind # "directory"
        BY <3>1 DEF NodeFiles
      <4>2. /\ atSeal.stamp[node.ino] <= node.stamp /\ (TreeListed(snap.dirs, Up(p)) => TreeChild(snap.dirs, p))
            /\ node.ino \in Inodes /\ node.stamp \in Nat
        BY <2>15, <3>1, <4>1 DEF TreeSightOf, Verifying, TreeNodeType, TreeMarks, TreeAssumption
      <4>3. node.stamp <= atSeal.stamp[node.ino] /\ atSeal.stamp[node.ino] \in Nat
        BY <2>15, <3>1, <4>2, TreeStamps DEF TreeInv, TreeSealed, TreeLooking, TreeTrue,
               TreeSeen
      <4> QED
        BY <3>1, <4>2, <4>3 DEF TreeAgain
    <3>3. \A q \in DOMAIN nodes' : /\ q \in DOMAIN snap.nodes /\ nodes'[q] = snap.nodes[q]
                                   /\ q \in NodeFiles(snap) => TreeAgain(q)
      BY <2>2, <2>15, <3>1, <3>2 DEF TreeInv, TreeVerifying
    <3>4. Task.walk = FALSE
      BY <2>3, <2>15 DEF TreeInv, TreeVerifying
    <3>5. \A t \in TreeSet(more) : Task.do = "structure" /\ t.do = "structure"
      BY <2>8, <3>4
    <3>6. \A d \in DOMAIN snap.structure :
             TreePending(d) => StructureTask \in TreeSet(Tail(todo)) \/ TreeWaits(Tail(todo), "structure", d)
      BY <2>9 DEF TreePending, TreeWaits, StructureTask
    <3>7. TreeVerifying' /\ TreeAnswered' /\ TreeFirst(todo', {"structure"})
      BY <2>1, <2>8, <2>15, <3>2, <3>3, <3>5, <3>6, TreeFinishVerifying
    <3>8. TreeCapturing'
      BY <2>9, <2>15 DEF TreeCapturing
    <3> QED
      BY <2>1, <2>8, <2>9, <2>10, <2>13, <3>7, <3>8, TreeFinishKeeps
  <2> QED
    BY <2>9, <2>14, <2>15
<1> QED
  BY <1>1, <1>2

\* Files and links are recorded with the directories as they were.
LEMMA TreeSightKeeps ==
  ASSUME TreeAssumption, TreeInv, pc \in {"chain", "relink"}, status # "reopening",
         NEW node, node = Frozen(Kind[reg.ino], reg.ino, reg.stamp, reg.seen), Record(node), UNCHANGED dirs, UNCHANGED callerVars
  PROVE  TreeInv'
<1>1. /\ Running /\ Task.path \in Paths /\ Up(Task.path) \in DOMAIN dirs /\ reg.up \in Directories
      /\ reg.up = dirs[Up(Task.path)].ino
  BY TreeHere DEF TreeNoding, TreeReading, TreeLinking
<1>2. Task.do = "node" /\ Task \in TreeNodeTasks
  BY <1>1, TreeRunning DEF TreeInv, TreePlaced, TreeNoding, TreeReading, TreeLinking
<1>3. /\ reg.ino \in Inodes /\ Kind[reg.ino] \in {"regular", "symlink"}
      /\ reg.stamp \in TreeMarks /\ reg.stamp <= stamp[reg.ino] /\ reg.seen \in TreeBytes
      /\ stamp[reg.ino] = reg.stamp => reg.seen = data[reg.ino] /\ entries[reg.up][Leaf(Task.path)] = reg.ino
  BY DEF TreeInv, TreeOpened, TreeReading, TreeLinking
<1>4. /\ node.kind = Kind[reg.ino] /\ node.ino = reg.ino /\ node.stamp = reg.stamp /\ node.digest = reg.seen
      /\ node.up = reg.up /\ node.bytes = Task.bytes
  BY DEF Frozen
<1>5. node \in TreeNodeType
  <2>1. Task.bytes \in BOOLEAN
    BY <1>2 DEF TreeNodeTasks
  <2> QED
    BY <1>1, <1>3, <2>1 DEF Frozen, TreeNodeType, TreeKinds
<1>6. Verifying =>
        /\ atSeal.stamp[node.ino] <= node.stamp
        /\ node.ino = snap.nodes[Task.path].ino /\ node.stamp = snap.nodes[Task.path].stamp
           /\ TreeListed(snap.dirs, Up(Task.path)) => TreeChild(snap.dirs, Task.path)
  BY <1>4 DEF TreeInv, TreeRereading, Verifying, TreeReading, TreeLinking
<1>7. TreeSightOf(node)
  BY <1>1, <1>3, <1>4, <1>5, <1>6 DEF TreeSightOf
<1>8. TreeDirsGrow
  BY DEF TreeInv, TreeTyped, TreeMeant, TreeDirsGrow, TreeListed
<1>9. node.kind # "directory"
  BY <1>3, <1>4
<1> QED
  BY <1>1, <1>2, <1>7, <1>8, <1>9, TreeRecordKeeps

\* The directory of a file that was read is still where it was (RecheckParents).
LEMMA TreeChainKeeps ==
  ASSUME TreeAssumption, TreeInv, RecheckParents, UNCHANGED callerVars
  PROVE  TreeInv'
<1>1. Running /\ pc = "chain" /\ status # "reopening"
  BY DEF RecheckParents, Doing, At
<1>2. Kind[reg.ino] = "regular"
  BY <1>1 DEF TreeInv, TreeOpened, TreeReading
<1>3. CASE Resolve(entries, Up(Task.path)) = reg.up
  <2>1. PICK node : node = Frozen("regular", reg.ino, reg.stamp, reg.seen)
    OBVIOUS
  <2>2. Record(node) /\ UNCHANGED dirs
    BY <1>3, <2>1 DEF RecheckParents
  <2>3. node = Frozen(Kind[reg.ino], reg.ino, reg.stamp, reg.seen)
    BY <1>2, <2>1
  <2> QED
    BY <1>1, <2>2, <2>3, TreeSightKeeps
<1>4. CASE Resolve(entries, Up(Task.path)) # reg.up
  BY <1>1, <1>4, TreeFailKeeps DEF RecheckParents
<1> QED
  BY <1>3, <1>4

\* A link that was read still has its stamp (RecheckLink).
LEMMA TreeRelinkKeeps ==
  ASSUME TreeAssumption, TreeInv, RecheckLink, UNCHANGED callerVars
  PROVE  TreeInv'
<1>1. Running /\ pc = "relink"
  BY DEF RecheckLink, Doing, At
<1>2. Kind[reg.ino] = "symlink" /\ status # "reopening"
  BY <1>1 DEF TreeInv, TreeOpened, TreeReopening, TreeLinking, TreeReading, Start
<1>3. CASE Here # None /\ Same(Here)
  <2>1. PICK node : node = Frozen("symlink", reg.ino, reg.stamp, reg.seen)
    OBVIOUS
  <2>2. Record(node) /\ UNCHANGED dirs
    BY <1>3, <2>1 DEF RecheckLink
  <2>3. node = Frozen(Kind[reg.ino], reg.ino, reg.stamp, reg.seen)
    BY <1>2, <2>1
  <2> QED
    BY <1>1, <1>2, <2>2, <2>3, TreeSightKeeps
<1>4. CASE ~ (Here # None /\ Same(Here))
  BY <1>1, <1>4, TreeFailKeeps DEF RecheckLink
<1> QED
  BY <1>3, <1>4

\* A directory is captured as a node (OpenDirectory).
LEMMA TreeDirectoryKeeps ==
  ASSUME TreeAssumption, TreeInv, OpenDirectory, UNCHANGED callerVars
  PROVE  TreeInv'
<1> DEFINE p == Task.path
           i == reg.ino
<1>1. Running /\ pc = "opendir" /\ Task.do = "node"
  BY DEF OpenDirectory, Doing, At
<1>2. status # "reopening" /\ i \in Directories /\ i # Root /\ i \in Inodes /\ Up(p) = Top
  BY <1>1 DEF TreeInv, TreePlaced, TreeReopening, TreeReading, Start, Directories
<1>3. CASE Here = i /\ CanMerge(p, i, None)
  <2>1. PICK node : node = Frozen("directory", i, 0, << >>)
    OBVIOUS
  <2>2. Record(node) /\ (IF status' = "failed" THEN UNCHANGED dirs ELSE Merge(p, i, None))
    BY <1>3, <2>1 DEF OpenDirectory
  <2>3. /\ p \in Paths /\ Up(p) \in DOMAIN dirs /\ reg.up \in Directories /\ reg.up = dirs[Up(p)].ino
        /\ Leaf(p) \in Names
    BY <1>1, TreeHere DEF TreeNoding
  <2>4. Task \in TreeNodeTasks
    BY <1>1, TreeRunning
  <2>5. /\ node.kind = "directory" /\ node.ino = i /\ node.stamp = 0 /\ node.digest = << >>
        /\ node.up = reg.up /\ node.bytes = Task.bytes
    BY <2>1 DEF Frozen
  <2>6. 0 \in TreeMarks /\ 0 <= stamp[i] /\ Kind[i] = "directory"
    <3>1. stamp[i] \in Nat
      BY <1>2, TreeStamps
    <3> QED
      BY <1>2, <3>1 DEF TreeMarks, TreeAssumption, Directories
  <2>7. node \in TreeNodeType
    <3>1. Task.bytes \in BOOLEAN
      BY <2>4 DEF TreeNodeTasks
    <3> QED
      BY <1>2, <2>1, <2>3, <2>6, <3>1 DEF Frozen, TreeNodeType, TreeKinds
  <2>8. TreeSightOf(node)
    BY <2>3, <2>5, <2>6, <2>7 DEF TreeSightOf
  <2>9. ASSUME status' # "failed"
        PROVE  TreeDirsGrow /\ p \in DOMAIN dirs' /\ dirs'[p].ino = i
    <3>1. CanMerge(p, i, None) /\ Merge(p, i, None) /\ None \in (SUBSET Names) \cup {None} /\ TreeDirsMeant(dirs)
      BY <1>3, <2>2, <2>9 DEF TreeInv, TreeTyped, TreeMeant
    <3>2. p \in TreeSingles /\ p \in TreeDirs
      BY <1>2, <2>3, TreeUps DEF TreeDirs
    <3>3. Resolve(entries, p) = i
      <4>1. reg.up = Root
        BY <1>2, <2>3, <3>1 DEF TreeDirsMeant
      <4>2. entries[Root][p[1]] = i
        BY <1>3, <3>2, <4>1, TreeSingle DEF Here
      <4>3. p # Top
        BY <2>3, TreeNotTop
      <4> QED
        BY <1>2, <3>2, <4>2, <4>3, TreeResolves DEF TreeInv, TreeTyped, TreeMoment, TreeNow
    <3> HIDE DEF p, i
    <3>4. /\ TreeDirsMeant(dirs') /\ DOMAIN dirs' = DOMAIN dirs \cup {p} /\ dirs'[p].ino = i
          /\ \A e \in DOMAIN dirs : dirs'[e].ino = dirs[e].ino
          /\ \A e : TreeListed(dirs, e) => TreeListed(dirs', e) /\ dirs'[e].children = dirs[e].children
          /\ \A e : TreeListed(dirs', e) <=> TreeListed(dirs, e)
      BY <1>2, <3>1, <3>2, TreeMerged
    <3> QED
      BY <3>3, <3>4 DEF TreeDirsGrow
  <2> HIDE DEF i
  <2> QED
    BY <1>1, <1>2, <2>2, <2>5, <2>8, <2>9, TreeRecordKeeps
<1>4. CASE ~ (Here = i /\ CanMerge(p, i, None))
  BY <1>1, <1>4, TreeFailKeeps DEF OpenDirectory
<1> QED
  BY <1>3, <1>4

\* The children of a listed directory become tasks.
LEMMA TreeChildTasks ==
  ASSUME TreeAssumption, NEW d \in TreeDirs, NEW kids \in SUBSET Names
  PROVE  /\ ChildTasks(d, kids) \in Seq(TreeTasks)
         /\ \A t \in TreeSet(ChildTasks(d, kids)) : t.do = "node" /\ \E n \in kids : t.path = Append(d, n)
         /\ \A n \in kids : TreeWaits(ChildTasks(d, kids), "node", Append(d, n))
<1> DEFINE names == { n \in Names : n \in kids }
           f == [n \in names |-> [do |-> "node", path |-> Append(d, n), bytes |-> FALSE, walk |-> TRUE]]
           tasks == { [do |-> "node", path |-> Append(d, n), bytes |-> FALSE, walk |-> TRUE] : n \in names }
<1>1. names = kids /\ IsFiniteSet(names) /\ DOMAIN f = names
  BY FS_Subset DEF TreeAssumption
<1>2. \A n \in names : f[n] \in TreeTasks
  <2>1. \A n \in names : Append(d, n) \in Paths
    BY TreeAppended
  <2> QED
    BY <2>1 DEF TreeTasks, TreeNodeTasks
<1>3. tasks = { f[n] : n \in DOMAIN f }
  BY <1>1
<1>4. InSomeOrder(tasks) \in Seq(TreeTasks) /\ TreeSet(InSomeOrder(tasks)) = tasks
  <2> HIDE DEF f, tasks
  <2> QED
    BY <1>1, <1>2, <1>3, TreeImage
<1>5. ChildTasks(d, kids) = InSomeOrder(tasks)
  BY DEF ChildTasks
<1>6. \A t \in tasks : t.do = "node" /\ \E n \in kids : t.path = Append(d, n)
  OBVIOUS
<1>7. \A n \in kids : \E t \in tasks : t.do = "node" /\ t.path = Append(d, n)
  <2> SUFFICES ASSUME NEW n \in kids PROVE \E t \in tasks : t.do = "node" /\ t.path = Append(d, n)
    OBVIOUS
  <2>1. [do |-> "node", path |-> Append(d, n), bytes |-> FALSE, walk |-> TRUE] \in tasks
    OBVIOUS
  <2> QED
    BY <2>1
<1> HIDE DEF tasks
<1> QED
  BY <1>4, <1>5, <1>6, <1>7 DEF TreeWaits

\* The child set is compared or recorded, and its members become tasks (EndList).
LEMMA TreeEndListKeeps ==
  ASSUME TreeAssumption, TreeInv, EndList, UNCHANGED callerVars
  PROVE  TreeInv'
<1> DEFINE d == Task.path
           names == IF ~Verifying /\ structure # NoStructure
                      THEN IF d \in DOMAIN structure THEN NamesOf(structure[d].children) ELSE None
                      ELSE NamesOf(reg.seen)
           good == names # None /\ (IF Verifying THEN snap.dirs[d].children = names
                                                 ELSE CanMerge(d, reg.ino, names))
<1>1. Running /\ pc = "scan" /\ Task.do = "list" /\ reg.left = {}
  BY DEF EndList, Doing, At
<1>2. CASE ~ good
  BY <1>1, <1>2, TreeFailKeeps DEF EndList
<1>3. CASE good
  <2>1. /\ IF Verifying THEN UNCHANGED dirs ELSE Merge(d, reg.ino, names)
        /\ Finish(IF Verifying THEN << >> ELSE ChildTasks(d, names))
        /\ UNCHANGED <<fs, nodes, absences, structure, reads>>
    BY <1>3 DEF EndList
  <2>2. d \in TreeDirs /\ Task \in TreeSet(todo) /\ status # "reopening" /\ reads \in 0 .. MaxReads
        /\ TreeSet(todo) = {Task} \cup TreeSet(Tail(todo)) /\ TreeMeant(nodes, dirs, absences, structure)
    BY <1>1, TreeRunning DEF TreeInv, TreeReopening, TreeReading, Start, TreeTyped
  <2>3. status \in {"capturing", "verifying"}
    BY <1>1, <2>2, TreeBusy
  <2>4. \A e \in DOMAIN snap.structure :
             TreePending(e) => StructureTask \in TreeSet(Tail(todo)) \/ TreeWaits(Tail(todo), "structure", e)
    BY <1>1, <2>2 DEF TreePending, TreeWaits, StructureTask
  <2>5. CASE status = "verifying"
    <3>1. Finish(<< >>) /\ UNCHANGED <<nodes, dirs, absences, structure, reads>>
      BY <2>1, <2>5 DEF Verifying
    <3>2. \A q \in DOMAIN nodes' : /\ q \in DOMAIN snap.nodes /\ nodes'[q] = snap.nodes[q]
                                   /\ q \in NodeFiles(snap) => TreeAgain(q)
      BY <2>5, <3>1 DEF TreeInv, TreeVerifying
    <3>3. \A q \in NodeFiles(snap) : Up(q) = d /\ TreeListed(snap.dirs, Up(q)) /\ TreeStands(q) =>
             TreeChild(snap.dirs, q)
      <4>1. snap.dirs[d].children = NamesOf(reg.seen)
        BY <1>3, <2>5 DEF Verifying
      <4>2. \A q \in NodeFiles(snap) : Up(q) = d /\ TreeStands(q) => Leaf(q) \in NamesOf(reg.seen)
        BY <1>1, <2>5 DEF TreeInv, TreeRereading
      <4> QED
        BY <4>1, <4>2 DEF TreeChild
    <3>4. TreeVerifying' /\ TreeAnswered' /\ TreeFirst(todo', {"structure"})
      BY <1>1, <2>1, <2>4, <2>5, <3>1, <3>2, <3>3, TreeNothingMore, TreeFinishVerifying
    <3>5. TreeCapturing' /\ TreeMeant(nodes, dirs, absences, structure)' /\ reads' \in 0 .. MaxReads
      BY <2>2, <2>5, <3>1 DEF TreeCapturing, Finish
    <3> QED
      BY <1>1, <2>1, <2>2, <3>1, <3>4, <3>5, TreeNothingMore, TreeFinishKeeps
  <2>6. CASE status = "capturing"
    <3>1. Merge(d, reg.ino, names) /\ Finish(ChildTasks(d, names)) /\ CanMerge(d, reg.ino, names) /\ names # None
      BY <1>3, <2>1, <2>6 DEF Verifying
    <3>2. names \subseteq Names
      <4>1. d \in DOMAIN structure => structure[d].children \in SUBSET (Names \X TreeKinds)
        BY <2>2 DEF TreeMeant, TreeLevelsMeant, TreeLevelType
      <4>2. \A c \in reg.seen : c \in Names \X TreeKinds \X Inodes
        BY <1>1 DEF TreeInv, TreeScanning
      <4>3. d \in DOMAIN structure => NamesOf(structure[d].children) \subseteq Names
        BY <4>1 DEF NamesOf
      <4>4. NamesOf(reg.seen) \subseteq Names
        BY <4>2 DEF NamesOf
      <4> QED
        BY <3>1, <4>3, <4>4
    <3>3. d \in DOMAIN dirs
      BY <1>1, <2>2, <2>6 DEF TreeInv, TreeCapturing, TreeMeant, TreeNodesMeant, TreeDirsMeant
    <3>4. reg.ino \in Directories
      BY <1>1 DEF TreeInv, TreeScanning
    <3>5. PICK kids : kids = names
      OBVIOUS
    <3>6. PICK i : i = reg.ino
      OBVIOUS
    <3>7. PICK dir : dir = d
      OBVIOUS
    <3>8. /\ kids \in SUBSET Names /\ kids # None /\ i \in Directories /\ dir \in TreeDirs /\ dir \in DOMAIN dirs
          /\ CanMerge(dir, i, kids) /\ Merge(dir, i, kids) /\ Finish(ChildTasks(dir, kids))
      BY <2>2, <3>1, <3>2, <3>3, <3>4, <3>5, <3>6, <3>7
    <3> HIDE DEF names, good
    <3>9. /\ TreeDirsMeant(dirs') /\ DOMAIN dirs' = DOMAIN dirs
          /\ \A e \in DOMAIN dirs : dirs'[e].ino = dirs[e].ino /\ (e # dir => dirs'[e] = dirs[e])
          /\ \A e : TreeListed(dirs, e) => TreeListed(dirs', e) /\ dirs'[e].children = dirs[e].children
          /\ \A e : e # dir => (TreeListed(dirs', e) <=> TreeListed(dirs, e))
          /\ dirs'[dir].children = kids
      <4>1. kids \in (SUBSET Names) \cup {None} /\ TreeDirsMeant(dirs)
        BY <2>2, <3>8 DEF TreeMeant
      <4> QED
        BY <3>8, <4>1, TreeMerged
    <3>10. PICK more : more = ChildTasks(dir, kids)
      OBVIOUS
    <3>11. /\ more \in Seq(TreeTasks) /\ Finish(more)
           /\ \A t \in TreeSet(more) : t.do = "node" /\ \E n \in kids : t.path = Append(dir, n)
           /\ \A n \in kids : TreeWaits(more, "node", Append(dir, n))
      BY <3>8, <3>10, TreeChildTasks
    <3>12. /\ TreeSet(todo') = TreeSet(more) \cup TreeSet(Tail(todo))
           /\ UNCHANGED <<snap, status, atSeal, entries, stamp, data, clock, mode, step, asked, files>>
           /\ UNCHANGED <<nodes, absences, structure, reads>>
           /\ step \notin {"after", "final"} \/ asked = << >>
      <4>1. UNCHANGED <<fs, callerVars>> /\ Running /\ status # "reopening" /\ UNCHANGED <<nodes, absences, structure, reads>>
        BY <1>1, <2>1, <2>2
      <4> QED
        BY <3>11, <4>1, TreeFinished
    <3>13. TreeMeant(nodes, dirs, absences, structure)'
      BY <2>2, <3>9, <3>12, TreeNodesStay DEF TreeMeant
    <3>14. TreeTrue(nodes', dirs', absences', structure', TreeNow, todo)
      <4>1. TreeTrue(nodes, dirs, absences, structure, TreeNow, todo)
        BY <2>6 DEF TreeInv, TreeCapturing
      <4>2. TreeLed(dirs', structure, TreeNow)
        BY <3>9, <4>1 DEF TreeTrue, TreeLed
      <4> QED
        BY <3>12, <4>1, <4>2 DEF TreeTrue
    <3>15. TreeWalked(nodes', dirs', todo')
      <4>1. TreeWalked(nodes, dirs, todo)
        BY <2>6 DEF TreeInv, TreeCapturing
      <4>2. \A q : TreeWaits(todo, "node", q) \/ TreeWaits(more, "node", q) => TreeWaits(todo', "node", q)
        BY <1>1, <2>2, <3>12 DEF TreeWaits
      <4> SUFFICES ASSUME NEW e \in DOMAIN dirs', TreeListed(dirs', e), NEW n \in dirs'[e].children
                   PROVE  Append(e, n) \in DOMAIN nodes' \/ TreeWaits(todo', "node", Append(e, n))
        BY DEF TreeWalked
      <4>3. CASE e = dir
        BY <3>9, <3>11, <4>2, <4>3
      <4>4. CASE e # dir
        BY <3>9, <3>12, <4>1, <4>2, <4>4 DEF TreeWalked
      <4> QED
        BY <4>3, <4>4
    <3>16. TreeOnlyChildren(nodes', dirs', todo')
      <4>1. TreeOnlyChildren(nodes, dirs, todo)
        BY <2>6 DEF TreeInv, TreeCapturing
      <4>2. \A q : TreeChild(dirs, q) => TreeChild(dirs', q)
        BY <3>9 DEF TreeChild
      <4>3. CASE mode = "archive"
        <5>1. \A t \in TreeSet(more) : TreeChild(dirs', t.path)
          <6> SUFFICES ASSUME NEW t \in TreeSet(more) PROVE TreeChild(dirs', t.path)
            OBVIOUS
          <6>1. PICK n \in kids : t.path = Append(dir, n)
            BY <3>11
          <6>2. Up(t.path) = dir /\ Leaf(t.path) = n
            BY <3>8, <6>1, TreeAppended
          <6> QED
            BY <3>8, <3>9, <6>2 DEF TreeChild, TreeListed
        <5>2. \A q \in DOMAIN nodes' : TreeChild(dirs', q)
          BY <3>12, <4>1, <4>2, <4>3 DEF TreeOnlyChildren
        <5>3. \A t \in TreeSet(todo') : t.do = "node" => TreeChild(dirs', t.path)
          BY <2>2, <3>12, <4>1, <4>2, <4>3, <5>1 DEF TreeOnlyChildren
        <5> QED
          BY <4>3, <5>2, <5>3 DEF TreeOnlyChildren
      <4>4. CASE mode # "archive"
        <5>1. dir # Top
          BY <1>1, <2>2, <3>7, <4>1, <4>4 DEF TreeOnlyChildren
        <5>2. ~ TreeListed(dirs', Top)
          BY <3>9, <4>1, <4>4, <5>1 DEF TreeOnlyChildren
        <5>3. \A t \in TreeSet(todo') : t.do = "list" => t.path # Top
          BY <2>2, <3>11, <3>12, <4>1, <4>4 DEF TreeOnlyChildren
        <5> QED
          BY <4>4, <5>2, <5>3 DEF TreeOnlyChildren
      <4> QED
        BY <4>3, <4>4
    <3>17. \A t \in TreeSet(more) : t.do = "node" /\ t.do \in {"node", "list"} /\ t.do # "structure" /\ t.do # "list"
      BY <3>11
    <3>18. TreeCapturing' /\ TreeFirst(todo', {"structure"})
      BY <1>1, <2>1, <2>6, <3>11, <3>12, <3>14, <3>15, <3>16, <3>17, TreeFinishCapturing
    <3>19. TreeVerifying' /\ TreeAnswered'
      BY <2>6, <3>12 DEF TreeVerifying, TreeAnswered
    <3> QED
      BY <1>1, <2>1, <2>2, <3>11, <3>12, <3>13, <3>17, <3>18, <3>19, TreeFinishKeeps
  <2> QED
    BY <2>3, <2>5, <2>6
<1> QED
  BY <1>2, <1>3

\* walk_archive_root forgets the structure (DropStructure).
LEMMA TreeDropKeeps ==
  ASSUME TreeAssumption, TreeInv, DropStructure, UNCHANGED callerVars
  PROVE  TreeInv'
<1>1. /\ Running /\ pc = Start /\ Task.do = "drop" /\ structure' = NoStructure /\ Finish(<< >>)
      /\ UNCHANGED <<fs, nodes, dirs, absences, reads>>
  BY DEF DropStructure, Doing, At
<1>2. status # "reopening" /\ reads \in 0 .. MaxReads /\ TreeMeant(nodes, dirs, absences, structure)
  BY <1>1 DEF TreeInv, TreeTyped, TreeReopening
<1>3. /\ TreeSet(todo') = TreeSet(Tail(todo)) /\ TreeSet(todo) = {Task} \cup TreeSet(Tail(todo)) /\ Task \in TreeSet(todo)
      /\ status \in {"capturing", "verifying"}
      /\ UNCHANGED <<snap, status, atSeal, entries, stamp, data, clock, mode, step, asked, files>>
      /\ step \notin {"after", "final"} \/ asked = << >>
  BY <1>1, <1>2, TreeNothingMore, TreeFinished
<1>4. DOMAIN structure' = {} /\ TreeMeant(nodes, dirs, absences, structure)'
  <2>1. DOMAIN structure' = {}
    BY <1>1 DEF NoStructure
  <2> QED
    BY <1>1, <1>2, <2>1 DEF TreeMeant, TreeLevelsMeant
<1>5. CASE status = "capturing"
  <2>1. TreeTrue(nodes, dirs, absences, structure, TreeNow, todo) /\ mode # "git"
    BY <1>1, <1>3, <1>5 DEF TreeInv, TreeCapturing
  <2>2. TreeTrue(nodes', dirs', absences', structure', TreeNow, todo)
    BY <1>1, <1>4, <2>1 DEF TreeTrue, TreeSeen, TreeLed, TreeCovered, TreeRootStill,
           TreeAbsent, TreeStill
  <2>3. TreeWalked(nodes', dirs', todo')
    BY <1>1, <1>3, <1>5 DEF TreeInv, TreeCapturing, TreeWalked, TreeWaits
  <2>4. TreeOnlyChildren(nodes', dirs', todo')
    BY <1>1, <1>3, <1>5 DEF TreeInv, TreeCapturing, TreeOnlyChildren
  <2>5. TreeCapturing' /\ TreeFirst(todo', {"structure"})
    BY <1>1, <1>5, <2>1, <2>2, <2>3, <2>4, TreeNothingMore, TreeFinishCapturing
  <2>6. TreeVerifying' /\ TreeAnswered'
    BY <1>3, <1>5 DEF TreeVerifying, TreeAnswered
  <2> QED
    BY <1>1, <1>2, <1>4, <2>5, <2>6, TreeNothingMore, TreeFinishKeeps
<1>6. CASE status = "verifying"
  <2>1. \A q \in DOMAIN nodes' : /\ q \in DOMAIN snap.nodes /\ nodes'[q] = snap.nodes[q]
                                 /\ q \in NodeFiles(snap) => TreeAgain(q)
    BY <1>1, <1>6 DEF TreeInv, TreeVerifying
  <2>2. \A e \in DOMAIN snap.structure :
             TreePending(e) => StructureTask \in TreeSet(Tail(todo)) \/ TreeWaits(Tail(todo), "structure", e)
    BY <1>1, <1>3 DEF TreePending, TreeWaits, StructureTask
  <2>3. TreeVerifying' /\ TreeAnswered' /\ TreeFirst(todo', {"structure"})
    BY <1>1, <1>6, <2>1, <2>2, TreeNothingMore, TreeFinishVerifying
  <2>4. TreeCapturing'
    BY <1>3, <1>6 DEF TreeCapturing
  <2> QED
    BY <1>1, <1>2, <1>4, <2>3, <2>4, TreeNothingMore, TreeFinishKeeps
<1> QED
  BY <1>3, <1>5, <1>6

\* There are finitely many triples of members of finite sets.
LEMMA TreeTriples ==
  ASSUME NEW one, NEW two, NEW three, IsFiniteSet(one), IsFiniteSet(two), IsFiniteSet(three)
  PROVE  IsFiniteSet(one \X two \X three)
<1> DEFINE pairs == (one \X two) \X three
           f == [c \in one \X two \X three |-> <<<<c[1], c[2]>>, c[3]>>]
<1>1. IsFiniteSet(one \X two)
  BY FS_Product
<1>2. IsFiniteSet(pairs)
  BY <1>1, FS_Product
<1>3. f \in [one \X two \X three -> pairs]
  OBVIOUS
<1>4. ASSUME NEW c \in one \X two \X three, NEW e \in one \X two \X three, f[c] = f[e] PROVE c = e
  <2>1. <<c[1], c[2]>> = <<e[1], e[2]>> /\ c[3] = e[3]
    BY <1>4
  <2>2. c[1] = e[1] /\ c[2] = e[2]
    BY <2>1
  <2> QED
    BY <2>1, <2>2
<1>5. f \in Injection(one \X two \X three, pairs)
  <2> HIDE DEF f, pairs
  <2> QED
    BY <1>3, <1>4 DEF Injection, IsInjective
<1> HIDE DEF f, pairs
<1> QED
  BY <1>2, <1>5, FS_Injection

\* The directories that a scan of the structure has found.
TreeBelow(seen) ==
  InSomeOrder({ [do |-> "structure", path |-> <<c[1]>>, ino |-> c[3]] : c \in { e \in seen : e[2] = "directory" } })

\* The tasks for the directories that a level has.
LEMMA TreeLevels ==
  ASSUME TreeAssumption, NEW seen, seen \subseteq Names \X TreeKinds \X Inodes, \A c \in seen : c[2] = Kind[c[3]],
         NEW more, more = TreeBelow(seen)
  PROVE  /\ more \in Seq(TreeTasks)
         /\ \A t \in TreeSet(more) : /\ t.do = "structure" /\ t.path # Top
                                     /\ \E c \in seen : c[2] = "directory" /\ t.path = <<c[1]>> /\ t.ino = c[3]
         /\ \A c \in seen : c[2] = "directory" =>
              \E t \in TreeSet(more) : t.do = "structure" /\ t.path = <<c[1]>> /\ t.ino = c[3]
<1> DEFINE dirsOf == { e \in seen : e[2] = "directory" }
           f == [c \in dirsOf |-> [do |-> "structure", path |-> <<c[1]>>, ino |-> c[3]]]
           tasks == { [do |-> "structure", path |-> <<c[1]>>, ino |-> c[3]] : c \in dirsOf }
<1>1. IsFiniteSet(dirsOf) /\ DOMAIN f = dirsOf
  <2>1. IsFiniteSet(Names) /\ IsFiniteSet(Inodes) /\ IsFiniteSet(TreeKinds)
    <3>1. TreeKinds = {"regular"} \cup {"symlink"} \cup {"directory"}
      BY DEF TreeKinds
    <3>2. IsFiniteSet({"regular"}) /\ IsFiniteSet({"symlink"}) /\ IsFiniteSet({"directory"})
      BY FS_Singleton
    <3> QED
      BY <3>1, <3>2, FS_Union DEF TreeAssumption
  <2>3. IsFiniteSet(Names \X TreeKinds \X Inodes)
    BY <2>1, TreeTriples
  <2>4. dirsOf \subseteq Names \X TreeKinds \X Inodes
    OBVIOUS
  <2> HIDE DEF dirsOf
  <2>5. IsFiniteSet(dirsOf)
    BY <2>3, <2>4, FS_Subset
  <2> QED
    BY <2>5
<1>2. \A c \in dirsOf : f[c] \in TreeTasks /\ <<c[1]>> # Top
  <2> SUFFICES ASSUME NEW c \in dirsOf PROVE f[c] \in TreeTasks /\ <<c[1]>> # Top
    OBVIOUS
  <2>1. c[1] \in Names /\ c[3] \in Inodes /\ Kind[c[3]] = "directory"
    OBVIOUS
  <2>2. <<c[1]>> \in TreeSingles /\ c[3] \in Directories
    BY <2>1 DEF TreeSingles, Directories
  <2>3. <<c[1]>> \in TreeDirs /\ <<c[1]>> # Top
    BY <2>2, TreeSingle DEF TreeDirs
  <2> QED
    BY <2>2, <2>3 DEF TreeTasks, TreeLevelTasks
<1>3. tasks = { f[c] : c \in DOMAIN f }
  BY <1>1
<1>4. InSomeOrder(tasks) \in Seq(TreeTasks) /\ TreeSet(InSomeOrder(tasks)) = tasks
  <2> HIDE DEF f, tasks, dirsOf
  <2> QED
    BY <1>1, <1>2, <1>3, TreeImage
<1>5. \A t \in tasks : /\ t.do = "structure" /\ t.path # Top
                       /\ \E c \in seen : c[2] = "directory" /\ t.path = <<c[1]>> /\ t.ino = c[3]
  <2> SUFFICES ASSUME NEW c \in dirsOf, NEW t, t = [do |-> "structure", path |-> <<c[1]>>, ino |-> c[3]]
               PROVE  /\ t.do = "structure" /\ t.path # Top
                      /\ \E e \in seen : e[2] = "directory" /\ t.path = <<e[1]>> /\ t.ino = e[3]
    OBVIOUS
  <2>1. t.do = "structure" /\ t.path = <<c[1]>> /\ t.ino = c[3] /\ c \in seen /\ c[2] = "directory"
    OBVIOUS
  <2>2. <<c[1]>> # Top
    BY <1>2
  <2> QED
    BY <2>1, <2>2
<1>6. \A c \in seen : c[2] = "directory" => \E t \in tasks : t.do = "structure" /\ t.path = <<c[1]>> /\ t.ino = c[3]
  <2> SUFFICES ASSUME NEW c \in seen, c[2] = "directory"
               PROVE  \E t \in tasks : t.do = "structure" /\ t.path = <<c[1]>> /\ t.ino = c[3]
    OBVIOUS
  <2>1. [do |-> "structure", path |-> <<c[1]>>, ino |-> c[3]] \in tasks
    OBVIOUS
  <2> QED
    BY <2>1
<1>7. more = InSomeOrder(tasks)
  BY DEF TreeBelow
<1> HIDE DEF tasks
<1> QED
  BY <1>4, <1>5, <1>6, <1>7

\* A level of the structure is compared or recorded (EndStructure).
LEMMA TreeLevelKeeps ==
  ASSUME TreeAssumption, TreeInv, EndStructure, UNCHANGED callerVars
  PROVE  TreeInv'
<1> DEFINE d == Task.path
           level == [ino |-> reg.ino, stamp |-> reg.stamp, children |-> { <<c[1], c[2]>> : c \in reg.seen }]
           good == /\ Same(reg.ino)
                   /\ Verifying => d \in DOMAIN snap.structure /\ snap.structure[d] = level
<1>1. Running /\ pc = "scan" /\ Task.do = "structure" /\ reg.left = {}
  BY DEF EndStructure, Doing, At
<1>2. CASE ~ good
  BY <1>1, <1>2, TreeFailKeeps DEF EndStructure
<1>3. CASE good
  <2>1. PICK more : more = TreeBelow(reg.seen)
    OBVIOUS
  <2>2. /\ structure' = IF Verifying THEN structure ELSE Put(structure, d, level)
        /\ Finish(more)
        /\ UNCHANGED <<fs, nodes, dirs, absences, reads>>
    BY <1>3, <2>1 DEF EndStructure, TreeBelow
  <2>3. /\ d \in TreeDirs /\ Task \in TreeSet(todo) /\ reads \in 0 .. MaxReads /\ Task \in TreeLevelTasks
        /\ TreeSet(todo) = {Task} \cup TreeSet(Tail(todo)) /\ TreeMeant(nodes, dirs, absences, structure)
        /\ status # "reopening"
    BY <1>1, TreeRunning DEF TreeInv, TreeReopening, TreeReading, Start, TreeTyped
  <2>4. status \in {"capturing", "verifying"}
    BY <1>1, <2>3, TreeBusy
  <2>5. /\ reg.ino \in Directories /\ (d = Top <=> reg.ino = Root) /\ reg.ino = Task.ino
        /\ reg.stamp \in TreeMarks /\ reg.stamp = stamp[reg.ino]
        /\ reg.seen = TreeEntries(reg.ino, Names)
        /\ \A c \in reg.seen : /\ c \in Names \X TreeKinds \X Inodes
                               /\ c[2] = Kind[c[3]]
                               /\ c[3] \in Directories => c[3] # Root /\ reg.ino = Root
    <3>1. Names \ reg.left = Names
      BY <1>1
    <3> QED
      BY <1>1, <1>3, <3>1 DEF TreeInv, TreeScanning, Same
  <2>6. PICK seen : seen = reg.seen
    OBVIOUS
  <2>7. /\ more \in Seq(TreeTasks)
        /\ \A t \in TreeSet(more) : /\ t.do = "structure" /\ t.path # Top
                                    /\ \E c \in seen : c[2] = "directory" /\ t.path = <<c[1]>> /\ t.ino = c[3]
        /\ \A c \in seen : c[2] = "directory" =>
             \E t \in TreeSet(more) : t.do = "structure" /\ t.path = <<c[1]>> /\ t.ino = c[3]
    <3>1. /\ seen \subseteq Names \X TreeKinds \X Inodes /\ \A c \in seen : c[2] = Kind[c[3]]
          /\ more = TreeBelow(seen)
      BY <2>1, <2>5, <2>6
    <3> QED
      BY <3>1, TreeLevels
  <2>8. \A c \in seen : c[2] = "directory" => c[3] \in Directories /\ c[3] # Root /\ reg.ino = Root /\ c[1] \in Names
    BY <2>5, <2>6 DEF Directories
  <2>9. \A t \in TreeSet(more) : t.do = "structure" /\ t.path # Top /\ t.ino # Root /\ d = Top
    BY <2>5, <2>7, <2>8
  <2>10. /\ level.ino = reg.ino /\ level.stamp = reg.stamp
         /\ \A c \in seen : <<c[1], c[2]>> \in level.children
         /\ \A e \in level.children : \E c \in seen : e = <<c[1], c[2]>>
         /\ level \in TreeLevelType
    BY <2>5, <2>6 DEF TreeLevelType
  <2> HIDE DEF level, good
  <2>11. /\ TreeSet(todo') = TreeSet(more) \cup TreeSet(Tail(todo)) /\ todo' = more \o Tail(todo)
         /\ UNCHANGED <<snap, status, atSeal, entries, stamp, data, clock, mode, step, asked, files>>
         /\ UNCHANGED <<nodes, dirs, absences, reads>>
         /\ step \notin {"after", "final"} \/ asked = << >>
    BY <1>1, <2>2, <2>3, <2>7, TreeFinished
  <2>12. CASE status = "verifying"
    <3>1. d \in DOMAIN snap.structure /\ snap.structure[d] = level /\ structure' = structure
      BY <1>3, <2>2, <2>12 DEF Verifying, good
    <3>2. \A q \in DOMAIN nodes' : /\ q \in DOMAIN snap.nodes /\ nodes'[q] = snap.nodes[q]
                                   /\ q \in NodeFiles(snap) => TreeAgain(q)
      BY <2>11, <2>12 DEF TreeInv, TreeVerifying
    <3>3. atSeal.stamp[snap.structure[d].ino] = snap.structure[d].stamp /\ ~ TreeGone(d)
      <4>1. stamp[reg.ino] = snap.structure[d].stamp /\ snap.structure[d].ino = reg.ino
        BY <2>5, <2>10, <3>1
      <4>2. snap.structure[d].stamp <= atSeal.stamp[reg.ino]
        BY <2>12, <3>1, <4>1 DEF TreeInv, TreeSealed, TreeLooking, TreeTrue, TreeSeen
      <4>3. reg.ino \in Inodes
        BY <2>5 DEF Directories
      <4>4. atSeal.stamp[reg.ino] \in Nat /\ stamp[reg.ino] \in Nat /\ atSeal.stamp[reg.ino] <= stamp[reg.ino]
        BY <2>12, <4>3, TreeStamps DEF TreeLooking
      <4> QED
        BY <4>1, <4>2, <4>4 DEF TreeGone
    <3>4. ASSUME NEW e \in DOMAIN snap.structure, e # d, TreePending(e)
          PROVE  StructureTask \in TreeSet(Tail(todo)) \/ TreeWaits(Tail(todo), "structure", e)
                 \/ \E t \in TreeSet(more) : t.do = "structure" /\ t.path = e
      <4>1. CASE TreeWaits(todo, "structure", e)
        BY <2>3, <3>4, <4>1 DEF TreeWaits
      <4>2. CASE StructureTask \in TreeSet(todo) /\ StructureTask # Task
        BY <2>3, <4>2
      <4>3. CASE StructureTask = Task
        <5>1. d = Top
          BY <4>3 DEF StructureTask
        <5>2. TreeLevelsMeant(snap.structure)
          BY <2>12 DEF TreeInv, TreeSealed, TreeLooking, TreeMeant
        <5>3. e # Top /\ e \in TreeDirs /\ <<e[1], "directory">> \in snap.structure[Top].children
          BY <3>1, <3>4, <5>1, <5>2 DEF TreeLevelsMeant
        <5>4. e = <<e[1]>>
          BY <5>3, TreeSingle DEF TreeDirs
        <5>5. PICK c \in seen : <<e[1], "directory">> = <<c[1], c[2]>>
          BY <2>10, <3>1, <5>1, <5>3
        <5>6. c[1] = e[1] /\ c[2] = "directory"
          BY <5>5
        <5> QED
          BY <2>7, <5>4, <5>6
      <4> QED
        BY <3>4, <4>1, <4>2, <4>3 DEF TreePending
    <3>5. \A e \in DOMAIN snap.structure :
            \/ TreePending(e) => StructureTask \in TreeSet(Tail(todo)) \/ TreeWaits(Tail(todo), "structure", e)
                                 \/ \E t \in TreeSet(more) : t.do = "structure" /\ t.path = e
            \/ atSeal.stamp[snap.structure[e].ino] = snap.structure[e].stamp /\ ~ TreeGone(e)
      BY <3>3, <3>4
    <3>6. TreeVerifying' /\ TreeAnswered' /\ TreeFirst(todo', {"structure"})
      BY <1>1, <2>2, <2>7, <2>12, <3>2, <3>5, TreeFinishVerifying
    <3>7. TreeCapturing' /\ TreeMeant(nodes, dirs, absences, structure)'
      BY <2>3, <2>11, <2>12, <3>1 DEF TreeCapturing
    <3> QED
      BY <1>1, <2>2, <2>3, <2>7, <2>9, <2>11, <3>6, <3>7, TreeFinishKeeps
  <2>13. CASE status = "capturing"
    <3>1. structure' = [y \in DOMAIN structure \cup {d} |-> IF y = d THEN level ELSE structure[y]]
      BY <2>2, <2>13 DEF Verifying, Put
    <3>2. DOMAIN structure' = DOMAIN structure \cup {d} /\ structure'[d] = level
          /\ \A e \in DOMAIN structure : e # d => structure'[e] = structure[e]
      BY <3>1
    <3>3. /\ DOMAIN nodes = {} /\ DOMAIN dirs = {Top} /\ absences = {}
          /\ d # Top => Top \in DOMAIN structure /\ <<d[1], "directory">> \in structure[Top].children
          /\ d = Top => DOMAIN structure = {}
      BY <1>1, <2>3, <2>13 DEF TreeInv, TreeCapturing
    <3>4. dirs[Top].ino = Root
      BY <2>3 DEF TreeMeant, TreeDirsMeant
    <3>5. TreeLevelsMeant(structure')
      <4>1. TreeLevelsMeant(structure)
        BY <2>3 DEF TreeMeant
      <4>2. CASE d = Top
        BY <2>3, <2>5, <2>10, <3>2, <3>3, <4>2 DEF TreeLevelsMeant
      <4>3. CASE d # Top
        BY <2>3, <2>5, <2>10, <3>2, <3>3, <4>1, <4>3 DEF TreeLevelsMeant
      <4> QED
        BY <4>2, <4>3
    <3>6. TreeMeant(nodes, dirs, absences, structure)'
      BY <2>3, <2>11, <3>5 DEF TreeMeant
    <3>7. TreeTrue(nodes, dirs, absences, structure, TreeNow, todo)
      BY <2>13 DEF TreeInv, TreeCapturing
    <3>8. stamp[reg.ino] <= stamp[reg.ino]
      <4>1. reg.ino \in Inodes
        BY <2>5 DEF Directories
      <4> QED
        BY <4>1, TreeStamps
    <3>9. TreeSeen(nodes, structure', TreeNow)
      BY <2>5, <2>10, <3>2, <3>7, <3>8 DEF TreeTrue, TreeSeen, TreeNow
    <3>10. TreeHeld(nodes, TreeNow) /\ TreeLed(dirs, structure', TreeNow) /\ TreeAbsent(absences, structure', TreeNow)
      BY <3>3, <3>4 DEF TreeHeld, TreeLed, TreeAbsent, Resolve
    <3>11. TreeCovered(structure', TreeNow, todo')
      <4> SUFFICES ASSUME TreeRootStill(structure', TreeNow) PROVE TreeCovered(structure', TreeNow, todo')
        BY DEF TreeCovered
      <4>1. CASE d = Top
        <5>1. reg.ino = Root /\ DOMAIN structure' = {Top}
          BY <2>5, <3>2, <3>3, <4>1
        <5>2. \A n \in Names : entries[Root][n] \in Directories =>
                \E t \in TreeSet(todo') : t.do = "structure" /\ t.path = <<n>>
          <6> SUFFICES ASSUME NEW n \in Names, entries[Root][n] \in Directories
                       PROVE  \E t \in TreeSet(todo') : t.do = "structure" /\ t.path = <<n>>
            OBVIOUS
          <6> DEFINE i == entries[Root][n]
          <6>1. Kind[i] = "directory" /\ i # None
            BY DEF Directories, TreeAssumption
          <6>2. <<n, Kind[i], i>> \in seen
            BY <2>5, <2>6, <5>1, <6>1 DEF TreeEntries
          <6> HIDE DEF i
          <6>3. PICK c \in seen : c = <<n, "directory", i>>
            BY <6>1, <6>2
          <6>4. c[1] = n /\ c[2] = "directory"
            BY <6>3
          <6> QED
            BY <2>7, <2>11, <6>4
        <5>3. \A t \in TreeSet(Tail(todo)) : t.do # "structure"
          <6>1. \A t \in TreeSet(todo) : t.do = "structure" => t.path = Top
            BY <2>13, <3>3, <4>1 DEF TreeInv, TreeCapturing
          <6>2. \A i \in 2 .. Len(todo) : todo[i].do = "structure" => todo[i].path # Top
            BY <2>13 DEF TreeInv, TreeCapturing
          <6>3. \A i \in 1 .. Len(Tail(todo)) : Tail(todo)[i] = todo[i + 1] /\ i + 1 \in 2 .. Len(todo)
            <7>1. todo \in Seq(TreeTasks) /\ todo # << >>
              BY <1>1, TreeRunning DEF Running
            <7> QED
              BY <7>1, TreeRestSet
          <6>4. \A i \in 2 .. Len(todo) : todo[i] \in TreeSet(todo)
            <7>1. Len(todo) \in Nat
              BY <1>1, TreeRunning, LenProperties
            <7> QED
              BY <7>1 DEF TreeSet
          <6> QED
            BY <6>1, <6>2, <6>3, <6>4 DEF TreeSet
        <5>4. ASSUME NEW t \in TreeSet(todo'), t.do = "structure", t.path # Top
              PROVE  t.ino = entries[Root][t.path[1]]
          <6>1. t \in TreeSet(more)
            BY <2>11, <5>3, <5>4
          <6>2. PICK c \in seen : c[2] = "directory" /\ t.path = <<c[1]>> /\ t.ino = c[3]
            BY <2>7, <6>1
          <6>3. PICK n \in Names : c = <<n, Kind[entries[Root][n]], entries[Root][n]>>
            BY <2>5, <2>6, <5>1 DEF TreeEntries
          <6> QED
            BY <6>2, <6>3
        <5> QED
          BY <5>2, <5>4 DEF TreeCovered, TreeNow
      <4>2. CASE d # Top
        <5>1. TreeRootStill(structure, TreeNow)
          BY <3>2, <3>3, <4>2 DEF TreeRootStill
        <5>2. /\ \A n \in Names : entries[Root][n] \in Directories =>
                   \/ <<n>> \in DOMAIN structure /\ structure[<<n>>].ino = entries[Root][n]
                   \/ \E t \in TreeSet(todo) : t.do = "structure" /\ t.path = <<n>>
              /\ \A t \in TreeSet(todo) : t.do = "structure" /\ t.path # Top => t.ino = entries[Root][t.path[1]]
          BY <3>7, <5>1 DEF TreeTrue, TreeCovered, TreeNow
        <5>3. TreeSet(more) = {}
          BY <2>9, <4>2
        <5>4. reg.ino = entries[Root][d[1]]
          BY <1>1, <2>3, <2>5, <4>2, <5>2
        <5>5. ASSUME NEW n \in Names, entries[Root][n] \in Directories
              PROVE  \/ <<n>> \in DOMAIN structure' /\ structure'[<<n>>].ino = entries[Root][n]
                     \/ \E t \in TreeSet(todo') : t.do = "structure" /\ t.path = <<n>>
          <6>1. CASE <<n>> = d
            <7>1. d[1] = n
              BY <6>1
            <7> QED
              BY <2>10, <3>2, <5>4, <6>1, <7>1
          <6>2. CASE <<n>> # d
            BY <2>3, <2>11, <3>2, <5>2, <5>5, <6>2
          <6> QED
            BY <6>1, <6>2
        <5> QED
          BY <2>3, <2>11, <5>2, <5>3, <5>5 DEF TreeCovered, TreeNow
      <4> QED
        BY <4>1, <4>2
    <3>12. (TreeTrue(nodes, dirs, absences, structure, TreeNow, todo))'
      BY <2>11, <3>9, <3>10, <3>11 DEF TreeTrue, TreeNow
    <3>13. (TreeWalked(nodes, dirs, todo))' /\ (TreeOnlyChildren(nodes, dirs, todo))'
      <4>1. TreeWalked(nodes, dirs, todo) /\ TreeOnlyChildren(nodes, dirs, todo)
        BY <2>13 DEF TreeInv, TreeCapturing
      <4>2. \A q : TreeWaits(todo, "node", q) => TreeWaits(todo', "node", q)
        BY <1>1, <2>3, <2>11 DEF TreeWaits
      <4>3. (TreeWalked(nodes, dirs, todo))'
        BY <2>11, <4>1, <4>2 DEF TreeWalked
      <4>4. \A t \in TreeSet(todo') : t \in TreeSet(todo) \/ t.do = "structure"
        BY <2>3, <2>9, <2>11
      <4>5. (TreeOnlyChildren(nodes, dirs, todo))'
        BY <2>11, <4>1, <4>4 DEF TreeOnlyChildren
      <4> QED
        BY <4>3, <4>5
    <3>14. step = "seal" => (TreeAsked(nodes, absences, structure, todo))'
      <4> SUFFICES ASSUME step = "seal", mode = "git" PROVE (TreeAsked(nodes, absences, structure, todo))'
        BY <2>11 DEF TreeAsked
      <4>1. TreeAsked(nodes, absences, structure, todo)
        BY <2>13 DEF TreeInv, TreeCapturing
      <4>2. \A p \in files.present : p \in DOMAIN nodes' \/ (TreeWaits(todo, "node", p))'
        BY <1>1, <2>3, <2>11, <4>1 DEF TreeAsked, TreeWaits
      <4>3. \A p \in files.deleted : (\E a \in absences' : a[1] = p) \/ (TreeWaits(todo, "absent", p))'
        BY <1>1, <2>3, <2>11, <4>1 DEF TreeAsked, TreeWaits
      <4>4. Top \in DOMAIN structure'
        BY <3>2, <3>3
      <4> QED
        BY <2>11, <4>2, <4>3, <4>4 DEF TreeAsked
    <3>15. \A t \in TreeSet(todo') :
           /\ t.do = "list" /\ t.path # Top => t.path \in DOMAIN nodes' /\ nodes'[t.path].kind = "directory"
           /\ t.do = "drop" => mode = "archive"
           /\ t.do = "structure" /\ t.path # Top =>
                Top \in DOMAIN structure' /\ <<t.path[1], "directory">> \in structure'[Top].children
           /\ t.do = "structure" => t.path # Top
      <4> SUFFICES ASSUME NEW t \in TreeSet(todo')
                   PROVE  /\ t.do = "list" /\ t.path # Top => t.path \in DOMAIN nodes' /\ nodes'[t.path].kind = "directory"
                          /\ t.do = "drop" => mode = "archive"
                          /\ t.do = "structure" /\ t.path # Top =>
                               Top \in DOMAIN structure' /\ <<t.path[1], "directory">> \in structure'[Top].children
                          /\ t.do = "structure" => t.path # Top
        OBVIOUS
      <4>1. CASE t \in TreeSet(more)
        <5>1. d = Top /\ t.do = "structure" /\ t.path # Top
          BY <2>9, <4>1
        <5>2. PICK c \in seen : c[2] = "directory" /\ t.path = <<c[1]>>
          BY <2>7, <4>1
        <5>3. t.path[1] = c[1] /\ <<c[1], "directory">> \in level.children
          BY <2>10, <5>2
        <5> QED
          BY <3>2, <5>1, <5>3
      <4>2. CASE t \in TreeSet(Tail(todo))
        <5>1. /\ t.do = "list" /\ t.path # Top => t.path \in DOMAIN nodes /\ nodes[t.path].kind = "directory"
              /\ t.do = "drop" => mode = "archive"
              /\ t.do = "structure" /\ t.path # Top =>
                   Top \in DOMAIN structure /\ <<t.path[1], "directory">> \in structure[Top].children
          BY <2>3, <2>13, <4>2 DEF TreeInv, TreeCapturing
        <5>2. t.do = "structure" => t.path # Top
          <6>1. \A i \in 2 .. Len(todo) : todo[i].do = "structure" => todo[i].path # Top
            BY <2>13 DEF TreeInv, TreeCapturing
          <6>2. todo \in Seq(TreeTasks) /\ todo # << >>
            BY <1>1, TreeRunning DEF Running
          <6>3. \A i \in 1 .. Len(Tail(todo)) : Tail(todo)[i] = todo[i + 1] /\ i + 1 \in 2 .. Len(todo)
            BY <6>2, TreeRestSet
          <6> QED
            BY <4>2, <6>1, <6>3 DEF TreeSet
        <5>3. t.do = "structure" => structure'[Top] = structure[Top] /\ Top \in DOMAIN structure'
          <6> SUFFICES ASSUME t.do = "structure" PROVE structure'[Top] = structure[Top] /\ Top \in DOMAIN structure'
            OBVIOUS
          <6>1. Top \in DOMAIN structure /\ d # Top
            BY <3>3, <5>1, <5>2
          <6> QED
            BY <3>2, <6>1
        <5> QED
          BY <2>11, <5>1, <5>2, <5>3
      <4> QED
        BY <2>11, <4>1, <4>2
    <3>16. \A i \in 2 .. Len(todo') : todo'[i].do = "structure" => todo'[i].path # Top
      <4>1. todo' \in Seq(TreeTasks)
        BY <1>1, <2>2, <2>3, <2>7, TreeFinished
      <4>2. \A i \in 2 .. Len(todo') : todo'[i] \in TreeSet(todo')
        <5>1. Len(todo') \in Nat
          BY <4>1, LenProperties
        <5> QED
          BY <5>1 DEF TreeSet
      <4> QED
        BY <3>15, <4>2
    <3>17. TreeCapturing'
      BY <2>11, <3>3, <3>12, <3>13, <3>14, <3>15, <3>16 DEF TreeCapturing
    <3>18. TreeVerifying' /\ TreeAnswered'
      BY <2>11, <2>13 DEF TreeVerifying, TreeAnswered
    <3>19. TreeFirst(todo', {"structure"})
      <4>1. PICK rest : rest = Tail(todo)
        OBVIOUS
      <4>2. rest \in Seq(TreeTasks) /\ TreeFirst(rest, {"structure"})
        <5>1. todo \in Seq(TreeTasks) /\ todo # << >> /\ TreeFirst(todo, {"structure"})
          BY <1>1, TreeRunning DEF Running, TreeInv, TreeTyped
        <5>2. TreeFirst(Tail(todo), {"structure"})
          BY <5>1, TreeFirstRest
        <5> QED
          BY <1>1, <4>1, <5>2, TreeRunning
      <4>3. \A t \in TreeSet(more) : t.do \in {"structure"}
        BY <2>7
      <4>4. TreeFirst(more \o rest, {"structure"})
        BY <2>7, <4>2, <4>3, TreeFirstJoined
      <4> QED
        BY <2>11, <4>1, <4>4
    <3> QED
      BY <1>1, <2>2, <2>3, <2>7, <2>9, <2>11, <3>6, <3>17, <3>18, <3>19, TreeFinishKeeps
  <2> QED
    BY <2>4, <2>12, <2>13
<1> QED
  BY <1>2, <1>3

\* An absence that is recorded: the path leads nowhere, as far as the directories are known.
LEMMA TreeProofKeeps ==
  ASSUME TreeAssumption, TreeInv, Running, Task.do = "absent", status # "reopening",
         NEW prefix \in Paths, Proof(prefix), UNCHANGED callerVars,
         status = "capturing" /\ TreeStill(structure, TreeNow) => Lookup(entries, Task.path) = None
  PROVE  TreeInv'
<1> DEFINE p == Task.path
<1>1. /\ p \in Paths /\ Task \in TreeSet(todo) /\ TreeSet(todo) = {Task} \cup TreeSet(Tail(todo))
      /\ reads \in 0 .. MaxReads /\ TreeMeant(nodes, dirs, absences, structure)
  BY TreeRunning DEF TreeInv, TreeTyped
<1>2. status \in {"capturing", "verifying"}
  BY TreeBusy
<1>3. CASE status = "verifying"
  <2>1. CASE <<p, prefix>> \notin snap.absences
    BY <1>3, <2>1, TreeFailKeeps DEF Proof, Verifying
  <2>2. CASE <<p, prefix>> \in snap.absences
    <3>1. Finish(<< >>) /\ UNCHANGED <<fs, facts, reads>>
      BY <1>3, <2>2 DEF Proof, Verifying
    <3>2. \A q \in DOMAIN nodes' : /\ q \in DOMAIN snap.nodes /\ nodes'[q] = snap.nodes[q]
                                   /\ q \in NodeFiles(snap) => TreeAgain(q)
      BY <1>3, <3>1 DEF TreeInv, TreeVerifying, facts
    <3>3. \A e \in DOMAIN snap.structure :
             TreePending(e) => StructureTask \in TreeSet(Tail(todo)) \/ TreeWaits(Tail(todo), "structure", e)
      BY <1>1 DEF TreePending, TreeWaits, StructureTask
    <3>4. TreeVerifying' /\ TreeAnswered' /\ TreeFirst(todo', {"structure"})
      BY <1>3, <3>1, <3>2, <3>3, TreeNothingMore, TreeFinishVerifying
    <3>5. TreeCapturing' /\ TreeMeant(nodes, dirs, absences, structure)' /\ reads' \in 0 .. MaxReads
      BY <1>1, <1>3, <3>1 DEF TreeCapturing, Finish, facts
    <3> QED
      BY <3>1, <3>4, <3>5, TreeNothingMore, TreeFinishKeeps
  <2> QED
    BY <2>1, <2>2
<1>4. CASE status = "capturing"
  <2>1. /\ absences' = { a \in absences : a[1] # p } \cup {<<p, prefix>>}
        /\ Finish(<< >>) /\ UNCHANGED <<fs, nodes, dirs, structure, reads>>
    BY <1>4 DEF Proof, Verifying
  <2>2. /\ TreeSet(todo') = TreeSet(Tail(todo))
        /\ UNCHANGED <<snap, status, atSeal, entries, stamp, data, clock, mode, step, asked, files>>
        /\ UNCHANGED <<nodes, dirs, structure, reads>>
        /\ step \notin {"after", "final"} \/ asked = << >>
    BY <2>1, TreeNothingMore, TreeFinished
  <2>3. absences' \subseteq Paths \X Paths
    BY <1>1, <2>1 DEF TreeMeant
  <2>4. TreeMeant(nodes, dirs, absences, structure)'
    BY <1>1, <2>2, <2>3 DEF TreeMeant
  <2>5. TreeTrue(nodes, dirs, absences, structure, TreeNow, todo)
    BY <1>4 DEF TreeInv, TreeCapturing
  <2>6. TreeAbsent(absences', structure, TreeNow)
    <3> SUFFICES ASSUME TreeStill(structure, TreeNow), NEW a \in absences' PROVE Lookup(entries, a[1]) = None
      BY DEF TreeAbsent, TreeNow
    <3>1. CASE a \in absences
      BY <2>5, <3>1 DEF TreeTrue, TreeAbsent, TreeNow
    <3>2. CASE a = <<p, prefix>>
      <4>1. a[1] = p
        BY <3>2
      <4> QED
        BY <1>4, <4>1
    <3> QED
      BY <2>1, <3>1, <3>2
  <2>7. TreeTrue(nodes', dirs', absences', structure', TreeNow, todo)
    BY <2>2, <2>5, <2>6 DEF TreeTrue
  <2>8. \A a \in absences : \E b \in absences' : b[1] = a[1]
    <3> SUFFICES ASSUME NEW a \in absences PROVE \E b \in absences' : b[1] = a[1]
      OBVIOUS
    <3>1. CASE a[1] = p
      <4>1. <<p, prefix>> \in absences' /\ <<p, prefix>>[1] = p
        BY <2>1
      <4> QED
        BY <3>1, <4>1
    <3>2. CASE a[1] # p
      BY <2>1, <3>2
    <3> QED
      BY <3>1, <3>2
  <2>9. \E a \in absences' : a[1] = p
    <3>1. <<p, prefix>> \in absences' /\ <<p, prefix>>[1] = p
      BY <2>1
    <3> QED
      BY <3>1
  <2>10. TreeWalked(nodes', dirs', todo') /\ TreeOnlyChildren(nodes', dirs', todo')
    <3>1. TreeWalked(nodes, dirs, todo) /\ TreeOnlyChildren(nodes, dirs, todo)
      BY <1>4 DEF TreeInv, TreeCapturing
    <3>2. \A q : TreeWaits(todo, "node", q) => TreeWaits(todo', "node", q)
      BY <1>1, <2>2 DEF TreeWaits
    <3>3. TreeWalked(nodes', dirs', todo')
      BY <2>2, <3>1, <3>2 DEF TreeWalked
    <3>4. TreeOnlyChildren(nodes', dirs', todo')
      BY <1>1, <2>2, <3>1 DEF TreeOnlyChildren
    <3> QED
      BY <3>3, <3>4
  <2>11. TreeCapturing' /\ TreeFirst(todo', {"structure"})
    BY <1>4, <2>1, <2>2, <2>7, <2>8, <2>9, <2>10, TreeNothingMore, TreeFinishCapturing
  <2>12. TreeVerifying' /\ TreeAnswered'
    BY <1>4, <2>2 DEF TreeVerifying, TreeAnswered
  <2> QED
    BY <1>1, <2>1, <2>2, <2>4, <2>11, <2>12, TreeNothingMore, TreeFinishKeeps
<1> QED
  BY <1>2, <1>3, <1>4

\* The first component of an absent path is looked up (StatAbsent).
LEMMA TreeAbsentKeeps ==
  ASSUME TreeAssumption, TreeInv, StatAbsent, UNCHANGED callerVars
  PROVE  TreeInv'
<1> DEFINE p == Task.path
           i == entries[Root][p[1]]
<1>1. Running /\ pc = Start /\ Task.do = "absent"
  BY DEF StatAbsent, Doing, At
<1>2. status # "reopening" /\ p \in Paths /\ TreeShaped(entries)
  BY <1>1, TreeRunning DEF TreeInv, TreeReopening, TreeTyped, TreeMoment, TreeNow
<1>3. CASE i = None
  <2>1. Proof(<<p[1]>>)
    BY <1>3 DEF StatAbsent
  <2>2. <<p[1]>> \in Paths
    BY <1>2, TreePaths DEF Paths
  <2>3. Lookup(entries, p) = None
    <3>1. CASE Up(p) = Top
      <4>1. Leaf(p) = p[1]
        BY <1>2, <3>1, TreePaths
      <4> QED
        BY <1>3, <3>1, <4>1 DEF Lookup, Resolve
    <3>2. CASE Up(p) # Top
      <4>1. Up(p) = <<p[1]>>
        BY <1>2, <3>2, TreePaths
      <4>2. Resolve(entries, Up(p)) = None
        BY <1>3, <3>2, <4>1 DEF Resolve, IsDirectory
      <4> QED
        BY <4>2 DEF Lookup
    <3> QED
      BY <3>1, <3>2
  <2>4. PICK prefix : prefix = <<p[1]>>
    OBVIOUS
  <2> QED
    BY <1>1, <1>2, <2>1, <2>2, <2>3, <2>4, TreeProofKeeps
<1>4. CASE i # None /\ (Len(p) = 1 \/ ~IsDirectory(i))
  BY <1>1, <1>4, TreeFailKeeps DEF StatAbsent
<1>5. CASE i # None /\ Len(p) # 1 /\ IsDirectory(i)
  <2>1. To("descend", NoReg) /\ UNCHANGED <<fs, facts, reads>>
    BY <1>5 DEF StatAbsent
  <2>2. /\ pc' = "descend" /\ reg' = NoReg /\ UNCHANGED <<snap, status, todo, atSeal>> /\ Task' = Task
    BY <2>1 DEF To, Task
  <2>3. Len(p) = 2
    BY <1>2, <1>5, TreePaths
  <2>4. TreePlaced' /\ TreeOpened' /\ TreeScanning' /\ TreeRereading'
    BY <1>1, <2>2, <2>3 DEF TreePlaced, TreeOpened, TreeScanning, TreeRereading, TreeNoding,
           TreeReading, TreeLinking
  <2>5. pc' \in TreePoints /\ reads' \in 0 .. MaxReads
    BY <2>1, <2>2 DEF TreePoints, TreeInv, TreeTyped
  <2> QED
    BY <1>1, <1>2, <2>1, <2>2, <2>4, <2>5, TreeMoveKeeps
<1> QED
  BY <1>3, <1>4, <1>5

\* The last component of an absent path is looked up (StatAbsentLeaf).
LEMMA TreeAbsentLeafKeeps ==
  ASSUME TreeAssumption, TreeInv, StatAbsentLeaf, UNCHANGED callerVars
  PROVE  TreeInv'
<1> DEFINE p == Task.path
<1>1. Running /\ pc = "leaf" /\ Task.do = "absent"
  BY DEF StatAbsentLeaf, Doing, At
<1>2. status # "reopening" /\ p \in Paths /\ Len(p) = 2
  BY <1>1, TreeRunning DEF TreeInv, TreeReopening, TreePlaced, Start, TreeReading
<1>3. CASE Here # None
  BY <1>1, <1>3, TreeFailKeeps DEF StatAbsentLeaf
<1>4. CASE Here = None
  <2>1. Proof(p)
    BY <1>4 DEF StatAbsentLeaf
  <2>2. ASSUME status = "capturing", TreeStill(structure, TreeNow) PROVE Lookup(entries, p) = None
    <3>1. Up(p) = <<p[1]>>
      BY <1>2, TreePaths
    <3>2. <<p[1]>> \in DOMAIN dirs /\ reg.up = dirs[<<p[1]>>].ino
      BY <1>1, <2>2 DEF TreeInv, TreePlaced
    <3>3. TreeRootStill(structure, TreeNow)
      BY <2>2 DEF TreeInv, TreeTyped, TreeMeant, TreeLevelsMeant, TreeStill, TreeRootStill
    <3>4. Resolve(entries, Up(p)) = reg.up
      BY <2>2, <3>1, <3>2, <3>3 DEF TreeInv, TreeCapturing, TreeTrue, TreeLed, TreeNow
    <3> QED
      BY <1>4, <3>4 DEF Lookup, Here
  <2>3. PICK prefix : prefix = p
    OBVIOUS
  <2> QED
    BY <1>1, <1>2, <2>1, <2>2, <2>3, TreeProofKeeps
<1> QED
  BY <1>3, <1>4

\* Files and links of the snapshot that were seen again with their stamps were all there when

\* `seal` was called.
LEMMA TreeCoexist ==
  ASSUME TreeInv, status \in TreeLooking, \A p \in NodeFiles(snap) : TreeAgain(p)
  PROVE  \A p \in NodeFiles(snap) :
           /\ atSeal.data[snap.nodes[p].ino] = snap.nodes[p].digest
           /\ atSeal.entries[snap.nodes[p].up][Leaf(p)] = snap.nodes[p].ino
<1>1. TreeHeld(snap.nodes, atSeal)
  BY DEF TreeInv, TreeSealed, TreeTrue
<1> QED
  BY <1>1 DEF TreeHeld, TreeAgain, NodeFiles

\* A member was read again as it was sealed, or the session fails (EndReopen).
LEMMA TreeReopenedKeeps ==
  ASSUME TreeAssumption, TreeInv, EndReopen, UNCHANGED callerVars
  PROVE  TreeInv'
<1>1. Running /\ status = "reopening" /\ step = "accepted"
  BY DEF EndReopen, Doing, At, TreeInv, TreeCalling
<1>2. CASE Fail("content")
  BY <1>1, <1>2, TreeFailKeeps
<1>3. CASE /\ status' = "sealed" /\ todo' = << >> /\ pc' = Start /\ reg' = NoReg
           /\ UNCHANGED <<fs, facts, snap, why, reads, atSeal>>
  <2>1. UNCHANGED <<entries, stamp, data, clock, nodes, dirs, absences, structure, snap, reads, atSeal,
                    mode, step, asked, files>>
    BY <1>3 DEF fs, facts, callerVars
  <2>2. TreeTyped'
    <3>1. << >> \in Seq(TreeTasks) /\ TreeSet(<< >>) = {} /\ TreeFirst(<< >>, {"structure"})
      BY TreeEmptySet DEF TreeFirst
    <3>2. TreeMoment(TreeNow)' /\ TreeTimed' /\ TreeMeant(nodes, dirs, absences, structure)'
      BY <2>1 DEF TreeInv, TreeTyped, TreeTimed, TreeNow
    <3> QED
      BY <1>3, <2>1, <3>1, <3>2 DEF TreeInv, TreeTyped, TreePoints
  <2>3. TreePlaced' /\ TreeOpened' /\ TreeScanning'
    BY <1>3 DEF TreePlaced, TreeOpened, TreeScanning, Start, TreeNoding, TreeReading,
           TreeLinking
  <2>4. TreeCapturing' /\ TreeVerifying' /\ TreeRereading' /\ TreeReopening'
    BY <1>3 DEF TreeCapturing, TreeVerifying, TreeRereading, TreeReopening
  <2>5. TreeSealed'
    BY <1>1, <2>1, TreeSealedStays DEF fs, TreeLooking
  <2>6. TreeVerified'
    BY <1>1, <2>1 DEF TreeInv, TreeVerified, TreeAgain
  <2>7. TreeCalling'
    BY <1>1, <1>3, <2>1 DEF TreeInv, TreeCalling, UsesGit
  <2>8. TreeAnswered'
    BY <1>1, <2>1 DEF TreeAnswered
  <2>9. TreeAccepted'
    <3>1. \A p \in NodeFiles(snap) : TreeAgain(p)
      BY <1>1 DEF TreeInv, TreeVerified
    <3>2. \A p \in NodeFiles(snap) :
            /\ atSeal.data[snap.nodes[p].ino] = snap.nodes[p].digest
            /\ atSeal.entries[snap.nodes[p].up][Leaf(p)] = snap.nodes[p].ino
      BY <1>1, <3>1, TreeCoexist DEF TreeLooking
    <3>3. ContentsCoexist'
      BY <2>1, <3>2 DEF ContentsCoexist, NodeFiles, Leaf
    <3>4. AcceptedIsOneMoment' /\ WalkIsComplete'
      BY <2>1 DEF TreeInv, TreeAccepted, AcceptedIsOneMoment, WalkIsComplete, Lookup, Resolve,
             ls_files,
                  deleted_files, Exists, InScope, Up, Leaf
    <3> QED
      BY <3>3, <3>4 DEF TreeAccepted
  <2> QED
    BY <2>2, <2>3, <2>4, <2>5, <2>6, <2>7, <2>8, <2>9 DEF TreeInv
<1> QED
  BY <1>2, <1>3 DEF EndReopen

\* Nothing waits: everything was seen again.
LEMMA TreeNoneWaits ==
  ASSUME todo = << >>
  PROVE  \A do, p : ~ TreeWaits(todo, do, p) /\ ~ TreePending(p)
BY TreeEmptySet DEF TreeWaits, TreePending

\* The second observation has ended without a difference (EndVerify).
LEMMA TreeVerifiedKeeps ==
  ASSUME TreeAssumption, TreeInv, EndVerify, UNCHANGED callerVars
  PROVE  TreeInv'
<1>1. /\ status = "verifying" /\ todo = << >> /\ status' = "sealed" /\ pc = Start
      /\ nodes' = snap.nodes /\ dirs' = snap.dirs /\ absences' = snap.absences
      /\ UNCHANGED <<entries, stamp, data, clock, structure, snap, todo, pc, reg, reads, atSeal,
                     mode, step, asked, files>>
  BY DEF EndVerify, Verifying, fs, callerVars, TreeInv, TreeTyped
<1>2. step \in {"after", "final", "rejected"}
  BY <1>1 DEF TreeInv, TreeCalling
<1>3. TreeTyped'
  <2>1. TreeMeant(snap.nodes, snap.dirs, snap.absences, snap.structure)
    BY <1>1 DEF TreeInv, TreeSealed, TreeLooking
  <2>2. TreeMeant(snap.nodes, snap.dirs, snap.absences, structure)
    BY <2>1 DEF TreeInv, TreeTyped, TreeMeant
  <2>3. TreeMeant(nodes, dirs, absences, structure)'
    BY <1>1, <2>2
  <2>4. TreeMoment(TreeNow)' /\ TreeTimed'
    BY <1>1 DEF TreeInv, TreeTyped, TreeTimed, TreeNow
  <2> QED
    BY <1>1, <2>3, <2>4 DEF TreeInv, TreeTyped
<1>4. TreePlaced' /\ TreeOpened' /\ TreeScanning'
  BY <1>1 DEF TreeInv, TreePlaced, TreeOpened, TreeScanning, Start, TreeNoding, TreeReading,
         TreeLinking
<1>5. TreeCapturing' /\ TreeVerifying' /\ TreeRereading' /\ TreeReopening'
  BY <1>1 DEF TreeCapturing, TreeVerifying, TreeRereading, TreeReopening
<1>6. TreeSealed'
  BY <1>1, TreeSealedStays DEF fs, TreeLooking
<1>7. \A p \in NodeFiles(snap) : TreeAgain(p)
  BY <1>1, TreeNoneWaits DEF TreeInv, TreeVerifying
<1>8. \A d \in DOMAIN snap.structure : atSeal.stamp[snap.structure[d].ino] = snap.structure[d].stamp
  BY <1>1, TreeNoneWaits DEF TreeInv, TreeVerifying
<1>9. TreeVerified'
  BY <1>1, <1>7, <1>8 DEF TreeVerified, TreeAgain, NodeFiles
<1>10. TreeCalling'
  BY <1>1, <1>2 DEF TreeInv, TreeCalling, UsesGit
<1>11. TreeAnswered'
  <2>1. mode = "git" /\ step = "final" => TreeListing
    BY <1>1, TreeNoneWaits DEF TreeInv, TreeAnswered
  <2>2. mode = "git" /\ step = "after" =>
          \A k \in 1 .. Len(asked) : asked[k] = TreeAnswer(k) \/ \E d \in DOMAIN snap.structure : TreeGone(d)
    BY <1>1 DEF TreeInv, TreeAnswered
  <2> QED
    BY <1>1, <2>1, <2>2 DEF TreeAnswered, TreeListing, TreeGone, TreeAnswer, ls_files,
           deleted_files, InScope
<1>12. TreeAccepted'
  <2>1. \A p \in NodeFiles(snap) :
          /\ atSeal.data[snap.nodes[p].ino] = snap.nodes[p].digest
          /\ atSeal.entries[snap.nodes[p].up][Leaf(p)] = snap.nodes[p].ino
    BY <1>1, <1>7, TreeCoexist DEF TreeLooking
  <2>2. ContentsCoexist'
    BY <1>1, <2>1 DEF ContentsCoexist, NodeFiles, Leaf
  <2> QED
    BY <1>1, <1>2, <2>2 DEF TreeAccepted, AcceptedIsOneMoment, WalkIsComplete
<1> QED
  BY <1>3, <1>4, <1>5, <1>6, <1>9, <1>10, <1>11, <1>12 DEF TreeInv

\* The caller.
LEMMA TreeCallerKeeps ==
  ASSUME TreeInv, UNCHANGED <<sessionVars, mode, files>>, TreeCalling', TreeAnswered', TreeAccepted',
         step' = "seal" => step = "seal"
  PROVE  TreeInv'
<1>1. UNCHANGED <<entries, stamp, data, clock, nodes, dirs, absences, structure, snap, status, why, todo, pc, reg,
                  reads, atSeal, mode, files>>
  BY DEF sessionVars, fs, facts, control
<1>2. TreeTyped'
  <2>1. TreeMeant(nodes, dirs, absences, structure)' /\ TreeMoment(TreeNow)' /\ TreeTimed'
    BY <1>1 DEF TreeInv, TreeTyped, TreeTimed, TreeNow
  <2> QED
    BY <1>1, <2>1 DEF TreeInv, TreeTyped
<1>3. TreePlaced' /\ TreeScanning'
  BY <1>1 DEF TreeInv, TreePlaced, TreeScanning, Task, TreeEntries
<1>4. TreeOpened'
  BY <1>1 DEF TreeInv, TreeOpened, Task
<1>5. TreeCapturing'
  BY <1>1 DEF TreeInv, TreeCapturing, TreeNow, TreeOnlyChildren, TreeAsked
<1>6. TreeSealed' /\ TreeVerifying'
  BY <1>1, TreeSealedStays, TreeVerifyingStays DEF fs
<1>7. TreeRereading' /\ TreeVerified' /\ TreeReopening'
  BY <1>1 DEF TreeInv, TreeRereading, TreeVerified, TreeReopening, TreeAgain, Task, TreeStands
<1> QED
  BY <1>2, <1>3, <1>4, <1>5, <1>6, <1>7 DEF TreeInv

\* A failed session is rejected (Reject).
LEMMA TreeRejectKeeps ==
  ASSUME TreeInv, Reject
  PROVE  TreeInv'
<1>1. status = "failed" /\ step' = "rejected" /\ UNCHANGED <<sessionVars, status, todo, mode, asked, files>>
  BY DEF Reject, sessionVars, control
<1>2. TreeCalling'
  BY <1>1 DEF TreeInv, TreeCalling, UsesGit
<1>3. TreeAnswered' /\ TreeAccepted'
  BY <1>1 DEF TreeAnswered, TreeAccepted, ContentsCoexist, AcceptedIsOneMoment, WalkIsComplete
<1> QED
  BY <1>1, <1>2, <1>3, TreeCallerKeeps

\* While all directories have their stamps, every path leads where it did.
LEMMA TreeLooksSame ==
  ASSUME TreeAssumption, NEW st, NEW m, NEW l, TreeMoment(m), TreeMoment(l), TreeLater(m, l),
         TreeLevelsMeant(st), TreeStill(st, m), TreeStill(st, l), TreeCovered(st, m, << >>), NEW p \in Paths
  PROVE  Lookup(l.entries, p) = Lookup(m.entries, p)
<1>1. TreeShaped(m.entries) /\ TreeShaped(l.entries)
  BY DEF TreeMoment
<1>2. \A d \in DOMAIN st : /\ st[d].ino \in Directories /\ m.stamp[st[d].ino] = l.stamp[st[d].ino]
                           /\ l.entries[st[d].ino] = m.entries[st[d].ino]
  <2>1. Directories \subseteq Inodes
    BY DEF Directories
  <2> QED
    BY <2>1 DEF TreeLevelsMeant, TreeLevelType, TreeStill, TreeLater
<1>3. Top \in DOMAIN st /\ st[Top].ino = Root /\ TreeRootStill(st, m)
  BY DEF TreeStill, TreeLevelsMeant, TreeRootStill
<1>4. l.entries[Root] = m.entries[Root]
  BY <1>2, <1>3
<1>5. Resolve(l.entries, Up(p)) = Resolve(m.entries, Up(p))
  BY <1>4 DEF Resolve
<1> DEFINE up == Resolve(m.entries, Up(p))
<1>6. CASE up = None
  BY <1>5, <1>6 DEF Lookup
<1>7. CASE up # None
  <2>1. l.entries[up] = m.entries[up]
    <3>1. CASE Up(p) = Top
      BY <1>4, <3>1 DEF Resolve
    <3>2. CASE Up(p) # Top
      <4>1. Up(p) \in TreeDirs /\ Up(p) \in TreeSingles
        BY <3>2, TreeUps DEF TreeDirs
      <4>2. up \in Directories /\ Up(p)[1] \in Names /\ m.entries[Root][Up(p)[1]] = up /\ Up(p) = <<Up(p)[1]>>
        BY <1>1, <1>7, <3>2, <4>1, TreeResolves, TreeSingle
      <4>3. <<Up(p)[1]>> \in DOMAIN st /\ st[<<Up(p)[1]>>].ino = up
        BY <1>3, <4>2, TreeEmptySet DEF TreeCovered
      <4> QED
        BY <1>2, <4>3
    <3> QED
      BY <3>1, <3>2
  <2> QED
    BY <1>5, <1>7, <2>1 DEF Lookup
<1> QED
  BY <1>6, <1>7

\* What Git lists depends on what the paths lead to.
LEMMA TreeListingSame ==
  ASSUME TreeAssumption, CallerAssumption, NEW es, NEW gs,
         \A p \in Paths : Lookup(gs, p) = Lookup(es, p)
  PROVE  ls_files(gs) = ls_files(es) /\ deleted_files(gs) = deleted_files(es)
<1>1. \A p \in Paths : Exists(gs, p) <=> Exists(es, p)
  BY DEF Exists
<1>2. Tracked \subseteq Paths
  BY DEF CallerAssumption
<1> QED
  BY <1>1, <1>2 DEF ls_files, deleted_files

\* One question to Git.
LEMMA TreeAskKeeps ==
  ASSUME TreeAssumption, CallerAssumption, TreeInv, AskGit
  PROVE  TreeInv'
<1> DEFINE answer == IF Len(asked) \in {0, 2} THEN deleted_files(entries) ELSE ls_files(entries)
<1>1. /\ UsesGit /\ step \in {"before", "after", "final"} /\ todo = << >> /\ Len(asked) < 4
      /\ asked' = Append(asked, answer)
      /\ UNCHANGED <<sessionVars, mode, step, files>>
  BY DEF AskGit
<1>2. UNCHANGED <<entries, stamp, data, snap, status, todo, atSeal, mode, step, files, nodes, dirs, absences, structure>>
  BY <1>1 DEF sessionVars, fs, facts, control
<1>3. asked \in Seq(SUBSET Paths) /\ Len(asked) \in Nat
  BY LenProperties DEF TreeInv, TreeCalling
<1>4. answer \in SUBSET Paths
  BY DEF deleted_files, ls_files, CallerAssumption
<1> HIDE DEF answer
<1>5. /\ asked' \in Seq(SUBSET Paths) /\ Len(asked') = Len(asked) + 1
      /\ \A k \in 1 .. Len(asked) : asked'[k] = asked[k]
      /\ asked'[Len(asked) + 1] = answer
  BY <1>1, <1>3, <1>4, AppendProperties
<1>6. TreeCalling'
  <2>1. Len(asked') <= 4
    BY <1>1, <1>3, <1>5
  <2> QED
    BY <1>1, <1>2, <1>5, <2>1 DEF TreeInv, TreeCalling, UsesGit
<1>7. TreeAnswered'
  <2> SUFFICES ASSUME mode = "git", status \in {"verifying", "sealed"} PROVE TreeAnswered'
    BY <1>2 DEF TreeAnswered
  <2>1. step = "final" => TreeListing' \/ \E d \in DOMAIN snap'.structure : TreePending(d)' /\ TreeGone(d)'
    BY <1>2 DEF TreeInv, TreeAnswered, TreeListing, TreePending, TreeGone, ls_files,
           deleted_files, InScope
  <2>2. ASSUME step = "after", NEW k \in 1 .. Len(asked'), \A d \in DOMAIN snap.structure : ~ TreeGone(d)
        PROVE  asked'[k] = TreeAnswer(k)
    <3>1. CASE k \in 1 .. Len(asked)
      <4>1. asked[k] = TreeAnswer(k)
        BY <2>2, <3>1 DEF TreeInv, TreeAnswered
      <4> QED
        BY <1>5, <3>1, <4>1
    <3>2. CASE k = Len(asked) + 1
      <4>1. /\ TreeMoment(atSeal) /\ TreeMoment(TreeNow) /\ TreeLater(atSeal, TreeNow)
            /\ TreeLevelsMeant(snap.structure) /\ TreeCovered(snap.structure, atSeal, << >>)
            /\ TreeAsked(snap.nodes, snap.absences, snap.structure, << >>)
        BY DEF TreeInv, TreeSealed, TreeLooking, TreeTyped, TreeMeant, TreeTrue
      <4>2. Top \in DOMAIN snap.structure
        BY <4>1, TreeEmptySet DEF TreeAsked
      <4>3. \A d \in DOMAIN snap.structure : atSeal.stamp[snap.structure[d].ino] = snap.structure[d].stamp
        BY <1>1, TreeNoneWaits DEF TreeInv, TreeVerifying, TreeVerified
      <4>4. TreeStill(snap.structure, atSeal) /\ TreeStill(snap.structure, TreeNow)
        BY <2>2, <4>2, <4>3 DEF TreeStill, TreeGone, TreeNow
      <4>5. \A p \in Paths : Lookup(entries, p) = Lookup(atSeal.entries, p)
        <5>1. ASSUME NEW p \in Paths PROVE Lookup(entries, p) = Lookup(atSeal.entries, p)
          <6>1. PICK l : l = TreeNow
            OBVIOUS
          <6>2. Lookup(l.entries, p) = Lookup(atSeal.entries, p)
            BY <4>1, <4>4, <6>1, TreeLooksSame
          <6> QED
            BY <6>1, <6>2 DEF TreeNow
        <5> QED
          BY <5>1
      <4>6. ls_files(entries) = ls_files(atSeal.entries) /\ deleted_files(entries) = deleted_files(atSeal.entries)
        BY <4>5, TreeListingSame
      <4>7. Len(asked) \in {0, 2} <=> k \in {1, 3}
        <5>1. PICK n : n = Len(asked)
          OBVIOUS
        <5>2. n \in Nat /\ k = n + 1
          BY <1>3, <3>2, <5>1
        <5>3. n \in {0, 2} <=> k \in {1, 3}
          BY <5>2
        <5> QED
          BY <5>1, <5>3
      <4>8. answer = TreeAnswer(k)
        BY <4>6, <4>7 DEF answer, TreeAnswer
      <4> QED
        BY <1>5, <3>2, <4>8
    <3> QED
      BY <1>3, <1>5, <3>1, <3>2
  <2>3. \A k : TreeAnswer(k)' = TreeAnswer(k)
    BY <1>2 DEF TreeAnswer, ls_files, deleted_files, InScope
  <2>4. \A d : TreeGone(d)' <=> TreeGone(d)
    BY <1>2 DEF TreeGone
  <2> QED
    BY <1>2, <2>1, <2>2, <2>3, <2>4 DEF TreeAnswered
<1>8. TreeAccepted'
  BY <1>2, TreeAcceptedStays DEF TreeInv
<1> QED
  BY <1>1, <1>2, <1>6, <1>7, <1>8, TreeCallerKeeps

\* The first tasks of a session, which knows nothing yet.
LEMMA TreeBegins ==
  ASSUME TreeAssumption, TreeInv, step \in {"before", "capture"}, step' \in {"seal", "bytes"}, UNCHANGED mode,
         NEW first, first = << >> \/ first = << StructureTask >>, NEW rest \in Seq(TreeTasks),
         \A t \in TreeSet(rest) :
            /\ t.do # "structure"
            /\ t.do = "drop" => mode = "archive"
            /\ t.do = "list" => mode = "archive" /\ t.path = Top
            /\ t.do = "node" => mode # "archive",
         Calls(first \o rest), (TreeAsked(nodes, absences, structure, todo))', TreeCalling'
  PROVE  TreeInv'
<1>1. /\ status = "capturing" /\ todo = << >> /\ DOMAIN nodes = {} /\ dirs = OnlyRoot
      /\ absences = {} /\ structure = NoStructure /\ pc = Start
  BY DEF TreeInv, TreeCalling, TreeTyped
<1>2. /\ todo' = first \o rest
      /\ UNCHANGED <<entries, stamp, data, clock, nodes, dirs, absences, structure, snap, status, pc, reg, reads,
                     atSeal, mode>>
  BY DEF Calls, fs, facts
<1>3. StructureTask \in TreeTasks /\ StructureTask.do = "structure" /\ StructureTask.path = Top
      /\ StructureTask.ino = Root
  BY DEF StructureTask, TreeTasks, TreeLevelTasks, TreeDirs, TreeAssumption
<1>4. first \in Seq(TreeTasks) /\ TreeSet(first) \subseteq {StructureTask} /\ Len(first) \in {0, 1}
      /\ \A i \in 1 .. Len(first) : i = 1
  <2>1. CASE first = << >>
    BY <2>1, TreeEmptySet
  <2>2. CASE first = << StructureTask >>
    BY <1>3, <2>2, TreeOneSet
  <2> QED
    BY <2>1, <2>2
<1>5. todo' \in Seq(TreeTasks) /\ TreeSet(todo') = TreeSet(first) \cup TreeSet(rest)
  BY <1>2, <1>4, TreeJoinedSet
<1>6. TreeFirst(todo', {"structure"})
  <2>1. TreeFirst(first, {"structure"})
    BY <1>3, <1>4, TreeFirstAlone
  <2>2. TreeFirst(first \o rest, {"structure"})
    BY <1>4, <2>1, TreeFirstJoined
  <2> QED
    BY <1>2, <2>2
<1>7. \A t \in TreeSet(todo') : /\ t.do = "structure" => t = StructureTask
                                /\ t.do = "drop" => mode = "archive"
                                /\ t.do = "list" => mode = "archive" /\ t.path = Top
                                /\ t.do = "node" => mode # "archive"
  BY <1>3, <1>4, <1>5
<1>8. \A i \in 2 .. Len(todo') : todo'[i].do # "structure"
  <2>1. /\ Len(first \o rest) = Len(first) + Len(rest) /\ Len(rest) \in Nat
        /\ \A i \in 1 .. Len(first) + Len(rest) : (first \o rest)[i] = IF i <= Len(first) THEN first[i]
                                                                      ELSE rest[i - Len(first)]
    BY <1>4, ConcatProperties, LenProperties
  <2> SUFFICES ASSUME NEW i \in 2 .. Len(first) + Len(rest) PROVE (first \o rest)[i].do # "structure"
    BY <1>2, <2>1
  <2>2. ~ (i <= Len(first)) /\ i \in 1 .. Len(first) + Len(rest) /\ i - Len(first) \in 1 .. Len(rest)
    BY <1>4, <2>1
  <2>3. (first \o rest)[i] = rest[i - Len(first)]
    BY <2>1, <2>2
  <2> QED
    BY <2>2, <2>3 DEF TreeSet
<1>9. TreeTyped'
  <2>1. TreeMeant(nodes, dirs, absences, structure)' /\ TreeMoment(TreeNow)' /\ TreeTimed'
    BY <1>2 DEF TreeInv, TreeTyped, TreeTimed, TreeNow
  <2>2. \A t \in TreeSet(todo') : t.do = "structure" => (t.path = Top <=> t.ino = Root)
    BY <1>3, <1>7
  <2> QED
    BY <1>1, <1>2, <1>5, <1>6, <2>1, <2>2 DEF TreeInv, TreeTyped
<1>10. TreePlaced' /\ TreeOpened' /\ TreeScanning'
  BY <1>1, <1>2 DEF TreeInv, TreePlaced, TreeOpened, TreeScanning, Start, TreeNoding,
         TreeReading, TreeLinking
<1>11. TreeCapturing'
  <2>1. /\ DOMAIN nodes' = {} /\ dirs' = OnlyRoot /\ absences' = {} /\ structure' = NoStructure
        /\ DOMAIN structure' = {} /\ DOMAIN dirs' = {Top} /\ dirs'[Top].children = None
    BY <1>1, <1>2 DEF OnlyRoot, NoStructure
  <2>2. TreeTrue(nodes, dirs, absences, structure, TreeNow, todo)'
    BY <2>1 DEF TreeTrue, TreeSeen, TreeHeld, TreeLed, TreeCovered, TreeAbsent, TreeStill,
           TreeRootStill
  <2>3. TreeWalked(nodes, dirs, todo)' /\ TreeOnlyChildren(nodes, dirs, todo)'
    BY <1>2, <1>7, <2>1 DEF TreeWalked, TreeOnlyChildren, TreeListed
  <2>4. \A t \in TreeSet(todo') :
           /\ t.do = "list" /\ t.path # Top => t.path \in DOMAIN nodes' /\ nodes'[t.path].kind = "directory"
           /\ t.do = "drop" => mode' = "archive"
           /\ t.do = "structure" /\ t.path # Top =>
                Top \in DOMAIN structure' /\ <<t.path[1], "directory">> \in structure'[Top].children
           /\ t.do = "structure" /\ t.path = Top => DOMAIN structure' = {}
    BY <1>2, <1>3, <1>7, <2>1
  <2>5. \A i \in 2 .. Len(todo') : todo'[i].do = "structure" => todo'[i].path # Top
    BY <1>8
  <2> QED
    BY <2>1, <2>2, <2>3, <2>4, <2>5 DEF TreeCapturing
<1>12. TreeSealed' /\ TreeVerifying' /\ TreeRereading' /\ TreeVerified' /\ TreeAnswered'
  BY <1>1, <1>2 DEF TreeSealed, TreeVerifying, TreeRereading, TreeVerified, TreeAnswered,
         TreeLooking
<1>13. TreeReopening'
  BY <1>1, <1>2 DEF TreeReopening
<1>14. TreeAccepted'
  BY <1>1, <1>2 DEF TreeAccepted, ContentsCoexist, AcceptedIsOneMoment, WalkIsComplete
<1> QED
  BY <1>9, <1>10, <1>11, <1>12, <1>13, <1>14 DEF TreeInv

\* The tasks for some paths.
LEMMA TreeNodeTasksOf ==
  ASSUME TreeAssumption, NEW ps \in SUBSET Paths, NEW bytes \in BOOLEAN
  PROVE  /\ NodeTasks(ps, bytes) \in Seq(TreeTasks)
         /\ TreeSet(NodeTasks(ps, bytes)) = { NodeTask(p, bytes) : p \in ps }
<1> DEFINE f == [p \in ps |-> NodeTask(p, bytes)]
           tasks == { NodeTask(p, bytes) : p \in ps }
<1>1. IsFiniteSet(ps) /\ DOMAIN f = ps
  BY TreeFinite, FS_Subset
<1>2. \A p \in ps : f[p] \in TreeTasks
  BY DEF NodeTask, TreeTasks, TreeNodeTasks
<1>3. tasks = { f[p] : p \in DOMAIN f }
  BY <1>1
<1>4. InSomeOrder(tasks) \in Seq(TreeTasks) /\ TreeSet(InSomeOrder(tasks)) = tasks
  <2> HIDE DEF f, tasks
  <2> QED
    BY <1>1, <1>2, <1>3, TreeImage
<1> QED
  BY <1>4 DEF NodeTasks

\* The tasks that walk some paths.
LEMMA TreeWalkOf ==
  ASSUME TreeAssumption, NEW ps \in SUBSET Paths
  PROVE  /\ Walk(ps) \in Seq(TreeTasks)
         /\ TreeSet(Walk(ps)) = { [NodeTask(p, FALSE) EXCEPT !.walk = TRUE] : p \in ps }
<1> DEFINE f == [p \in ps |-> [NodeTask(p, FALSE) EXCEPT !.walk = TRUE]]
           tasks == { [NodeTask(p, FALSE) EXCEPT !.walk = TRUE] : p \in ps }
<1>1. IsFiniteSet(ps) /\ DOMAIN f = ps
  BY TreeFinite, FS_Subset
<1>2. \A p \in ps : f[p] \in TreeTasks
  BY DEF NodeTask, TreeTasks, TreeNodeTasks
<1>3. tasks = { f[p] : p \in DOMAIN f }
  BY <1>1
<1>4. InSomeOrder(tasks) \in Seq(TreeTasks) /\ TreeSet(InSomeOrder(tasks)) = tasks
  <2> HIDE DEF f, tasks
  <2> QED
    BY <1>1, <1>2, <1>3, TreeImage
<1> QED
  BY <1>4 DEF Walk

\* The tasks that prove some paths absent.
LEMMA TreeAbsentTasksOf ==
  ASSUME TreeAssumption, NEW ps \in SUBSET Paths
  PROVE  /\ AbsentTasks(ps) \in Seq(TreeTasks)
         /\ TreeSet(AbsentTasks(ps)) = { [do |-> "absent", path |-> p] : p \in ps }
<1> DEFINE f == [p \in ps |-> [do |-> "absent", path |-> p]]
           tasks == { [do |-> "absent", path |-> p] : p \in ps }
<1>1. IsFiniteSet(ps) /\ DOMAIN f = ps
  BY TreeFinite, FS_Subset
<1>2. \A p \in ps : f[p] \in TreeTasks
  BY DEF TreeTasks, TreeAbsentTasks
<1>3. tasks = { f[p] : p \in DOMAIN f }
  BY <1>1
<1>4. InSomeOrder(tasks) \in Seq(TreeTasks) /\ TreeSet(InSomeOrder(tasks)) = tasks
  <2> HIDE DEF f, tasks
  <2> QED
    BY <1>1, <1>2, <1>3, TreeImage
<1> QED
  BY <1>4 DEF AbsentTasks

\* The first answer of Git, and the capture without Git.
LEMMA TreeFirstAnswerKeeps ==
  ASSUME TreeAssumption, CallerAssumption, TreeInv, FirstAnswer
  PROVE  TreeInv'
<1>1. step = "before" /\ Len(asked) = 4 /\ asked' = << >> /\ UNCHANGED mode
  BY DEF FirstAnswer
<1>2. UsesGit /\ mode \in {"git", "package"} /\ asked \in Seq(SUBSET Paths) /\ status = "capturing" /\ todo = << >>
      /\ step \in {"before", "capture"}
  BY <1>1 DEF TreeInv, TreeCalling, UsesGit
<1>3. CASE ~ Stable(asked)
  <2>1. step' = "rejected" /\ UNCHANGED <<sessionVars, files, status, todo>>
    BY <1>3 DEF FirstAnswer, sessionVars, control
  <2>2. << >> \in Seq(SUBSET Paths) /\ Len(<< >>) = 0
    OBVIOUS
  <2>3. TreeCalling'
    BY <1>1, <1>2, <2>1, <2>2 DEF TreeInv, TreeCalling, UsesGit
  <2>4. TreeAnswered' /\ TreeAccepted'
    BY <1>2, <2>1 DEF TreeAnswered, TreeAccepted, ContentsCoexist, AcceptedIsOneMoment,
           WalkIsComplete
  <2> QED
    BY <1>1, <2>1, <2>3, <2>4, TreeCallerKeeps
<1>4. CASE Stable(asked)
  <2> DEFINE set == FileSet(asked)
  <2>1. /\ files' = set /\ step' = "seal"
        /\ Calls(IF mode = "git"
                   THEN << StructureTask >> \o NodeTasks(set.present \ Cached, FALSE)
                        \o NodeTasks(set.present \cap Cached, TRUE) \o AbsentTasks(set.deleted)
                   ELSE NodeTasks(Selected, FALSE) \o AbsentTasks(set.deleted) \o NodeTasks(set.present, FALSE))
    BY <1>4 DEF FirstAnswer
  <2>2. /\ set.listed \in SUBSET Paths /\ set.deleted \in SUBSET Paths /\ set.present = set.listed \ set.deleted
        /\ asked[1] \in SUBSET Paths /\ asked[2] \in SUBSET Paths
    <3>1. PICK q \in Seq(SUBSET Paths) : q = asked /\ Len(q) = 4
      BY <1>1, <1>2
    <3>2. q[1] \in SUBSET Paths /\ q[2] \in SUBSET Paths
      BY <3>1, ElementOfSeq
    <3> QED
      BY <3>1, <3>2 DEF FileSet
  <2> HIDE DEF set
  <2>3. set.present \in SUBSET Paths /\ Selected \in SUBSET Paths
    BY <2>2 DEF CallerAssumption
  <2>4. UNCHANGED <<fs, facts, snap, status, pc, reg, reads, atSeal, mode>>
    BY <1>1, <2>1 DEF Calls
  <2>5. TreeCalling'
    <3>1. << >> \in Seq(SUBSET Paths) /\ Len(<< >>) = 0
      OBVIOUS
    <3>2. files'.listed \subseteq Paths /\ files'.deleted \subseteq Paths
          /\ files'.present = files'.listed \ files'.deleted
      BY <2>1, <2>2
    <3> QED
      BY <1>1, <1>2, <2>1, <2>4, <3>1, <3>2 DEF TreeInv, TreeCalling, UsesGit
  <2>6. CASE mode = "git"
    <3>1. PICK n1 : n1 = NodeTasks(set.present \ Cached, FALSE)
      OBVIOUS
    <3>2. PICK n2 : n2 = NodeTasks(set.present \cap Cached, TRUE)
      OBVIOUS
    <3>3. PICK n3 : n3 = AbsentTasks(set.deleted)
      OBVIOUS
    <3>4. n1 \in Seq(TreeTasks) /\ TreeSet(n1) = { NodeTask(p, FALSE) : p \in set.present \ Cached }
      <4>1. set.present \ Cached \in SUBSET Paths
        BY <2>3
      <4> QED
        BY <3>1, <4>1, TreeNodeTasksOf
    <3>5. n2 \in Seq(TreeTasks) /\ TreeSet(n2) = { NodeTask(p, TRUE) : p \in set.present \cap Cached }
      <4>1. set.present \cap Cached \in SUBSET Paths
        BY <2>3
      <4> QED
        BY <3>2, <4>1, TreeNodeTasksOf
    <3>6. n3 \in Seq(TreeTasks) /\ TreeSet(n3) = { [do |-> "absent", path |-> p] : p \in set.deleted }
      BY <2>2, <3>3, TreeAbsentTasksOf
    <3>7. n1 \o n2 \in Seq(TreeTasks) /\ TreeSet(n1 \o n2) = TreeSet(n1) \cup TreeSet(n2)
      <4>1. n1 \in Seq(TreeTasks)
        BY <3>4
      <4>2. n2 \in Seq(TreeTasks)
        BY <3>5
      <4> QED
        BY <4>1, <4>2, TreeJoinedSet
    <3>8. PICK n4 : n4 = n1 \o n2
      OBVIOUS
    <3>9. n4 \o n3 \in Seq(TreeTasks) /\ TreeSet(n4 \o n3) = TreeSet(n4) \cup TreeSet(n3)
      <4>1. n4 \in Seq(TreeTasks)
        BY <3>7, <3>8
      <4>2. n3 \in Seq(TreeTasks)
        BY <3>6
      <4> QED
        BY <4>1, <4>2, TreeJoinedSet
    <3>10. PICK rest : rest = n4 \o n3
      OBVIOUS
    <3>11. rest \in Seq(TreeTasks) /\ TreeSet(rest) = TreeSet(n1) \cup TreeSet(n2) \cup TreeSet(n3)
      BY <3>7, <3>8, <3>9, <3>10
    <3>12. PICK first : first = << StructureTask >>
      OBVIOUS
    <3>13. first \in Seq(TreeTasks) /\ StructureTask \in TreeSet(first)
      BY <3>12, TreeOneSet DEF StructureTask, TreeTasks, TreeLevelTasks, TreeDirs,
             TreeAssumption
    <3>14. first \o n1 \o n2 \o n3 = first \o rest
      <4>1. first \o n1 \o n2 = first \o n4
        BY <3>4, <3>5, <3>8, <3>13, ConcatAssociative
      <4>2. (first \o n4) \o n3 = first \o (n4 \o n3)
        <5>1. n4 \in Seq(TreeTasks)
          BY <3>7, <3>8
        <5>2. n3 \in Seq(TreeTasks)
          BY <3>6
        <5>3. first \in Seq(TreeTasks)
          BY <3>13
        <5> QED
          BY <5>1, <5>2, <5>3, ConcatAssociative
      <4> QED
        BY <3>10, <4>1, <4>2
    <3>15. Calls(first \o rest)
      BY <2>1, <2>6, <3>1, <3>2, <3>3, <3>12, <3>14
    <3>16. \A t \in TreeSet(rest) : t.do # "structure" /\ t.do # "drop" /\ t.do # "list"
      BY <3>4, <3>5, <3>6, <3>11 DEF NodeTask
    <3>17. TreeSet(todo') = TreeSet(first) \cup TreeSet(rest)
      <4>1. todo' = first \o rest
        BY <3>15 DEF Calls
      <4> QED
        BY <3>11, <3>13, <4>1, TreeJoinedSet
    <3>18. (TreeAsked(nodes, absences, structure, todo))'
      <4>1. \A p \in set.present : (TreeWaits(todo, "node", p))'
        <5> SUFFICES ASSUME NEW p \in set.present PROVE \E t \in TreeSet(todo') : t.do = "node" /\ t.path = p
          BY DEF TreeWaits
        <5>1. CASE p \in Cached
          <6>1. NodeTask(p, TRUE) \in TreeSet(n2)
            BY <3>5, <5>1
          <6> QED
            BY <3>11, <3>17, <6>1 DEF NodeTask
        <5>2. CASE p \notin Cached
          <6>1. NodeTask(p, FALSE) \in TreeSet(n1)
            BY <3>4, <5>2
          <6> QED
            BY <3>11, <3>17, <6>1 DEF NodeTask
        <5> QED
          BY <5>1, <5>2
      <4>2. \A p \in set.deleted : (TreeWaits(todo, "absent", p))'
        <5> SUFFICES ASSUME NEW p \in set.deleted PROVE \E t \in TreeSet(todo') : t.do = "absent" /\ t.path = p
          BY DEF TreeWaits
        <5>1. [do |-> "absent", path |-> p] \in TreeSet(n3)
          BY <3>6
        <5> QED
          BY <3>11, <3>17, <5>1
      <4>3. StructureTask \in TreeSet(todo')
        BY <3>13, <3>17
      <4> QED
        BY <2>1, <4>1, <4>2, <4>3 DEF TreeAsked
    <3>19. mode # "archive"
      BY <2>6
    <3> QED
      BY <1>1, <1>2, <2>1, <2>5, <3>11, <3>12, <3>15, <3>16, <3>18, <3>19, TreeBegins
  <2>7. CASE mode = "package"
    <3>1. PICK n1 : n1 = NodeTasks(Selected, FALSE)
      OBVIOUS
    <3>2. PICK n2 : n2 = AbsentTasks(set.deleted)
      OBVIOUS
    <3>3. PICK n3 : n3 = NodeTasks(set.present, FALSE)
      OBVIOUS
    <3>4. n1 \in Seq(TreeTasks) /\ TreeSet(n1) = { NodeTask(p, FALSE) : p \in Selected }
      BY <2>3, <3>1, TreeNodeTasksOf
    <3>5. n2 \in Seq(TreeTasks) /\ TreeSet(n2) = { [do |-> "absent", path |-> p] : p \in set.deleted }
      BY <2>2, <3>2, TreeAbsentTasksOf
    <3>6. n3 \in Seq(TreeTasks) /\ TreeSet(n3) = { NodeTask(p, FALSE) : p \in set.present }
      BY <2>3, <3>3, TreeNodeTasksOf
    <3>7. n1 \o n2 \in Seq(TreeTasks) /\ TreeSet(n1 \o n2) = TreeSet(n1) \cup TreeSet(n2)
      <4>1. n1 \in Seq(TreeTasks)
        BY <3>4
      <4>2. n2 \in Seq(TreeTasks)
        BY <3>5
      <4> QED
        BY <4>1, <4>2, TreeJoinedSet
    <3>8. PICK n4 : n4 = n1 \o n2
      OBVIOUS
    <3>9. n4 \o n3 \in Seq(TreeTasks) /\ TreeSet(n4 \o n3) = TreeSet(n4) \cup TreeSet(n3)
      <4>1. n4 \in Seq(TreeTasks)
        BY <3>7, <3>8
      <4>2. n3 \in Seq(TreeTasks)
        BY <3>6
      <4> QED
        BY <4>1, <4>2, TreeJoinedSet
    <3>10. PICK rest : rest = n4 \o n3
      OBVIOUS
    <3>11. rest \in Seq(TreeTasks) /\ TreeSet(rest) = TreeSet(n1) \cup TreeSet(n2) \cup TreeSet(n3)
      BY <3>7, <3>8, <3>9, <3>10
    <3>12. PICK first : first = << >>
      OBVIOUS
    <3>13. first \o rest = rest
      BY <3>11, <3>12, ConcatEmptySeq
    <3>14. Calls(first \o rest)
      BY <2>1, <2>7, <3>1, <3>2, <3>3, <3>8, <3>10, <3>13
    <3>15. \A t \in TreeSet(rest) : t.do # "structure" /\ t.do # "drop" /\ t.do # "list"
      BY <3>4, <3>5, <3>6, <3>11 DEF NodeTask
    <3>16. (TreeAsked(nodes, absences, structure, todo))' /\ mode # "archive"
      BY <1>1, <2>7 DEF TreeAsked
    <3> QED
      BY <1>1, <1>2, <2>1, <2>5, <3>11, <3>12, <3>14, <3>15, <3>16, TreeBegins
  <2> QED
    BY <1>2, <2>6, <2>7
<1> QED
  BY <1>3, <1>4

\* The capture without Git: an archive by its structure, a package by its directories.
LEMMA TreeCaptureKeeps ==
  ASSUME TreeAssumption, CallerAssumption, TreeInv, CaptureWithoutGit
  PROVE  TreeInv'
<1>1. /\ step = "capture" /\ UNCHANGED <<mode, asked, files>>
      /\ step' = IF mode = "archive" THEN "bytes" ELSE "seal"
      /\ Calls(IF mode = "archive" THEN << StructureTask, ListTask(Top), [do |-> "drop", path |-> Top] >>
               ELSE Walk(Selected))
  BY DEF CaptureWithoutGit
<1>2. ~ UsesGit /\ mode \in {"archive", "tarball"} /\ status = "capturing" /\ todo = << >> /\ asked = << >>
      /\ step \in {"before", "capture"}
  BY <1>1 DEF TreeInv, TreeCalling, UsesGit
<1>3. UNCHANGED <<fs, facts, snap, status, pc, reg, reads, atSeal, mode>>
  BY <1>1 DEF Calls
<1>4. TreeCalling'
  BY <1>1, <1>2, <1>3 DEF TreeInv, TreeCalling, UsesGit
<1>5. (TreeAsked(nodes, absences, structure, todo))' /\ step' \in {"seal", "bytes"}
  BY <1>1, <1>2 DEF TreeAsked
<1>6. CASE mode = "archive"
  <2>1. PICK l : l = ListTask(Top)
    OBVIOUS
  <2>2. PICK d : d = [do |-> "drop", path |-> Top]
    OBVIOUS
  <2>3. /\ l \in TreeTasks /\ l.do = "list" /\ l.path = Top
        /\ d \in TreeTasks /\ d.do = "drop"
    BY <2>1, <2>2 DEF ListTask, TreeTasks, TreeListTasks, TreeDropTasks, TreeDirs
  <2>4. PICK rest : rest = << l, d >>
    OBVIOUS
  <2>5. rest \in Seq(TreeTasks) /\ Len(rest) = 2 /\ rest[1] = l /\ rest[2] = d
    BY <2>3, <2>4
  <2>6. TreeSet(rest) = {l, d}
    BY <2>5 DEF TreeSet
  <2>7. PICK s : s = StructureTask
    OBVIOUS
  <2>8. s \in TreeTasks
    BY <2>7 DEF StructureTask, TreeTasks, TreeLevelTasks, TreeDirs, TreeAssumption
  <2>9. PICK first : first = << s >>
    OBVIOUS
  <2>10. first \in Seq(TreeTasks) /\ Len(first) = 1 /\ first[1] = s
    BY <2>8, <2>9
  <2>11. first \o rest = << s, l, d >>
    <3>1. /\ first \o rest \in Seq(TreeTasks) /\ Len(first \o rest) = 3
          /\ (first \o rest)[1] = s /\ (first \o rest)[2] = l /\ (first \o rest)[3] = d
      <4>1. /\ first \o rest \in Seq(TreeTasks) /\ Len(first \o rest) = 3
            /\ \A i \in 1 .. 3 : (first \o rest)[i] = IF i <= 1 THEN first[i] ELSE rest[i - 1]
        <5>1. first \in Seq(TreeTasks) /\ rest \in Seq(TreeTasks)
          BY <2>5, <2>10
        <5>2. /\ first \o rest \in Seq(TreeTasks) /\ Len(first \o rest) = Len(first) + Len(rest)
              /\ \A i \in 1 .. Len(first) + Len(rest) :
                   (first \o rest)[i] = IF i <= Len(first) THEN first[i] ELSE rest[i - Len(first)]
          BY <5>1, ConcatProperties
        <5>3. Len(first) = 1 /\ Len(rest) = 2 /\ 1 + 2 = 3
          BY <2>5, <2>10
        <5> QED
          BY <5>2, <5>3
      <4>2. 1 \in 1 .. 3 /\ 2 \in 1 .. 3 /\ 3 \in 1 .. 3 /\ 2 - 1 = 1 /\ 3 - 1 = 2 /\ ~ (2 <= 1) /\ ~ (3 <= 1)
        OBVIOUS
      <4> QED
        BY <2>5, <2>10, <4>1, <4>2
    <3>2. /\ << s, l, d >> \in Seq(TreeTasks) /\ Len(<< s, l, d >>) = 3
          /\ << s, l, d >>[1] = s /\ << s, l, d >>[2] = l /\ << s, l, d >>[3] = d
      BY <2>3, <2>8
    <3>3. \A i \in 1 .. 3 : (first \o rest)[i] = << s, l, d >>[i]
      <4>1. \A i \in 1 .. 3 : i = 1 \/ i = 2 \/ i = 3
        OBVIOUS
      <4> QED
        BY <3>1, <3>2, <4>1
    <3> QED
      BY <3>1, <3>2, <3>3, SeqEqual
  <2>12. Calls(first \o rest)
    BY <1>1, <1>6, <2>1, <2>2, <2>7, <2>11
  <2>13. first = << StructureTask >>
    BY <2>7, <2>9
  <2>14. \A t \in TreeSet(rest) : /\ t.do # "structure"
                                  /\ t.do = "list" => t.path = Top
                                  /\ t.do # "node"
    BY <2>3, <2>6
  <2> QED
    BY <1>1, <1>2, <1>4, <1>5, <1>6, <2>5, <2>12, <2>13, <2>14, TreeBegins
<1>7. CASE mode # "archive"
  <2>1. PICK rest : rest = Walk(Selected)
    OBVIOUS
  <2>2. rest \in Seq(TreeTasks) /\ TreeSet(rest) = { [NodeTask(p, FALSE) EXCEPT !.walk = TRUE] : p \in Selected }
    BY <2>1, TreeWalkOf DEF CallerAssumption
  <2>3. PICK first : first = << >>
    OBVIOUS
  <2>4. first \o rest = rest
    BY <2>2, <2>3, ConcatEmptySeq
  <2>5. Calls(first \o rest)
    BY <1>1, <1>7, <2>1, <2>4
  <2>6. \A t \in TreeSet(rest) : t.do # "structure" /\ t.do # "drop" /\ t.do # "list"
    BY <2>2 DEF NodeTask
  <2> QED
    BY <1>1, <1>2, <1>4, <1>5, <1>7, <2>2, <2>3, <2>5, <2>6, TreeBegins
<1> QED
  BY <1>6, <1>7

\* walk_archive_root keeps bytes of files it has captured.
LEMMA TreeBytesKeeps ==
  ASSUME TreeAssumption, CallerAssumption, TreeInv, CaptureBytes
  PROVE  TreeInv'
<1> DEFINE ps == { p \in DOMAIN nodes : nodes[p].kind # "directory" } \cap Cached
<1>1. /\ step = "bytes" /\ status = "capturing" /\ todo = << >> /\ step' = "seal"
      /\ Calls(NodeTasks(ps, TRUE)) /\ UNCHANGED <<mode, asked, files>>
  BY DEF CaptureBytes, Working
<1>2. /\ mode = "archive" /\ asked = << >> /\ pc = Start
  BY <1>1 DEF TreeInv, TreeCalling, UsesGit, TreeTyped
<1>3. /\ todo' = NodeTasks(ps, TRUE)
      /\ UNCHANGED <<entries, stamp, data, clock, nodes, dirs, absences, structure, snap, status, pc, reg, reads,
                     atSeal, mode, asked, files>>
  BY <1>1 DEF Calls, fs, facts
<1>4. ps \in SUBSET Paths /\ ps \subseteq DOMAIN nodes
  BY DEF TreeInv, TreeTyped, TreeMeant, TreeNodesMeant
<1> HIDE DEF ps
<1>5. todo' \in Seq(TreeTasks) /\ TreeSet(todo') = { NodeTask(p, TRUE) : p \in ps }
  BY <1>3, <1>4, TreeNodeTasksOf
<1>6. \A t \in TreeSet(todo') : t.do = "node" /\ t.path \in ps
  BY <1>5 DEF NodeTask
<1>7. TreeTyped'
  <2>1. TreeMeant(nodes, dirs, absences, structure)' /\ TreeMoment(TreeNow)' /\ TreeTimed'
    BY <1>3 DEF TreeInv, TreeTyped, TreeTimed, TreeNow
  <2>2. TreeFirst(todo', {"structure"})
    BY <1>5, <1>6, TreeFirstAlone
  <2>3. \A t \in TreeSet(todo') : t.do # "structure"
    BY <1>6
  <2> QED
    BY <1>2, <1>3, <1>5, <2>1, <2>2, <2>3 DEF TreeInv, TreeTyped
<1>8. TreePlaced' /\ TreeOpened' /\ TreeScanning'
  BY <1>2, <1>3 DEF TreeInv, TreePlaced, TreeOpened, TreeScanning, Start, TreeNoding,
         TreeReading, TreeLinking
<1>9. TreeCapturing'
  <2>1. /\ TreeTrue(nodes, dirs, absences, structure, TreeNow, todo)
        /\ TreeWalked(nodes, dirs, todo) /\ TreeOnlyChildren(nodes, dirs, todo)
    BY <1>1 DEF TreeInv, TreeCapturing
  <2>2. TreeTrue(nodes, dirs, absences, structure, TreeNow, todo)'
    <3>1. TreeCovered(structure, TreeNow, todo)'
      BY <1>1, <1>3, <1>6, <2>1, TreeEmptySet DEF TreeTrue, TreeCovered, TreeNow, TreeRootStill
    <3> QED
      BY <1>3, <2>1, <3>1 DEF TreeTrue, TreeNow
  <2>3. TreeWalked(nodes, dirs, todo)'
    BY <1>1, <1>3, <2>1, TreeNoneWaits DEF TreeWalked
  <2>4. TreeOnlyChildren(nodes, dirs, todo)'
    BY <1>2, <1>3, <1>4, <1>6, <2>1 DEF TreeOnlyChildren
  <2>5. TreeAsked(nodes, absences, structure, todo)'
    BY <1>2, <1>3 DEF TreeAsked
  <2>6. \A t \in TreeSet(todo') : t.do # "structure" /\ t.do # "list" /\ t.do # "drop"
    BY <1>6
  <2>7. \A i \in 2 .. Len(todo') : todo'[i].do # "structure"
    BY <2>6 DEF TreeSet
  <2> QED
    BY <2>2, <2>3, <2>4, <2>5, <2>6, <2>7 DEF TreeCapturing
<1>10. TreeSealed' /\ TreeVerifying' /\ TreeRereading' /\ TreeVerified' /\ TreeAnswered' /\ TreeReopening'
  BY <1>1, <1>3 DEF TreeSealed, TreeVerifying, TreeRereading, TreeVerified, TreeAnswered,
         TreeLooking, TreeReopening
<1>11. TreeCalling'
  BY <1>1, <1>2, <1>3 DEF TreeInv, TreeCalling, UsesGit
<1>12. TreeAccepted'
  BY <1>1, <1>3 DEF TreeAccepted, ContentsCoexist, AcceptedIsOneMoment, WalkIsComplete
<1> QED
  BY <1>7, <1>8, <1>9, <1>10, <1>11, <1>12 DEF TreeInv

\* What a verification looks at.
LEMMA TreeListTasksOf ==
  ASSUME TreeAssumption, NEW ds, DOMAIN ds \subseteq TreeDirs
  PROVE  LET tasks == { [do |-> "list", path |-> d, bytes |-> FALSE, walk |-> FALSE] : d \in DOMAIN ds }
         IN InSomeOrder(tasks) \in Seq(TreeTasks) /\ TreeSet(InSomeOrder(tasks)) = tasks
<1> DEFINE f == [d \in DOMAIN ds |-> [do |-> "list", path |-> d, bytes |-> FALSE, walk |-> FALSE]]
           tasks == { [do |-> "list", path |-> d, bytes |-> FALSE, walk |-> FALSE] : d \in DOMAIN ds }
<1>1. IsFiniteSet(DOMAIN ds) /\ DOMAIN f = DOMAIN ds
  BY TreeFinite, FS_Subset
<1>2. \A d \in DOMAIN ds : f[d] \in TreeTasks
  BY DEF TreeTasks, TreeListTasks
<1>3. tasks = { f[d] : d \in DOMAIN f }
  BY <1>1
<1> QED
  <2> HIDE DEF f, tasks
  <2>1. InSomeOrder(tasks) \in Seq(TreeTasks) /\ TreeSet(InSomeOrder(tasks)) = tasks
    BY <1>1, <1>2, <1>3, TreeImage
  <2> QED
    BY <2>1 DEF tasks

\* The nodes of a snapshot, to be looked at again.
LEMMA TreeNodesTasksOf ==
  ASSUME TreeAssumption, NEW ns, DOMAIN ns \subseteq Paths, \A p \in DOMAIN ns : ns[p].bytes \in BOOLEAN
  PROVE  LET tasks == { [do |-> "node", path |-> p, bytes |-> ns[p].bytes, walk |-> FALSE] : p \in DOMAIN ns }
         IN InSomeOrder(tasks) \in Seq(TreeTasks) /\ TreeSet(InSomeOrder(tasks)) = tasks
<1> DEFINE f == [p \in DOMAIN ns |-> [do |-> "node", path |-> p, bytes |-> ns[p].bytes, walk |-> FALSE]]
           tasks == { [do |-> "node", path |-> p, bytes |-> ns[p].bytes, walk |-> FALSE] : p \in DOMAIN ns }
<1>1. IsFiniteSet(DOMAIN ns) /\ DOMAIN f = DOMAIN ns
  BY TreeFinite, FS_Subset
<1>2. \A p \in DOMAIN ns : f[p] \in TreeTasks
  BY DEF TreeTasks, TreeNodeTasks
<1>3. tasks = { f[p] : p \in DOMAIN f }
  BY <1>1
<1> QED
  <2> HIDE DEF f, tasks
  <2>1. InSomeOrder(tasks) \in Seq(TreeTasks) /\ TreeSet(InSomeOrder(tasks)) = tasks
    BY <1>1, <1>2, <1>3, TreeImage
  <2> QED
    BY <2>1 DEF tasks

\* The absences of a snapshot, to be looked at again.
LEMMA TreeAbsencesTasksOf ==
  ASSUME TreeAssumption, NEW abs, abs \subseteq Paths \X Paths
  PROVE  LET tasks == { [do |-> "absent", path |-> a[1]] : a \in abs }
         IN InSomeOrder(tasks) \in Seq(TreeTasks) /\ TreeSet(InSomeOrder(tasks)) = tasks
<1> DEFINE f == [a \in abs |-> [do |-> "absent", path |-> a[1]]]
           tasks == { [do |-> "absent", path |-> a[1]] : a \in abs }
<1>1. IsFiniteSet(abs) /\ DOMAIN f = abs
  BY TreeFinite, FS_Subset
<1>2. \A a \in abs : f[a] \in TreeTasks
  BY DEF TreeTasks, TreeAbsentTasks
<1>3. tasks = { f[a] : a \in DOMAIN f }
  BY <1>1
<1> QED
  <2> HIDE DEF f, tasks
  <2>1. InSomeOrder(tasks) \in Seq(TreeTasks) /\ TreeSet(InSomeOrder(tasks)) = tasks
    BY <1>1, <1>2, <1>3, TreeImage
  <2> QED
    BY <2>1 DEF tasks

\* A verification looks at all that the snapshot says: levels first, then child sets.
LEMMA TreeVerifyTasks ==
  ASSUME TreeAssumption, NEW s, TreeMeant(s.nodes, s.dirs, s.absences, s.structure)
  PROVE  /\ VerifyTasks(s) \in Seq(TreeTasks)
         /\ TreeFirst(VerifyTasks(s), {"structure"}) /\ TreeFirst(VerifyTasks(s), {"structure", "list"})
         /\ \A t \in TreeSet(VerifyTasks(s)) : /\ t.do = "structure" => t = StructureTask
                                               /\ t.do = "node" => t.path \in DOMAIN s.nodes /\ t.walk = FALSE
                                               /\ t.do = "list" => t.path \in DOMAIN s.dirs
         /\ \A p \in DOMAIN s.nodes : TreeWaits(VerifyTasks(s), "node", p)
         /\ \A d \in DOMAIN s.dirs : TreeWaits(VerifyTasks(s), "list", d)
         /\ s.structure # NoStructure => StructureTask \in TreeSet(VerifyTasks(s))
<1> DEFINE q1 == IF s.structure = NoStructure THEN << >> ELSE << StructureTask >>
           t2 == { [do |-> "list", path |-> d, bytes |-> FALSE, walk |-> FALSE] : d \in DOMAIN s.dirs }
           t3 == { [do |-> "node", path |-> p, bytes |-> s.nodes[p].bytes, walk |-> FALSE] : p \in DOMAIN s.nodes }
           t4 == { [do |-> "absent", path |-> a[1]] : a \in s.absences }
           q2 == InSomeOrder(t2)
           q3 == InSomeOrder(t3)
           q4 == InSomeOrder(t4)
<1>1. StructureTask \in TreeTasks /\ StructureTask.do = "structure"
  BY DEF StructureTask, TreeTasks, TreeLevelTasks, TreeDirs, TreeAssumption
<1>2. q1 \in Seq(TreeTasks) /\ TreeSet(q1) \subseteq {StructureTask}
      /\ (s.structure # NoStructure => StructureTask \in TreeSet(q1))
  <2>1. CASE s.structure = NoStructure
    BY <2>1, TreeEmptySet
  <2>2. CASE s.structure # NoStructure
    BY <1>1, <2>2, TreeOneSet
  <2> QED
    BY <2>1, <2>2
<1>3. q2 \in Seq(TreeTasks) /\ TreeSet(q2) = t2
  <2>1. PICK ds : ds = s.dirs
    OBVIOUS
  <2>2. DOMAIN ds \subseteq TreeDirs
    BY <2>1 DEF TreeMeant, TreeDirsMeant
  <2> QED
    BY <2>1, <2>2, TreeListTasksOf
<1>4. q3 \in Seq(TreeTasks) /\ TreeSet(q3) = t3
  <2>1. PICK ns : ns = s.nodes
    OBVIOUS
  <2>2. DOMAIN ns \subseteq Paths /\ \A p \in DOMAIN ns : ns[p].bytes \in BOOLEAN
    BY <2>1 DEF TreeMeant, TreeNodesMeant, TreeNodeType
  <2> QED
    BY <2>1, <2>2, TreeNodesTasksOf
<1>5. q4 \in Seq(TreeTasks) /\ TreeSet(q4) = t4
  <2>1. PICK abs : abs = s.absences
    OBVIOUS
  <2>2. abs \subseteq Paths \X Paths
    BY <2>1 DEF TreeMeant
  <2> QED
    BY <2>1, <2>2, TreeAbsencesTasksOf
<1>6. VerifyTasks(s) = q1 \o q2 \o q3 \o q4
  BY DEF VerifyTasks
<1>7. \A t \in t2 : t.do = "list" /\ t.path \in DOMAIN s.dirs
  OBVIOUS
<1>8. \A t \in t3 : t.do = "node" /\ t.path \in DOMAIN s.nodes /\ t.walk = FALSE
  OBVIOUS
<1>9. \A t \in t4 : t.do = "absent"
  OBVIOUS
<1>10. \A d \in DOMAIN s.dirs : \E t \in t2 : t.do = "list" /\ t.path = d
  <2> SUFFICES ASSUME NEW d \in DOMAIN s.dirs PROVE \E t \in t2 : t.do = "list" /\ t.path = d
    OBVIOUS
  <2>1. [do |-> "list", path |-> d, bytes |-> FALSE, walk |-> FALSE] \in t2
    OBVIOUS
  <2> QED
    BY <2>1
<1>11. \A p \in DOMAIN s.nodes : \E t \in t3 : t.do = "node" /\ t.path = p
  <2> SUFFICES ASSUME NEW p \in DOMAIN s.nodes PROVE \E t \in t3 : t.do = "node" /\ t.path = p
    OBVIOUS
  <2>1. [do |-> "node", path |-> p, bytes |-> s.nodes[p].bytes, walk |-> FALSE] \in t3
    OBVIOUS
  <2> QED
    BY <2>1
<1> HIDE DEF q1, q2, q3, q4, t2, t3, t4
<1>12. PICK r1 : r1 = q1
  OBVIOUS
<1>13. PICK r2 : r2 = q2
  OBVIOUS
<1>14. PICK r3 : r3 = q3
  OBVIOUS
<1>15. PICK r4 : r4 = q4
  OBVIOUS
<1>16. r1 \in Seq(TreeTasks) /\ r2 \in Seq(TreeTasks) /\ r3 \in Seq(TreeTasks) /\ r4 \in Seq(TreeTasks)
  BY <1>2, <1>3, <1>4, <1>5, <1>12, <1>13, <1>14, <1>15
<1>17. PICK r12 : r12 = r1 \o r2
  OBVIOUS
<1>18. r12 \in Seq(TreeTasks) /\ TreeSet(r12) = TreeSet(r1) \cup TreeSet(r2)
  BY <1>16, <1>17, TreeJoinedSet
<1>19. PICK r123 : r123 = r12 \o r3
  OBVIOUS
<1>20. r123 \in Seq(TreeTasks) /\ TreeSet(r123) = TreeSet(r12) \cup TreeSet(r3)
  BY <1>16, <1>18, <1>19, TreeJoinedSet
<1>21. PICK q : q = r123 \o r4
  OBVIOUS
<1>22. q \in Seq(TreeTasks) /\ TreeSet(q) = TreeSet(r123) \cup TreeSet(r4)
  BY <1>16, <1>20, <1>21, TreeJoinedSet
<1>23. VerifyTasks(s) = q
  BY <1>6, <1>12, <1>13, <1>14, <1>15, <1>17, <1>19, <1>21
<1>24. TreeSet(q) = TreeSet(r1) \cup t2 \cup t3 \cup t4 /\ TreeSet(r1) \subseteq {StructureTask}
  BY <1>2, <1>3, <1>4, <1>5, <1>12, <1>13, <1>14, <1>15, <1>18, <1>20, <1>22
<1>25. /\ \A t \in TreeSet(r1) : t.do = "structure"
       /\ \A t \in TreeSet(r2) : t.do = "list"
       /\ \A t \in TreeSet(r3) : t.do = "node"
       /\ \A t \in TreeSet(r4) : t.do = "absent"
  BY <1>1, <1>3, <1>4, <1>5, <1>7, <1>8, <1>9, <1>13, <1>14, <1>15, <1>24
<1>26. TreeFirst(q, {"structure"})
  <2>1. TreeFirst(r1, {"structure"})
    BY <1>16, <1>25, TreeFirstAlone
  <2>2. TreeFirst(r12, {"structure"})
    <3>1. \A t \in TreeSet(r2) : t.do \notin {"structure"}
      BY <1>25
    <3> QED
      BY <1>16, <1>17, <2>1, <3>1, TreeFirstJoined
  <2>3. TreeFirst(r123, {"structure"})
    <3>1. \A t \in TreeSet(r3) : t.do \notin {"structure"}
      BY <1>25
    <3> QED
      BY <1>16, <1>18, <1>19, <2>2, <3>1, TreeFirstJoined
  <2> QED
    <3>1. \A t \in TreeSet(r4) : t.do \notin {"structure"}
      BY <1>25
    <3> QED
      BY <1>16, <1>20, <1>21, <2>3, <3>1, TreeFirstJoined
<1>27. TreeFirst(q, {"structure", "list"})
  <2>1. TreeFirst(r12, {"structure", "list"})
    <3>1. \A t \in TreeSet(r12) : t.do \in {"structure", "list"}
      BY <1>18, <1>25
    <3> QED
      BY <1>18, <3>1, TreeFirstAlone
  <2>2. TreeFirst(r123, {"structure", "list"})
    <3>1. \A t \in TreeSet(r3) : t.do \notin {"structure", "list"}
      BY <1>25
    <3> QED
      BY <1>16, <1>18, <1>19, <2>1, <3>1, TreeFirstJoined
  <2> QED
    <3>1. \A t \in TreeSet(r4) : t.do \notin {"structure", "list"}
      BY <1>25
    <3> QED
      BY <1>16, <1>20, <1>21, <2>2, <3>1, TreeFirstJoined
<1>28. \A t \in TreeSet(q) : /\ t.do = "structure" => t = StructureTask
                             /\ t.do = "node" => t.path \in DOMAIN s.nodes /\ t.walk = FALSE
                             /\ t.do = "list" => t.path \in DOMAIN s.dirs
  BY <1>1, <1>7, <1>8, <1>9, <1>24
<1>29. /\ \A p \in DOMAIN s.nodes : TreeWaits(q, "node", p)
       /\ \A d \in DOMAIN s.dirs : TreeWaits(q, "list", d)
  BY <1>10, <1>11, <1>24 DEF TreeWaits
<1>30. s.structure # NoStructure => StructureTask \in TreeSet(q)
  BY <1>2, <1>12, <1>24
<1> QED
  BY <1>22, <1>23, <1>26, <1>27, <1>28, <1>29, <1>30

\* A verification begins.
LEMMA TreeVerifyKeeps ==
  ASSUME TreeAssumption, TreeInv, NEW s, Verify(s), TreeMeant(s.nodes, s.dirs, s.absences, s.structure),
         TreeSealed', TreeCalling', TreeAnswered', TreeAccepted'
  PROVE  TreeInv'
<1>1. /\ snap' = s /\ status' = "verifying" /\ todo' = VerifyTasks(s)
      /\ nodes' = << >> /\ dirs' = OnlyRoot /\ absences' = {} /\ reads' = 0 /\ pc' = Start /\ reg' = NoReg
      /\ UNCHANGED <<entries, stamp, data, clock, structure>>
  BY DEF Verify, fs
<1>2. /\ todo' \in Seq(TreeTasks)
      /\ TreeFirst(todo', {"structure"}) /\ TreeFirst(todo', {"structure", "list"})
      /\ \A t \in TreeSet(todo') : /\ t.do = "structure" => t = StructureTask
                                   /\ t.do = "node" => t.path \in DOMAIN s.nodes /\ t.walk = FALSE
                                   /\ t.do = "list" => t.path \in DOMAIN s.dirs
      /\ \A p \in DOMAIN s.nodes : (TreeWaits(todo, "node", p))'
      /\ \A d \in DOMAIN s.dirs : (TreeWaits(todo, "list", d))'
      /\ s.structure # NoStructure => StructureTask \in TreeSet(todo')
  BY <1>1, TreeVerifyTasks
<1>3. TreeTyped'
  <2>1. TreeNodesMeant(<< >>, OnlyRoot)
    BY DEF TreeNodesMeant
  <2>2. TreeDirsMeant(OnlyRoot)
    BY DEF TreeDirsMeant, OnlyRoot, TreeDirType, TreeDirs, TreeAssumption
  <2>3. TreeMeant(nodes, dirs, absences, structure)'
    BY <1>1, <2>1, <2>2 DEF TreeInv, TreeTyped, TreeMeant
  <2>4. TreeMoment(TreeNow)' /\ TreeTimed'
    BY <1>1 DEF TreeInv, TreeTyped, TreeTimed, TreeNow
  <2>5. \A t \in TreeSet(todo') : t.do = "structure" => (t.path = Top <=> t.ino = Root)
    BY <1>2 DEF StructureTask
  <2>6. reads' \in 0 .. MaxReads
    BY <1>1 DEF TreeAssumption
  <2> QED
    BY <1>1, <1>2, <2>3, <2>4, <2>5, <2>6 DEF TreeInv, TreeTyped, TreePoints
<1>4. TreePlaced' /\ TreeOpened' /\ TreeScanning' /\ TreeRereading'
  BY <1>1 DEF TreePlaced, TreeOpened, TreeScanning, TreeRereading, Start, TreeNoding,
         TreeReading, TreeLinking
<1>5. TreeCapturing' /\ TreeVerified' /\ TreeReopening'
  BY <1>1 DEF TreeCapturing, TreeVerified, TreeReopening
<1>6. TreeVerifying'
  <2>1. \A p \in NodeFiles(s) : (TreeWaits(todo, "node", p))'
    BY <1>2 DEF NodeFiles
  <2>2. \A p \in NodeFiles(s) : TreeRelisted(p)'
    BY <1>1, <1>2 DEF TreeRelisted, TreeListed
  <2>3. \A d \in DOMAIN s.structure : TreePending(d)'
    <3> SUFFICES ASSUME NEW d \in DOMAIN s.structure PROVE TreePending(d)'
      OBVIOUS
    <3>1. s.structure # NoStructure
      BY DEF NoStructure
    <3> QED
      BY <1>2, <3>1 DEF TreePending
  <2>4. DOMAIN nodes' = {}
    BY <1>1
  <2> QED
    BY <1>1, <1>2, <2>1, <2>2, <2>3, <2>4 DEF TreeVerifying
<1> QED
  BY <1>3, <1>4, <1>5, <1>6 DEF TreeInv

\* The call of seal: what was captured holds now as far as its stamps do (SealTree).
LEMMA TreeSealKeeps ==
  ASSUME TreeAssumption, TreeInv, SealTree
  PROVE  TreeInv'
<1>1. /\ step = "seal" /\ status = "capturing" /\ todo = << >>
      /\ atSeal' = TreeNow /\ Verify(Candidate)
      /\ step' = (IF UsesGit THEN "after" ELSE "final") /\ UNCHANGED <<mode, asked, files>>
  BY DEF SealTree, Seal, TreeNow
<1>2. PICK s : s = Candidate
  OBVIOUS
<1>3. s.nodes = nodes /\ s.dirs = dirs /\ s.absences = absences /\ s.structure = structure
  BY <1>2 DEF Candidate
<1>4. snap' = s /\ status' = "verifying" /\ UNCHANGED <<entries, stamp, data, clock>>
  BY <1>1, <1>2 DEF Verify, fs
<1>5. TreeMeant(s.nodes, s.dirs, s.absences, s.structure)
  BY <1>3 DEF TreeInv, TreeTyped
<1>6. asked = << >>
  BY <1>1 DEF TreeInv, TreeCalling
<1>7. TreeSealed'
  <2>1. TreeMoment(TreeNow)
    BY DEF TreeInv, TreeTyped
  <2>2. TreeNow' = TreeNow
    BY <1>4 DEF TreeNow
  <2>3. PICK m : m = TreeNow
    OBVIOUS
  <2>4. TreeMoment(m) /\ TreeLater(m, m)
    BY <2>1, <2>3, TreeLaterItself
  <2>5. TreeMoment(atSeal)' /\ TreeLater(atSeal, TreeNow)'
    BY <1>1, <2>2, <2>3, <2>4
  <2>6. /\ TreeTrue(nodes, dirs, absences, structure, TreeNow, << >>)
        /\ TreeWalked(nodes, dirs, << >>) /\ TreeOnlyChildren(nodes, dirs, << >>)
        /\ TreeAsked(nodes, absences, structure, << >>)
    BY <1>1 DEF TreeInv, TreeCapturing
  <2>7. TreeTrue(snap'.nodes, snap'.dirs, snap'.absences, snap'.structure, atSeal', << >>)
    BY <1>1, <1>3, <1>4, <2>6
  <2>8. TreeWalked(snap'.nodes, snap'.dirs, << >>)
    BY <1>3, <1>4, <2>6
  <2>9. (TreeOnlyChildren(snap.nodes, snap.dirs, << >>))'
    BY <1>1, <1>3, <1>4, <2>6 DEF TreeOnlyChildren
  <2>10. (TreeAsked(snap.nodes, snap.absences, snap.structure, << >>))'
    BY <1>1, <1>3, <1>4, <2>6 DEF TreeAsked
  <2>11. TreeMeant(snap'.nodes, snap'.dirs, snap'.absences, snap'.structure)
    BY <1>4, <1>5
  <2> QED
    BY <2>5, <2>7, <2>8, <2>9, <2>10, <2>11 DEF TreeSealed
<1>8. TreeCalling'
  BY <1>1, <1>4, <1>6 DEF TreeInv, TreeCalling, UsesGit
<1>9. TreeAnswered'
  <2>1. Len(asked') = 0 /\ (mode' = "git" => step' = "after")
    BY <1>1, <1>6 DEF UsesGit
  <2> QED
    BY <2>1 DEF TreeAnswered
<1>10. TreeAccepted'
  BY <1>1, <1>4 DEF TreeAccepted, ContentsCoexist, AcceptedIsOneMoment, WalkIsComplete
<1> QED
  BY <1>1, <1>2, <1>5, <1>7, <1>8, <1>9, <1>10, TreeVerifyKeeps

\* A sealed tree that Git still lists as before is the tree at the seal.
LEMMA TreeOneMoment ==
  ASSUME TreeAssumption, CallerAssumption, TreeInv, mode = "git", status = "sealed", step \in {"after", "final"}, TreeListing
  PROVE  LET es == atSeal.entries
         IN /\ \A p \in files.present : /\ Lookup(es, p) = snap.nodes[p].ino
                                        /\ atSeal.data[Lookup(es, p)] = snap.nodes[p].digest
            /\ \A p \in files.deleted : Lookup(es, p) = None
            /\ files.listed = ls_files(es) /\ files.deleted = deleted_files(es)
<1> DEFINE es == atSeal.entries
<1>1. /\ TreeMoment(atSeal) /\ TreeMeant(snap.nodes, snap.dirs, snap.absences, snap.structure)
      /\ TreeTrue(snap.nodes, snap.dirs, snap.absences, snap.structure, atSeal, << >>)
      /\ TreeAsked(snap.nodes, snap.absences, snap.structure, << >>)
  BY DEF TreeInv, TreeSealed, TreeLooking
<1>2. /\ \A p \in files.present : p \in DOMAIN snap.nodes
      /\ \A p \in files.deleted : \E a \in snap.absences : a[1] = p
      /\ Top \in DOMAIN snap.structure
  BY <1>1, TreeEmptySet DEF TreeAsked, TreeWaits
<1>3. TreeStill(snap.structure, atSeal) /\ TreeRootStill(snap.structure, atSeal)
  BY <1>1, <1>2 DEF TreeInv, TreeVerified, TreeStill, TreeRootStill, TreeMeant, TreeLevelsMeant
<1>4. \A d \in DOMAIN snap.dirs : Resolve(es, d) = snap.dirs[d].ino
  BY <1>1, <1>3 DEF TreeTrue, TreeLed
<1>5. files.present = files.listed \ files.deleted /\ files.listed \subseteq Paths
  BY DEF TreeInv, TreeCalling, UsesGit
<1>6. \A p \in files.deleted : Lookup(es, p) = None
  <2> SUFFICES ASSUME NEW p \in files.deleted PROVE Lookup(es, p) = None
    OBVIOUS
  <2>1. PICK a \in snap.absences : a[1] = p
    BY <1>2
  <2>2. Lookup(es, a[1]) = None
    BY <1>1, <1>3 DEF TreeTrue, TreeAbsent
  <2> QED
    BY <2>1, <2>2
<1>7. ASSUME NEW p \in files.present
      PROVE  Lookup(es, p) = snap.nodes[p].ino /\ atSeal.data[Lookup(es, p)] = snap.nodes[p].digest
  <2>1. p \in Paths /\ p \in DOMAIN snap.nodes
    BY <1>2, <1>5
  <2>2. Lookup(es, p) \in Leaves
    <3>1. p \in ls_files(es) /\ p \notin deleted_files(es)
      BY <1>5 DEF TreeListing
    <3>2. Exists(es, p)
      BY <3>1 DEF ls_files, deleted_files
    <3> QED
      BY <3>2 DEF Exists
  <2>3. TreeShaped(es) /\ \A d \in DOMAIN snap.dirs : snap.dirs[d].ino \in Directories
    BY <1>1 DEF TreeMoment, TreeMeant, TreeDirsMeant, TreeDirType
  <2>4. snap.nodes[p].kind # "directory"
    <3> SUFFICES ASSUME snap.nodes[p].kind = "directory" PROVE FALSE
      OBVIOUS
    <3>1. p \in DOMAIN snap.dirs /\ Up(p) = Top
      BY <1>1, <2>1 DEF TreeMeant, TreeNodesMeant
    <3>2. p \in TreeSingles /\ Leaf(p) = p[1]
      BY <2>1, <3>1, TreePaths
    <3>3. p \in TreeDirs /\ p # Top
      BY <3>2, TreeSingle
    <3>4. Resolve(es, p) \in Directories /\ Resolve(es, p) # None
      BY <1>4, <2>3, <3>1, TreeResolves, <3>3
    <3>5. es[Root][p[1]] = Resolve(es, p)
      BY <2>3, <3>3, <3>4, TreeResolves
    <3>6. Root # None
      BY <2>3, <3>3, TreeResolves
    <3>7. Lookup(es, p) = es[Root][p[1]]
      BY <3>1, <3>2, <3>6 DEF Lookup, Resolve
    <3> QED
      BY <2>2, <3>4, <3>5, <3>7 DEF Leaves
  <2>5. TreeAgain(p)
    BY <2>1, <2>4 DEF TreeInv, TreeVerified, NodeFiles
  <2>6. /\ es[snap.nodes[p].up][Leaf(p)] = snap.nodes[p].ino
        /\ atSeal.data[snap.nodes[p].ino] = snap.nodes[p].digest
    BY <1>1, <2>1, <2>4, <2>5 DEF TreeTrue, TreeHeld, TreeAgain
  <2>7. Up(p) \in DOMAIN snap.dirs /\ snap.nodes[p].up = snap.dirs[Up(p)].ino
    BY <1>1, <2>1 DEF TreeMeant, TreeNodesMeant
  <2>8. Resolve(es, Up(p)) = snap.nodes[p].up /\ snap.nodes[p].up \in Directories
    BY <1>4, <2>3, <2>7
  <2>9. snap.nodes[p].up # None
    BY <2>8 DEF TreeAssumption, Directories
  <2>10. Lookup(es, p) = snap.nodes[p].ino
    BY <2>6, <2>8, <2>9 DEF Lookup
  <2> QED
    BY <2>6, <2>10
<1> QED
  BY <1>6, <1>7 DEF TreeListing

\* A walk that was sealed is complete.
LEMMA TreeWhole ==
  ASSUME TreeAssumption, TreeInv, mode \in {"archive", "tarball"}, status = "sealed"
  PROVE  \A d \in DOMAIN snap.dirs : snap.dirs[d].children # None =>
            { Leaf(p) : p \in { q \in DOMAIN snap.nodes : Up(q) = d } } = snap.dirs[d].children
<1>1. /\ TreeMeant(snap.nodes, snap.dirs, snap.absences, snap.structure)
      /\ TreeWalked(snap.nodes, snap.dirs, << >>) /\ TreeOnlyChildren(snap.nodes, snap.dirs, << >>)
  BY DEF TreeInv, TreeSealed, TreeLooking
<1> SUFFICES ASSUME NEW d \in DOMAIN snap.dirs, snap.dirs[d].children # None
             PROVE  { Leaf(p) : p \in { q \in DOMAIN snap.nodes : Up(q) = d } } = snap.dirs[d].children
  OBVIOUS
<1>2. d \in TreeDirs /\ snap.dirs[d].children \subseteq Names /\ TreeListed(snap.dirs, d)
  BY <1>1 DEF TreeMeant, TreeDirsMeant, TreeDirType, TreeListed
<1>3. ASSUME NEW n \in snap.dirs[d].children
      PROVE  \E p \in DOMAIN snap.nodes : Up(p) = d /\ Leaf(p) = n
  <2>1. Append(d, n) \in DOMAIN snap.nodes
    BY <1>1, <1>2, <1>3, TreeEmptySet DEF TreeWalked, TreeWaits
  <2>2. Up(Append(d, n)) = d /\ Leaf(Append(d, n)) = n
    BY <1>2, <1>3, TreeAppended
  <2> QED
    BY <2>1, <2>2
<1>4. ASSUME NEW p \in DOMAIN snap.nodes, Up(p) = d
      PROVE  Leaf(p) \in snap.dirs[d].children
  <2>1. CASE mode = "archive"
    BY <1>1, <1>4, <2>1 DEF TreeOnlyChildren, TreeChild
  <2>2. CASE mode # "archive"
    <3>1. ~ TreeListed(snap.dirs, Top)
      BY <1>1, <2>2 DEF TreeOnlyChildren
    <3>2. d # Top
      BY <1>2, <3>1
    <3>3. snap.nodes[p].kind # "directory"
      BY <1>1, <1>4, <3>2 DEF TreeMeant, TreeNodesMeant
    <3>4. TreeAgain(p)
      BY <3>3 DEF TreeInv, TreeVerified, NodeFiles
    <3> QED
      BY <1>2, <1>4, <3>4 DEF TreeAgain, TreeChild
  <2> QED
    BY <2>1, <2>2
<1> QED
  BY <1>3, <1>4

\* The last answers of Git.
LEMMA TreeAnswerKeeps ==
  ASSUME TreeAssumption, CallerAssumption, TreeInv, LaterAnswer
  PROVE  TreeInv'
<1>1. status = "sealed" /\ todo = << >> /\ UNCHANGED <<mode, files>>
  BY DEF LaterAnswer
<1>2. CASE step = "final" /\ ~ UsesGit /\ step' = "accepted" /\ UNCHANGED <<sessionVars, asked>>
  <2>1. UNCHANGED <<snap, atSeal, status, todo>>
    BY <1>2 DEF sessionVars, control
  <2>2. TreeCalling'
    BY <1>1, <1>2, <2>1 DEF TreeInv, TreeCalling, UsesGit
  <2>3. TreeAnswered'
    BY <1>1, <1>2 DEF TreeAnswered, UsesGit
  <2>4. mode \in {"archive", "tarball"}
    BY <1>2 DEF TreeInv, TreeCalling, UsesGit
  <2>5. TreeAccepted'
    <3>1. ContentsCoexist'
      BY <2>1 DEF TreeInv, TreeAccepted, ContentsCoexist, NodeFiles, Leaf
    <3>2. AcceptedIsOneMoment'
      BY <1>1, <2>4 DEF AcceptedIsOneMoment
    <3>3. WalkIsComplete'
      BY <1>1, <2>1, <2>4, TreeWhole DEF WalkIsComplete, Up, Leaf
    <3> QED
      BY <3>1, <3>2, <3>3 DEF TreeAccepted
  <2> QED
    BY <1>1, <1>2, <2>2, <2>3, <2>5, TreeCallerKeeps
<1>3. CASE step \in {"after", "final"} /\ Len(asked) = 4 /\ asked' = << >> /\ step' = "rejected"
           /\ UNCHANGED sessionVars
  <2>1. UNCHANGED <<snap, atSeal, status, todo>>
    BY <1>3 DEF sessionVars, control
  <2>2. << >> \in Seq(SUBSET Paths) /\ Len(<< >>) = 0
    OBVIOUS
  <2>3. TreeCalling'
    BY <1>1, <1>3, <2>1, <2>2 DEF TreeInv, TreeCalling, UsesGit
  <2>4. TreeAnswered'
    BY <1>3 DEF TreeAnswered
  <2>5. TreeAccepted'
    BY <1>3, <2>1 DEF TreeInv, TreeAccepted, ContentsCoexist, AcceptedIsOneMoment,
           WalkIsComplete, NodeFiles, Leaf
  <2> QED
    BY <1>1, <1>3, <2>3, <2>4, <2>5, TreeCallerKeeps
<1>4. CASE step \in {"after", "final"} /\ Len(asked) = 4 /\ asked' = << >> /\ step' = "accepted"
           /\ ~ (step = "after" /\ mode = "git") /\ UNCHANGED sessionVars
  <2>1. UNCHANGED <<snap, atSeal, status, todo>>
    BY <1>4 DEF sessionVars, control
  <2>2. << >> \in Seq(SUBSET Paths) /\ Len(<< >>) = 0
    OBVIOUS
  <2>3. UsesGit
    <3>1. asked # << >>
      BY <1>4
    <3> QED
      BY <3>1 DEF TreeInv, TreeCalling
  <2>4. TreeCalling'
    BY <1>1, <1>4, <2>1, <2>2, <2>3 DEF TreeInv, TreeCalling, UsesGit
  <2>5. TreeAnswered'
    BY <1>4 DEF TreeAnswered
  <2>6. TreeAccepted'
    <3>1. ContentsCoexist'
      BY <2>1 DEF TreeInv, TreeAccepted, ContentsCoexist, NodeFiles, Leaf
    <3>2. AcceptedIsOneMoment'
      <4> SUFFICES ASSUME mode = "git" PROVE AcceptedIsOneMoment'
        BY <1>1 DEF AcceptedIsOneMoment
      <4>1. step = "final"
        BY <1>4
      <4>2. TreeListing
        BY <1>1, <4>1, TreeNoneWaits DEF TreeInv, TreeAnswered
      <4>3. LET es == atSeal.entries
            IN /\ \A p \in files.present : /\ Lookup(es, p) = snap.nodes[p].ino
                                           /\ atSeal.data[Lookup(es, p)] = snap.nodes[p].digest
               /\ \A p \in files.deleted : Lookup(es, p) = None
               /\ files.listed = ls_files(es) /\ files.deleted = deleted_files(es)
        BY <1>1, <1>4, <4>2, TreeOneMoment
      <4> QED
        BY <1>1, <2>1, <4>3 DEF AcceptedIsOneMoment, Lookup, Resolve, ls_files, deleted_files,
               Exists, InScope, Up,
                                Leaf
    <3>3. WalkIsComplete'
      BY <1>1, <2>3 DEF WalkIsComplete, UsesGit
    <3> QED
      BY <3>1, <3>2, <3>3 DEF TreeAccepted
  <2> QED
    BY <1>1, <1>4, <2>4, <2>5, <2>6, TreeCallerKeeps
<1>5. CASE /\ step = "after" /\ mode = "git" /\ Len(asked) = 4 /\ asked' = << >> /\ step' = "final"
           /\ FileSet(asked) = files /\ VerifyAgain
  <2>1. Verify(snap) /\ UNCHANGED atSeal
    BY <1>5 DEF VerifyAgain
  <2>2. /\ snap' = snap /\ status' = "verifying" /\ todo' = VerifyTasks(snap)
        /\ UNCHANGED <<entries, stamp, data, clock>>
    BY <2>1 DEF Verify, fs
  <2>3. TreeMeant(snap.nodes, snap.dirs, snap.absences, snap.structure)
    BY <1>1 DEF TreeInv, TreeSealed, TreeLooking
  <2>4. TreeSealed'
    BY <1>1, <2>1, <2>2, TreeSealedStays DEF fs, TreeLooking
  <2>5. << >> \in Seq(SUBSET Paths) /\ Len(<< >>) = 0
    OBVIOUS
  <2>6. TreeCalling'
    BY <1>1, <1>5, <2>2, <2>5 DEF TreeInv, TreeCalling, UsesGit
  <2>7. TreeAnswered'
    <3>1. CASE \E d \in DOMAIN snap.structure : TreeGone(d)
      <4>1. PICK d \in DOMAIN snap.structure : TreeGone(d)
        BY <3>1
      <4>2. snap.structure # NoStructure
        BY <4>1 DEF NoStructure
      <4>3. PICK s : s = snap
        OBVIOUS
      <4>4. StructureTask \in TreeSet(VerifyTasks(s))
        BY <2>3, <4>2, <4>3, TreeVerifyTasks
      <4>5. TreePending(d)' /\ TreeGone(d)'
        BY <2>2, <4>1, <4>3, <4>4 DEF TreePending, TreeGone
      <4> QED
        BY <1>5, <2>2, <4>1, <4>5 DEF TreeAnswered
    <3>2. CASE ~ \E d \in DOMAIN snap.structure : TreeGone(d)
      <4>1. \A k \in 1 .. 4 : asked[k] = TreeAnswer(k)
        BY <1>1, <1>5, <3>2 DEF TreeInv, TreeAnswered
      <4>2. asked[1] = deleted_files(atSeal.entries) /\ asked[2] = ls_files(atSeal.entries)
        <5>1. 1 \in 1 .. 4 /\ 2 \in 1 .. 4 /\ 1 \in {1, 3} /\ 2 \notin {1, 3}
          OBVIOUS
        <5> QED
          BY <4>1, <5>1 DEF TreeAnswer
      <4>3. TreeListing
        BY <1>5, <4>2 DEF TreeListing, FileSet
      <4>4. TreeListing'
        BY <1>1, <2>1, <4>3 DEF TreeListing, ls_files, deleted_files, InScope
      <4> QED
        BY <1>5, <4>4 DEF TreeAnswered
    <3> QED
      BY <3>1, <3>2
  <2>8. TreeAccepted'
    BY <1>5, <2>2 DEF TreeAccepted, ContentsCoexist, AcceptedIsOneMoment, WalkIsComplete
  <2>9. PICK s : s = snap
    OBVIOUS
  <2>10. Verify(s) /\ TreeMeant(s.nodes, s.dirs, s.absences, s.structure)
    BY <2>1, <2>3, <2>9
  <2> QED
    BY <2>4, <2>6, <2>7, <2>8, <2>10, TreeVerifyKeeps
<1> QED
  BY <1>2, <1>3, <1>4, <1>5 DEF LaterAnswer, Agrees

\* A member of a package is opened again.
LEMMA TreeMemberKeeps ==
  ASSUME TreeAssumption, TreeInv, ReadMember
  PROVE  TreeInv'
<1>1. mode \in {"package", "tarball"} /\ step = "accepted" /\ UNCHANGED <<mode, step, asked, files>>
  BY DEF ReadMember, callerVars
<1>2. PICK p \in DOMAIN snap.nodes :
        /\ status = "sealed" /\ snap.nodes[p].kind = "regular"
        /\ status' = "reopening" /\ reads' = 0
        /\ todo' = << [do |-> "node", path |-> p, bytes |-> snap.nodes[p].bytes, walk |-> FALSE] >>
        /\ UNCHANGED <<fs, facts, snap, why, pc, reg, atSeal>>
  BY DEF ReadMember, Reopen
<1>3. UNCHANGED <<entries, stamp, data, clock, nodes, dirs, absences, structure, snap, pc, reg, atSeal>>
  BY <1>2 DEF fs, facts
<1>4. pc = Start
  BY <1>2 DEF TreeInv, TreeTyped, TreeReopening
<1>5. p \in Paths /\ snap.nodes[p].bytes \in BOOLEAN
  BY <1>2 DEF TreeInv, TreeSealed, TreeLooking, TreeMeant, TreeNodesMeant, TreeNodeType
<1>6. PICK t : t = [do |-> "node", path |-> p, bytes |-> snap.nodes[p].bytes, walk |-> FALSE]
  OBVIOUS
<1>7. t \in TreeTasks /\ t.do = "node" /\ t.path = p /\ t.walk = FALSE
  BY <1>5, <1>6 DEF TreeTasks, TreeNodeTasks
<1>8. todo' = <<t>> /\ todo' \in Seq(TreeTasks) /\ TreeSet(todo') = {t} /\ Len(todo') = 1 /\ Task' = t
      /\ todo' # << >>
  <2>1. todo' = <<t>>
    BY <1>2, <1>6
  <2>2. <<t>> \in Seq(TreeTasks) /\ Head(<<t>>) = t /\ <<t>> # << >>
    BY <1>7
  <2>3. TreeSet(<<t>>) = {t} /\ Len(<<t>>) = 1
    BY TreeOneSet
  <2> QED
    BY <2>1, <2>2, <2>3 DEF Task
<1>9. TreeTyped'
  <2>1. TreeMeant(nodes, dirs, absences, structure)' /\ TreeMoment(TreeNow)' /\ TreeTimed'
    BY <1>3 DEF TreeInv, TreeTyped, TreeTimed, TreeNow
  <2>2. TreeFirst(todo', {"structure"})
    BY <1>7, <1>8, TreeFirstAlone
  <2>3. reads' \in 0 .. MaxReads
    BY <1>2 DEF TreeAssumption
  <2> QED
    BY <1>2, <1>3, <1>4, <1>7, <1>8, <2>1, <2>2, <2>3 DEF TreeInv, TreeTyped, TreePoints
<1>10. TreePlaced' /\ TreeOpened' /\ TreeScanning'
  BY <1>3, <1>4 DEF TreeInv, TreePlaced, TreeOpened, TreeScanning, Start, TreeNoding,
         TreeReading, TreeLinking
<1>11. TreeCapturing' /\ TreeVerifying' /\ TreeRereading' /\ TreeAnswered'
  BY <1>2 DEF TreeCapturing, TreeVerifying, TreeRereading, TreeAnswered
<1>12. TreeSealed'
  BY <1>1, <1>2, <1>3, TreeSealedStays DEF fs, TreeLooking
<1>13. TreeVerified'
  BY <1>2, <1>3 DEF TreeInv, TreeVerified, TreeAgain
<1>14. TreeReopening'
  BY <1>2, <1>3, <1>4, <1>7, <1>8 DEF TreeReopening
<1>15. TreeCalling'
  BY <1>1, <1>2 DEF TreeInv, TreeCalling, UsesGit
<1>16. TreeAccepted'
  BY <1>1, <1>2, <1>3, TreeAcceptedStays
<1> QED
  BY <1>9, <1>10, <1>11, <1>12, <1>13, <1>14, <1>15, <1>16 DEF TreeInv

\* The session starts with nothing known.
LEMMA TreeInitially ==
  ASSUME TreeAssumption, CallerAssumption, Init
  PROVE  TreeInv
<1>1. /\ entries = Tree /\ stamp = [i \in Inodes |-> 0] /\ data = [i \in Leaves |-> <<0, 0>>] /\ clock = 0
      /\ nodes = << >> /\ dirs = OnlyRoot /\ absences = {} /\ structure = NoStructure
      /\ status = "capturing" /\ todo = << >> /\ pc = Start /\ reg = NoReg /\ reads = 0
      /\ mode \in {"git", "archive", "package", "tarball"} /\ asked = << >>
      /\ step = IF UsesGit THEN "before" ELSE "capture"
  BY DEF Init, SessionInit, CallerAssumption
<1>2. MaxMoves \in Nat /\ MaxReads \in Nat /\ 0 \in TreeMarks /\ 0 \in 0 .. MaxReads
  BY DEF TreeAssumption, TreeMarks
<1>3. TreeMoment(TreeNow) /\ TreeTimed
  <2>1. TreeShaped(entries)
    BY <1>1 DEF TreeShaped, TreeAssumption
  <2> QED
    BY <1>1, <1>2, <2>1 DEF TreeMoment, TreeNow, TreeTimed, TreeBytes
<1>4. TreeMeant(nodes, dirs, absences, structure)
  <2>1. TreeNodesMeant(<< >>, OnlyRoot) /\ TreeLevelsMeant(<< >>)
    BY DEF TreeNodesMeant, TreeLevelsMeant
  <2>2. TreeDirsMeant(OnlyRoot)
    BY DEF TreeDirsMeant, OnlyRoot, TreeDirType, TreeDirs, TreeAssumption
  <2> QED
    BY <1>1, <2>1, <2>2 DEF TreeMeant, NoStructure
<1>5. << >> \in Seq(TreeTasks) /\ TreeSet(<< >>) = {} /\ TreeFirst(<< >>, {"structure"}) /\ Len(<< >>) = 0
  BY TreeEmptySet DEF TreeFirst
<1>6. TreeTyped
  BY <1>1, <1>2, <1>3, <1>4, <1>5 DEF TreeTyped, TreePoints
<1>7. TreePlaced /\ TreeOpened /\ TreeScanning
  BY <1>1 DEF TreePlaced, TreeOpened, TreeScanning, Start, TreeNoding, TreeReading, TreeLinking
<1>8. DOMAIN nodes = {} /\ DOMAIN structure = {} /\ DOMAIN dirs = {Top} /\ dirs[Top].children = None
  BY <1>1 DEF OnlyRoot, NoStructure
<1>9. TreeCapturing
  <2>1. TreeTrue(nodes, dirs, absences, structure, TreeNow, todo)
    BY <1>1, <1>8 DEF TreeTrue, TreeSeen, TreeHeld, TreeLed, TreeCovered, TreeAbsent,
           TreeStill, TreeRootStill
  <2>2. TreeWalked(nodes, dirs, todo) /\ TreeOnlyChildren(nodes, dirs, todo)
    BY <1>1, <1>5, <1>8 DEF TreeWalked, TreeOnlyChildren, TreeListed
  <2> QED
    BY <1>1, <1>5, <1>8, <2>1, <2>2 DEF TreeCapturing
<1>10. TreeSealed /\ TreeVerifying /\ TreeRereading /\ TreeVerified /\ TreeAnswered /\ TreeReopening
  BY <1>1 DEF TreeSealed, TreeVerifying, TreeRereading, TreeVerified, TreeAnswered,
         TreeReopening, TreeLooking
<1>11. TreeCalling
  <2>1. << >> \in Seq(SUBSET Paths)
    OBVIOUS
  <2> QED
    BY <1>1, <1>5, <1>8, <2>1 DEF TreeCalling, UsesGit
<1>12. TreeAccepted
  BY <1>1 DEF TreeAccepted, ContentsCoexist, AcceptedIsOneMoment, WalkIsComplete
<1> QED
  BY <1>6, <1>7, <1>9, <1>10, <1>11, <1>12 DEF TreeInv

\* Nothing changes.
LEMMA TreeStutters ==
  ASSUME TreeInv, UNCHANGED vars
  PROVE  TreeInv'
<1>1. UNCHANGED <<sessionVars, mode, step, asked, files>>
  BY DEF vars, callerVars
<1>2. UNCHANGED <<entries, stamp, data, clock, nodes, dirs, absences, structure, snap, status, why, todo, pc, reg,
                  reads, atSeal, mode, step, asked, files>>
  BY <1>1 DEF sessionVars, fs, facts, control
<1>3. TreeCalling'
  BY <1>2 DEF TreeInv, TreeCalling, UsesGit
<1>4. TreeAnswered'
  BY <1>2 DEF TreeInv, TreeAnswered, TreeAnswer, TreeListing, TreePending, TreeGone,
         deleted_files, ls_files, InScope
<1>5. TreeAccepted'
  BY <1>2 DEF TreeInv, TreeAccepted, ContentsCoexist, AcceptedIsOneMoment, WalkIsComplete,
         NodeFiles, Lookup,
       Resolve, ls_files, deleted_files, Exists, InScope, Up, Leaf
<1> QED
  BY <1>1, <1>3, <1>4, <1>5, TreeCallerKeeps

\* Every step of an observation.
LEMMA TreeObserved ==
  ASSUME TreeAssumption, TreeInv, Observe, UNCHANGED callerVars
  PROVE  TreeInv'
<1>1. CASE CachedNode
  BY <1>1, TreeCachedKeeps
<1>2. CASE OpenParent
  BY <1>2, TreeParentKeeps
<1>3. CASE StatNode
  BY <1>3, TreeStatKeeps
<1>4. CASE OpenNode
  BY <1>4, TreeOpenKeeps
<1>5. CASE ReadFirstHalf \/ ReadSecondHalf
  BY <1>5, TreeReadKeeps
<1>6. CASE RecheckDescriptor \/ RecheckName
  BY <1>6, TreeRecheckKeeps
<1>7. CASE RecheckParents
  BY <1>7, TreeChainKeeps
<1>8. CASE EndReopen
  BY <1>8, TreeReopenedKeeps
<1>9. CASE OpenDirectory
  BY <1>9, TreeDirectoryKeeps
<1>10. CASE ReadLink
  BY <1>10, TreeReadLinkKeeps
<1>11. CASE RecheckLink
  BY <1>11, TreeRelinkKeeps
<1>12. CASE ListRoot \/ OpenListed
  BY <1>12, TreeListKeeps
<1>13. CASE Scan
  BY <1>13, TreeScanKeeps
<1>14. CASE EndList
  BY <1>14, TreeEndListKeeps
<1>15. CASE OpenStructure
  BY <1>15, TreeOpenLevelKeeps
<1>16. CASE EndStructure
  BY <1>16, TreeLevelKeeps
<1>17. CASE DropStructure
  BY <1>17, TreeDropKeeps
<1>18. CASE StatAbsent
  BY <1>18, TreeAbsentKeeps
<1>19. CASE DescendAbsent
  BY <1>19, TreeDescendKeeps
<1>20. CASE StatAbsentLeaf
  BY <1>20, TreeAbsentLeafKeeps
<1> QED
  BY <1>1, <1>2, <1>3, <1>4, <1>5, <1>6, <1>7, <1>8, <1>9, <1>10, <1>11, <1>12, <1>13, <1>14, <1>15, <1>16,
     <1>17, <1>18, <1>19, <1>20 DEF Observe

\* Every step of the session, its caller and others.
LEMMA TreeSteps ==
  ASSUME TreeAssumption, CallerAssumption, TreeInv, [Next]_(vars)
  PROVE  TreeInv'
<1>1. CASE AskGit
  BY <1>1, TreeAskKeeps
<1>2. CASE FirstAnswer
  BY <1>2, TreeFirstAnswerKeeps
<1>3. CASE CaptureWithoutGit
  BY <1>3, TreeCaptureKeeps
<1>4. CASE CaptureBytes
  BY <1>4, TreeBytesKeeps
<1>5. CASE SealTree
  BY <1>5, TreeSealKeeps
<1>6. CASE LaterAnswer
  BY <1>6, TreeAnswerKeeps
<1>7. CASE Reject
  BY <1>7, TreeRejectKeeps
<1>8. CASE ReadMember
  BY <1>8, TreeMemberKeeps
<1>9. CASE Observe /\ UNCHANGED callerVars
  BY <1>9, TreeObserved
<1>10. CASE EndVerify /\ UNCHANGED callerVars
  BY <1>10, TreeVerifiedKeeps
<1>11. CASE Others /\ UNCHANGED callerVars
  BY <1>11, TreeOthersKeeps
<1>12. CASE UNCHANGED vars
  BY <1>12, TreeStutters
<1> QED
  BY <1>1, <1>2, <1>3, <1>4, <1>5, <1>6, <1>7, <1>8, <1>9, <1>10, <1>11, <1>12 DEF Next

\* The type invariant of the model is part of this.
LEMMA TreeTypesMeant ==
  ASSUME TreeAssumption, TreeInv
  PROVE  TypeOK
<1>1. /\ entries \in [Directories -> [Names -> Inodes \cup {None}]] /\ stamp \in [Inodes -> 0 .. MaxMoves]
      /\ clock \in 0 .. MaxMoves
  BY DEF TreeInv, TreeTyped, TreeMoment, TreeNow, TreeShaped, TreeTimed, TreeMarks
<1>2. \A p \in DOMAIN nodes : /\ p \in Paths /\ nodes[p].ino \in Inodes
                             /\ nodes[p].stamp \in 0 .. MaxMoves /\ nodes[p].kind = Kind[nodes[p].ino]
  BY DEF TreeInv, TreeTyped, TreeMeant, TreeNodesMeant, TreeNodeType, TreeMarks
<1>3. \A d \in DOMAIN dirs : d \in Paths \cup {Top} /\ dirs[d].ino \in Directories
  <2>1. TreeDirs \subseteq Paths \cup {Top}
    BY TreeSingle DEF TreeDirs
  <2> QED
    BY <2>1 DEF TreeInv, TreeTyped, TreeMeant, TreeDirsMeant, TreeDirType
<1>4. absences \subseteq Paths \X Paths
      /\ status \in {"capturing", "verifying", "sealed", "reopening", "failed"} /\ reads \in 0 .. MaxReads
  BY DEF TreeInv, TreeTyped, TreeMeant
<1>5. /\ step \in {"before", "capture", "bytes", "seal", "after", "verify", "final", "accepted", "rejected"}
      /\ Len(asked) \in 0 .. 4
  <2>1. asked \in Seq(SUBSET Paths) /\ Len(asked) <= 4
    BY DEF TreeInv, TreeCalling
  <2>2. Len(asked) \in Nat
    BY <2>1, LenProperties
  <2>3. Len(asked) \in 0 .. 4
    <3>1. PICK n : n = Len(asked)
      OBVIOUS
    <3>2. n \in Nat /\ n <= 4
      BY <2>1, <2>2, <3>1
    <3>3. n \in 0 .. 4
      BY <3>2
    <3> QED
      BY <3>1, <3>3
  <2>4. step \in {"before", "capture", "bytes", "seal", "after", "verify", "final", "accepted", "rejected"}
    BY DEF TreeInv, TreeCalling
  <2> QED
    BY <2>3, <2>4
<1> QED
  BY <1>1, <1>2, <1>3, <1>4, <1>5 DEF TypeOK

\* What is sealed was so at one moment, and what is accepted is the worktree or the whole walk.
LEMMA TreeKeepsPromises ==
  ASSUME TreeInv
  PROVE  ContentsCoexist /\ AcceptedIsOneMoment /\ WalkIsComplete
BY DEF TreeInv, TreeAccepted

\* The inductive invariant: what a session knows, while the stamps stand.
THEOREM TreeInvariance == ASSUME TreeAssumption, CallerAssumption PROVE Spec => []TreeInv
  BY TreeInitially, TreeSteps, PTL DEF Spec

\* A session keeps to its types, and no round of reads exceeds its limit (_RegularFileRound).
THEOREM TreeTypeCorrect == ASSUME TreeAssumption, CallerAssumption PROVE Spec => []TypeOK
<1>1. TreeInv => TypeOK
  BY TreeTypesMeant
<1> QED
  BY <1>1, TreeInvariance, PTL

\* The contents, links and absences of a sealed tree existed together at one moment (seal,
\* verify); so did the listing of Git that is accepted with them
\* (_make_public_file_universe), and every child of a walk was captured (walk_archive_root).
THEOREM TreeWasOneMoment ==
  ASSUME TreeAssumption, CallerAssumption
  PROVE  Spec => [](ContentsCoexist /\ AcceptedIsOneMoment /\ WalkIsComplete)
<1>1. TreeInv => ContentsCoexist /\ AcceptedIsOneMoment /\ WalkIsComplete
  BY TreeKeepsPromises
<1> QED
  BY <1>1, TreeInvariance, PTL
=============================================================================
