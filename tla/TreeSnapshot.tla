---------------------------- MODULE TreeSnapshot ----------------------------
(***************************************************************************)
(* SnapshotSession of tools/repository_snapshot.py: files, links, child    *)
(* sets and absences below one root are observed through held descriptors, *)
(* one system call at a time, while others change the tree; `seal` and     *)
(* `verify` observe everything again and fail on any difference.           *)
(*                                                                         *)
(* An inode has a stamp (ctime and mtime) that every change of it moves. A *)
(* regular file is read in two halves. Paths have at most two components.  *)
(***************************************************************************)
EXTENDS Naturals, Sequences, FiniteSets

CONSTANTS None,
          Names,      \* the names a directory may contain
          Kind,       \* [inode -> "regular", "symlink" or "directory"]
          Root,       \* the inode the session holds open
          Tree,       \* [directory -> [name -> inode or None]] at the start
          MaxMoves,   \* bound on the changes others make
          MaxReads    \* max_round_bytes, in files

Inodes      == DOMAIN Kind
Directories == { i \in Inodes : Kind[i] = "directory" }
Leaves      == Inodes \ Directories
Paths       == { <<n>> : n \in Names } \cup (Names \X Names)
Top         == << >>

\* There are finitely many names, and paths of at most two: only the root has directories.
TreeAssumption ==
    /\ Root \in Directories /\ Tree \in [Directories -> [Names -> Inodes \cup {None}]]
    /\ \A d \in Directories, n \in Names : Tree[d][n] \in Directories => d = Root /\ Tree[d][n] # Root
    /\ \A i \in Inodes : Kind[i] \in {"regular", "symlink", "directory"}
    /\ IsFiniteSet(Names) /\ IsFiniteSet(Inodes) /\ MaxMoves \in Nat /\ MaxReads \in Nat
    /\ None \notin Inodes

VARIABLES
    entries, stamp, data,   \* the file system
    clock,                  \* changes so far
    nodes,                  \* _nodes: [path -> frozen node]
    dirs,                   \* _directories: [path -> [ino, children]]
    absences,               \* _absences: set of <<path, missing prefix>>
    structure,              \* _structure: [path -> [ino, stamp, children]], or NoStructure
    snap,                   \* _snapshot, or the candidate under verification, or None
    status,                 \* "capturing", "verifying", "sealed", "reopening", "failed"
    why,                    \* what a failure said
    todo,                   \* the observations still to make, in order
    pc, reg,                \* the next system call of the first one, and its locals
    reads,                  \* _RegularFileRound
    atSeal                  \* history: the file system when `seal` was called

fs      == <<entries, stamp, data, clock>>
facts   == <<nodes, dirs, absences, structure>>
control == <<snap, status, why, todo, pc, reg, reads, atSeal>>
sessionVars == <<fs, facts, control>>

Start == "start"

\* What a dictionary is after `f[x] = v`.
Put(f, x, v) == [y \in DOMAIN f \cup {x} |-> IF y = x THEN v ELSE f[y]]
\* A dictionary or set is gone through in one order, whichever it is.
InSomeOrder(S) == CHOOSE q \in [1 .. Cardinality(S) -> S] : \A i, j \in DOMAIN q : q[i] = q[j] => i = j

NoStructure  == << >>
OnlyRoot     == [d \in {Top} |-> [ino |-> Root, children |-> None]]
NoReg == [up |-> None, ino |-> None, stamp |-> 0, half |-> 0, left |-> {}, seen |-> {}]

SessionInit ==
    /\ entries = Tree
    /\ stamp = [i \in Inodes |-> 0] /\ data = [i \in Leaves |-> <<0, 0>>] /\ clock = 0
    /\ nodes = << >> /\ dirs = OnlyRoot
    /\ absences = {} /\ structure = NoStructure
    /\ snap = None /\ status = "capturing" /\ why = "none"
    /\ todo = << >> /\ pc = Start /\ reg = NoReg /\ reads = 0
    /\ atSeal = None

-----------------------------------------------------------------------------
(* The file system, and what others do to it. *)

IsDirectory(i) == i # None /\ Kind[i] = "directory"
Up(p)   == IF Len(p) = 1 THEN Top ELSE <<p[1]>>
Leaf(p) == p[Len(p)]

\* The inode a directory path leads to.
Resolve(es, d) == IF d = Top THEN Root
                  ELSE IF IsDirectory(es[Root][d[1]]) THEN es[Root][d[1]] ELSE None
Lookup(es, p)  == LET up == Resolve(es, Up(p))
                  IN IF up = None THEN None ELSE es[up][Leaf(p)]

Placed == { i \in Inodes : \E d \in Directories, n \in Names : entries[d][n] = i }

Bump(touched) ==
    /\ clock < MaxMoves
    /\ clock' = clock + 1
    /\ stamp' = [i \in Inodes |-> IF i \in touched THEN clock + 1 ELSE stamp[i]]

WriteHalf == \E i \in { j \in Leaves : Kind[j] = "regular" }, h \in {1, 2} :
    /\ Bump({i})
    /\ data' = [data EXCEPT ![i][h] = clock + 1]
    /\ UNCHANGED entries

TakeAway == \E d \in Directories, n \in Names :
    /\ entries[d][n] # None
    /\ Bump({d, entries[d][n]})
    /\ entries' = [entries EXCEPT ![d][n] = None]
    /\ UNCHANGED data

\* A new name for an inode that has none, over a file or where nothing was.
PutBack == \E d \in Directories, n \in Names, i \in Inodes \ (Placed \cup {Root}) :
    /\ ~IsDirectory(entries[d][n])
    /\ Kind[i] = "directory" => d = Root /\ entries[d][n] = None
    /\ Bump({d, i} \cup ({entries[d][n]} \ {None}))
    /\ entries' = [entries EXCEPT ![d][n] = i]
    /\ UNCHANGED data

Others == (WriteHalf \/ TakeAway \/ PutBack) /\ UNCHANGED <<facts, control>>

-----------------------------------------------------------------------------
(* Steps of a session. *)

Task      == Head(todo)
Verifying == status = "verifying"
Running   == todo # << >>
At(step)  == Running /\ pc = step
Doing(work, step) == At(step) /\ Task.do = work

Fail(reason) ==
    /\ status' = "failed" /\ why' = reason /\ todo' = << >> /\ pc' = Start /\ reg' = NoReg
    /\ UNCHANGED <<fs, facts, snap, reads, atSeal>>

To(step, locals) ==
    /\ pc' = step /\ reg' = locals
    /\ UNCHANGED <<snap, status, why, todo, atSeal>>

\* The task is done; `more` comes before the rest.
Finish(more) ==
    /\ todo' = more \o Tail(todo) /\ pc' = Start /\ reg' = NoReg
    /\ UNCHANGED <<snap, status, why, atSeal>>

\* _merge_directory: a directory seen before has the same identity and children.
CanMerge(d, ino, children) ==
    d \in DOMAIN dirs =>
        /\ dirs[d].ino = ino
        /\ dirs[d].children # None /\ children # None => dirs[d].children = children

Merge(d, ino, children) ==
    dirs' = IF d \in DOMAIN dirs /\ dirs[d].children # None
              THEN dirs
              ELSE Put(dirs, d, [ino |-> ino, children |-> children])

-----------------------------------------------------------------------------
(* _capture_node. *)

Known(p) == status # "reopening" /\ p \in DOMAIN nodes /\ (Task.bytes => nodes[p].bytes)

ChildTasks(d, children) ==
    LET names == { n \in Names : n \in children }
        path(n) == Append(d, n)
    IN InSomeOrder({ [do |-> "node", path |-> path(n), bytes |-> FALSE, walk |-> TRUE] : n \in names })

\* A walk lists a directory after capturing it.
After(node) == IF Task.walk /\ node.kind = "directory"
                 THEN << [Task EXCEPT !.do = "list"] >> ELSE << >>

CachedNode ==
    /\ Doing("node", Start) /\ Known(Task.path)
    /\ Finish(After(nodes[Task.path]))
    /\ UNCHANGED <<fs, facts, reads>>

OpenParent ==
    /\ At(Start) /\ Task.do \in {"node", "list"} /\ Task.path # Top
    /\ Task.do = "node" => ~Known(Task.path)
    /\ LET up == Resolve(entries, Up(Task.path))
       IN IF up # None /\ CanMerge(Up(Task.path), up, None)
            THEN /\ Merge(Up(Task.path), up, None)
                 /\ IF status = "reopening"
                      THEN LET node == snap.nodes[Task.path]
                           IN To("open", [NoReg EXCEPT !.up = up, !.ino = node.ino, !.stamp = node.stamp])
                      ELSE To(IF Task.do = "node" THEN "stat" ELSE "listed", [NoReg EXCEPT !.up = up])
                 /\ UNCHANGED <<fs, nodes, absences, structure, reads>>
            ELSE Fail("parent")

Here == entries[reg.up][Leaf(Task.path)]
Same(i) == i = reg.ino /\ stamp[i] = reg.stamp

\* archive walks of a frozen structure know the kind to expect.
KindExpected(i) ==
    LET d == Up(Task.path)
    IN (Task.walk /\ structure # NoStructure) =>
           /\ d \in DOMAIN structure
           /\ <<Leaf(Task.path), Kind[i]>> \in structure[d].children

StatNode ==
    /\ Doing("node", "stat")
    /\ IF Here # None /\ KindExpected(Here)
         THEN /\ To(CASE Kind[Here] = "regular"   -> "open"
                      [] Kind[Here] = "directory" -> "opendir"
                      [] Kind[Here] = "symlink"   -> "readlink",
                    [reg EXCEPT !.ino = Here, !.stamp = stamp[Here]])
              /\ UNCHANGED <<fs, facts, reads>>
         ELSE Fail(IF Here = None THEN "missing" ELSE "kind")

bugRoundOffByOne ==
    /\ Doing("node", "open")
    /\ IF Here # None /\ Same(Here) /\ reads <= MaxReads
         THEN To("read", reg) /\ reads' = reads + 1 /\ UNCHANGED <<fs, facts>>
         ELSE Fail("changed")
OpenNode ==
    /\ Doing("node", "open")
    /\ IF Here # None /\ Same(Here)
         THEN IF reads < MaxReads
                THEN To("read", reg) /\ reads' = reads + 1 /\ UNCHANGED <<fs, facts>>
                ELSE Fail("round")
         ELSE Fail("changed")

ReadFirstHalf ==
    /\ Doing("node", "read")
    /\ To("rest", [reg EXCEPT !.half = data[reg.ino][1]])
    /\ UNCHANGED <<fs, facts, reads>>

ReadSecondHalf ==
    /\ Doing("node", "rest")
    /\ To("recheck", [reg EXCEPT !.seen = <<reg.half, data[reg.ino][2]>>])
    /\ UNCHANGED <<fs, facts, reads>>

RecheckDescriptor ==
    /\ Doing("node", "recheck")
    /\ IF Same(reg.ino)
         THEN To("rebind", reg) /\ UNCHANGED <<fs, facts, reads>>
         ELSE Fail("changed")

RecheckName ==
    /\ Doing("node", "rebind")
    /\ IF Here # None /\ Same(Here)
         THEN To("chain", reg) /\ UNCHANGED <<fs, facts, reads>>
         ELSE Fail("changed")

Frozen(kind, ino, mark, digest) ==
    [kind |-> kind, ino |-> ino, stamp |-> mark, digest |-> digest, up |-> reg.up,
     bytes |-> Task.bytes]

bugNodeNotCompared(node) ==
    /\ nodes' = Put(nodes, Task.path, node)
    /\ Finish(After(node))
    /\ UNCHANGED <<fs, absences, structure, reads>>
\* The node agrees with what is already known of its path.
Record(node) ==
    LET known == Task.path \in DOMAIN nodes
    IN IF /\ known => [nodes[Task.path] EXCEPT !.bytes = node.bytes] = node
          /\ Verifying => snap.nodes[Task.path] = node
         THEN /\ nodes' = Put(nodes, Task.path, node)
              /\ Finish(After(node))
              /\ UNCHANGED <<fs, absences, structure, reads>>
         ELSE Fail("content")

RecheckParents ==
    /\ Doing("node", "chain") /\ status # "reopening"
    /\ IF Resolve(entries, Up(Task.path)) = reg.up
         THEN Record(Frozen("regular", reg.ino, reg.stamp, reg.seen)) /\ UNCHANGED dirs
         ELSE Fail("parent")

OpenDirectory ==
    /\ Doing("node", "opendir")
    /\ IF Here = reg.ino /\ CanMerge(Task.path, reg.ino, None)
         THEN /\ Record(Frozen("directory", reg.ino, 0, << >>))
              /\ IF status' = "failed" THEN UNCHANGED dirs ELSE Merge(Task.path, reg.ino, None)
         ELSE Fail("changed")

ReadLink ==
    /\ Doing("node", "readlink")
    /\ IF Here # None /\ Kind[Here] = "symlink"
         THEN To("relink", [reg EXCEPT !.seen = data[Here]]) /\ UNCHANGED <<fs, facts, reads>>
         ELSE Fail("changed")

RecheckLink ==
    /\ Doing("node", "relink")
    /\ IF Here # None /\ Same(Here)
         THEN Record(Frozen("symlink", reg.ino, reg.stamp, reg.seen)) /\ UNCHANGED dirs
         ELSE Fail("changed")

-----------------------------------------------------------------------------
(* Child sets: one level of an archive walk, and _verify_directory. *)

Expected(d) == IF Verifying THEN snap.dirs[d].ino ELSE nodes[d].ino

\* A directory frozen without children is only compared by identity, and a walk of
\* a frozen structure takes the names from there.
Opened(i) ==
    /\ IF Verifying /\ snap.dirs[Task.path].children = None
         THEN Finish(<< >>)
         ELSE To("scan", [NoReg EXCEPT !.ino = i,
                                       !.left = IF ~Verifying /\ structure # NoStructure THEN {} ELSE Names])
    /\ UNCHANGED <<fs, facts, reads>>

ListRoot == Doing("list", Start) /\ Task.path = Top /\ Opened(Root)

OpenListed ==
    /\ Doing("list", "listed")
    /\ IF Here # None /\ Here = Expected(Task.path) THEN Opened(Here) ELSE Fail("changed")

Next1(left) == CHOOSE n \in left : TRUE

\* os.scandir, name by name.
Scan ==
    /\ At("scan") /\ Task.do \in {"list", "structure"} /\ reg.left # {}
    /\ LET n == Next1(reg.left)
           i == entries[reg.ino][n]
       IN To("scan", [reg EXCEPT !.left = @ \ {n},
                                 !.seen = IF i = None THEN @ ELSE @ \cup {<<n, Kind[i], i>>}])
    /\ UNCHANGED <<fs, facts, reads>>

NamesOf(children) == { c[1] : c \in children }

EndList ==
    /\ Doing("list", "scan") /\ reg.left = {}
    /\ LET names == IF ~Verifying /\ structure # NoStructure
                      THEN IF Task.path \in DOMAIN structure
                             THEN NamesOf(structure[Task.path].children) ELSE None
                      ELSE NamesOf(reg.seen)
       IN IF names # None /\ (IF Verifying THEN snap.dirs[Task.path].children = names
                                           ELSE CanMerge(Task.path, reg.ino, names))
            THEN /\ IF Verifying THEN UNCHANGED dirs ELSE Merge(Task.path, reg.ino, names)
                 /\ Finish(IF Verifying THEN << >> ELSE ChildTasks(Task.path, names))
                 /\ UNCHANGED <<fs, nodes, absences, structure, reads>>
            ELSE Fail("entries")

-----------------------------------------------------------------------------
(* _observe_directory_structure: every directory with its stamp, top down. *)

OpenStructure ==
    /\ Doing("structure", Start)
    /\ LET i == Resolve(entries, Task.path)
       IN IF i # None /\ (Task.path # Top => i = Task.ino)
            THEN /\ To("scan", [NoReg EXCEPT !.ino = i, !.stamp = stamp[i], !.left = Names])
                 /\ UNCHANGED <<fs, facts, reads>>
            ELSE Fail("structure")

EndStructure ==
    /\ Doing("structure", "scan") /\ reg.left = {}
    /\ LET seen == [ino |-> reg.ino, stamp |-> reg.stamp,
                    children |-> { <<c[1], c[2]>> : c \in reg.seen }]
           more == InSomeOrder({ [do |-> "structure", path |-> <<c[1]>>, ino |-> c[3]]
                              : c \in { e \in reg.seen : e[2] = "directory" } })
       IN IF /\ Same(reg.ino)
             /\ Verifying => Task.path \in DOMAIN snap.structure
                             /\ snap.structure[Task.path] = seen
            THEN /\ structure' = IF Verifying THEN structure
                                   ELSE Put(structure, Task.path, seen)
                 /\ Finish(more)
                 /\ UNCHANGED <<fs, nodes, dirs, absences, reads>>
            ELSE Fail("structure")

\* walk_archive_root keeps the child sets and forgets the structure.
DropStructure ==
    /\ Doing("drop", Start)
    /\ structure' = NoStructure
    /\ Finish(<< >>) /\ UNCHANGED <<fs, nodes, dirs, absences, reads>>

-----------------------------------------------------------------------------
(* prove_absent and _verify_absence. *)

Proof(prefix) ==
    IF Verifying
      THEN IF <<Task.path, prefix>> \in snap.absences
             THEN Finish(<< >>) /\ UNCHANGED <<fs, facts, reads>>
             ELSE Fail("boundary")
      ELSE /\ absences' = { a \in absences : a[1] # Task.path } \cup {<<Task.path, prefix>>}
           /\ Finish(<< >>)
           /\ UNCHANGED <<fs, nodes, dirs, structure, reads>>

StatAbsent ==
    /\ Doing("absent", Start)
    /\ LET i == entries[Root][Task.path[1]]
       IN IF i = None THEN Proof(<<Task.path[1]>>)
          ELSE IF Len(Task.path) = 1 THEN Fail("appeared")
          ELSE IF ~IsDirectory(i) THEN Fail("unsafe")
          ELSE To("descend", NoReg) /\ UNCHANGED <<fs, facts, reads>>

DescendAbsent ==
    /\ Doing("absent", "descend")
    /\ LET d == <<Task.path[1]>>
           i == Resolve(entries, d)
       IN IF i # None /\ (~Verifying => CanMerge(d, i, None))
            THEN /\ IF Verifying THEN UNCHANGED dirs ELSE Merge(d, i, None)
                 /\ To("leaf", [NoReg EXCEPT !.up = i])
                 /\ UNCHANGED <<fs, nodes, absences, structure, reads>>
            ELSE Fail("unsafe")

StatAbsentLeaf ==
    /\ Doing("absent", "leaf")
    /\ IF Here = None THEN Proof(Task.path) ELSE Fail("appeared")

-----------------------------------------------------------------------------
(* seal and verify. *)

StructureTask == [do |-> "structure", path |-> Top, ino |-> Root]

VerifyTasks(s) ==
    (IF s.structure = NoStructure THEN << >> ELSE << StructureTask >>)
    \o InSomeOrder({ [do |-> "list", path |-> d, bytes |-> FALSE, walk |-> FALSE] : d \in DOMAIN s.dirs })
    \o InSomeOrder({ [do |-> "node", path |-> p, bytes |-> s.nodes[p].bytes, walk |-> FALSE]
                  : p \in DOMAIN s.nodes })
    \o InSomeOrder({ [do |-> "absent", path |-> a[1]] : a \in s.absences })

\* The session's facts make way for a second observation, with a fresh round.
Verify(s) ==
    /\ snap' = s /\ status' = "verifying" /\ todo' = VerifyTasks(s)
    /\ nodes' = << >> /\ dirs' = OnlyRoot /\ absences' = {}
    /\ reads' = 0 /\ pc' = Start /\ reg' = NoReg
    /\ UNCHANGED <<fs, structure, why>>

Candidate == [nodes |-> nodes, dirs |-> dirs, absences |-> absences, structure |-> structure]

Seal ==
    /\ status = "capturing" /\ todo = << >>
    /\ atSeal' = [entries |-> entries, data |-> data, stamp |-> stamp]
    /\ Verify(Candidate)

VerifyAgain == status = "sealed" /\ Verify(snap) /\ UNCHANGED atSeal

\* open_verified_regular: the same steps against the sealed node.
Reopen == \E p \in DOMAIN snap.nodes :
    /\ status = "sealed" /\ snap.nodes[p].kind = "regular"
    /\ status' = "reopening" /\ reads' = 0
    /\ todo' = << [do |-> "node", path |-> p, bytes |-> snap.nodes[p].bytes, walk |-> FALSE] >>
    /\ UNCHANGED <<fs, facts, snap, why, pc, reg, atSeal>>

EndReopen ==
    /\ Doing("node", "chain") /\ status = "reopening"
    /\ IF /\ Resolve(entries, Up(Task.path)) = reg.up
          /\ snap.nodes[Task.path] = Frozen("regular", reg.ino, reg.stamp, reg.seen)
         THEN /\ status' = "sealed" /\ todo' = << >> /\ pc' = Start /\ reg' = NoReg
              /\ UNCHANGED <<fs, facts, snap, why, reads, atSeal>>
         ELSE Fail("content")

EndVerify ==
    /\ Verifying /\ todo = << >>
    /\ status' = "sealed"
    /\ nodes' = snap.nodes /\ dirs' = snap.dirs /\ absences' = snap.absences
    /\ UNCHANGED <<fs, structure, snap, why, todo, pc, reg, reads, atSeal>>

Observe ==
    \/ CachedNode \/ OpenParent \/ StatNode \/ OpenNode \/ ReadFirstHalf \/ ReadSecondHalf
    \/ RecheckDescriptor \/ RecheckName \/ RecheckParents \/ EndReopen \/ OpenDirectory \/ ReadLink
    \/ RecheckLink \/ ListRoot \/ OpenListed \/ Scan \/ EndList
    \/ OpenStructure \/ EndStructure \/ DropStructure \/ StatAbsent \/ DescendAbsent \/ StatAbsentLeaf

=============================================================================
