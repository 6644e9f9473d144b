---------------------------- MODULE TestInventory ----------------------------
(***************************************************************************)
(* The matrix of tools/check_test_inventory.py: one row per environment,   *)
(* test root and optimize mode.  A Zig row starts without an expectation;  *)
(* a run of the compiled tests on that very machine emits a protocol block *)
(* with their names, and --refresh-from-protocol merges such logs into the *)
(* inventory.  Sources and inventory change while logs travel.             *)
(*                                                                         *)
(* Sets and bindings are named by the digest of their content; here they   *)
(* are their content.  Compiling yields the declared tests that a root     *)
(* reaches and that exist on the machine (Native).                         *)
(***************************************************************************)
EXTENDS Naturals, FiniteSets, FiniteSetsExt, Graphs

CONSTANTS Envs, ZigRoots, PyRoots, Modes,
          Applies,       \* the <<environment, root>> pairs whose rows execute
          Files, Entry,  \* Zig files; the entry file of each Zig root
          Native,        \* environment -> names that exist there
          Names, PyNames,
          Sources,       \* source trees: [decl, imports, py]
          MaxTests,      \* limit on the tests of all logs of one refresh
          MaxLogs,       \* bound on the logs one refresh is given
          MaxRuns, MaxEdits

InventoryAssumption ==
    /\ Applies \subseteq Envs \X (ZigRoots \cup PyRoots)
    /\ ZigRoots \cap PyRoots = {} /\ Modes # {}
    /\ \A root \in PyRoots : \E e \in Envs : <<e, root>> \in Applies
    /\ Sources \subseteq [decl : [Files -> SUBSET Names], imports : SUBSET (Files \X Files),
                          py : SUBSET PyNames]
    /\ MaxTests \in Nat /\ MaxLogs \in Nat /\ MaxRuns \in Nat /\ MaxEdits \in Nat

Rows == Envs \X (ZigRoots \cup PyRoots) \X Modes
Executes(r) == <<r[1], r[2]>> \in Applies
IsZig(r)    == r[2] \in ZigRoots

VARIABLES
    src,              \* the checkout
    inventory,        \* the file
    logs,             \* protocol blocks captured so far
    seen,             \* history: <<row, names>> that a compiled program reported
    pc,               \* of the one refresh: "idle", "merge", "validate", "publish"
    base, bindings,   \* the inventory it read; the <<environment, log>> it was given
    candidate, moved, \* what it built; the sources changed since
    runs, edits

vars == <<src, inventory, logs, seen, pc, base, bindings, candidate, moved, runs, edits>>

-----------------------------------------------------------------------------
(* Independent discovery. *)

Reached(s, root) ==
    { f \in Files : ConnectionsIn([node |-> Files, edge |-> s.imports])[Entry[root], f] }

DeclaredFor(s, root) == UNION { s.decl[f] : f \in Reached(s, root) }

Compiled(s, r) == DeclaredFor(s, r[2]) \cap Native[r[1]]

\* zig_test_files: the declarations of each file and the roots that reach it.
ReachFacts(s) == [f \in Files |-> [tests |-> s.decl[f],
                                   roots |-> { z \in ZigRoots : f \in Reached(s, z) }]]

Pending       == [state |-> "requires-native-enumeration", tests |-> {}]
NotApplicable == [state |-> "not-applicable", tests |-> {}]
Frozen(tests) == [state |-> "frozen-compiler-enumeration", tests |-> tests]
IsFrozen(row) == row.state = "frozen-compiler-enumeration"

InitialRow(s, r) == IF ~Executes(r) THEN NotApplicable
                    ELSE IF IsZig(r) THEN Pending
                    ELSE Frozen(s.py)

PythonSets(py) == { [root |-> p, tests |-> py] : p \in PyRoots }

\* Files no root reaches, and per environment the rows nothing was observed for.
Gaps(rows, files) ==
    [unreached |-> { f \in Files : files[f].tests # {} /\ files[f].roots = {} },
     pending   |-> [e \in Envs |-> { r \in Rows : r[1] = e /\ rows[r] = Pending }]]

Discover(s) ==
    LET rows == [r \in Rows |-> InitialRow(s, r)] IN
    [declarations |-> s.py, files |-> ReachFacts(s), rows |-> rows,
     sets |-> PythonSets(s.py), bindings |-> {}, gaps |-> Gaps(rows, ReachFacts(s))]

-----------------------------------------------------------------------------
(* Validation against discovered facts. *)

\* A row's state, set and native binding fit together.
RowHolds(inv, r) ==
    LET row   == inv.rows[r]
        bound == { b \in inv.bindings : b.row = r } IN
    \/ row = NotApplicable /\ ~Executes(r) /\ bound = {}
    \/ row = Pending /\ Executes(r) /\ IsZig(r) /\ bound = {}
    \/ /\ IsFrozen(row) /\ Executes(r)
       /\ [root |-> r[2], tests |-> row.tests] \in inv.sets
       /\ bound = IF IsZig(r) THEN {[row |-> r, tests |-> row.tests]} ELSE {}

Referenced(rows) ==
    { [root |-> r[2], tests |-> rows[r].tests] : r \in { q \in Rows : IsFrozen(rows[q]) } }

\* Every recorded name of a Zig root ends like a declaration that reaches the root.
NamesReach(inv, files) ==
    \A set \in inv.sets :
        set.root \in ZigRoots =>
            /\ set.tests # {}
            /\ set.tests \subseteq UNION { files[f].tests : f \in { g \in Files :
                                                    set.root \in files[g].roots } }

\* Everything but the names, which are the compiler's.
Consistent(inv, expected) ==
    /\ inv.declarations = expected.declarations
    /\ PythonSets(expected.declarations) \subseteq inv.sets
    /\ \A r \in Rows : RowHolds(inv, r)
    /\ inv.sets = Referenced(inv.rows)
    /\ inv.files = expected.files
    /\ inv.gaps = Gaps(inv.rows, expected.files)

RuntimeBound(inv, expected) == Consistent(inv, expected) /\ NamesReach(inv, expected.files)

\* At the base of a refresh the Python declarations may be older than the sources.
CompatibleDiscovery(inv, s) ==
    [Discover(s) EXCEPT !.declarations = inv.declarations, !.sets = PythonSets(inv.declarations),
                        !.rows = inv.rows]

-----------------------------------------------------------------------------
TypeOK ==
    /\ src \in Sources /\ moved \in BOOLEAN
    /\ \A inv \in {inventory, base, candidate} :
         /\ DOMAIN inv.rows = Rows
         /\ \A r \in Rows : inv.rows[r].tests \subseteq Names \cup PyNames
         /\ \A b \in inv.bindings : b.row \in Rows /\ IsZig(b.row) /\ b.tests \subseteq Names
         /\ \A set \in inv.sets : set.root \in ZigRoots \cup PyRoots
    /\ logs \subseteq [class : Envs, root : ZigRoots, mode : Modes, names : SUBSET Names]
    /\ bindings \subseteq Envs \X logs
    /\ pc \in {"idle", "merge", "validate", "publish"}
    /\ runs \in 0 .. MaxRuns /\ edits \in 0 .. MaxEdits

Init ==
    /\ src \in Sources /\ moved = FALSE
    /\ inventory = Discover(src) /\ base = inventory /\ candidate = inventory
    /\ logs = {} /\ seen = {} /\ bindings = {}
    /\ pc = "idle" /\ runs = 0 /\ edits = 0

-----------------------------------------------------------------------------
(* A test program on its machine. *)

\* Digest, row, profile and class hold; a frozen row must name exactly the compiled tests.
RunnerAccepts(r) ==
    /\ Executes(r)
    /\ inventory.rows[r] # Pending => inventory.rows[r].tests = Compiled(src, r)

\* The protocol is emitted for a frozen row that matches and for a pending one.
RunTests(r) ==
    /\ runs < MaxRuns /\ runs' = runs + 1
    /\ IsZig(r) /\ RunnerAccepts(r)
    /\ logs' = logs \cup {[class |-> r[1], root |-> r[2], mode |-> r[3],
                           names |-> Compiled(src, r)]}
    /\ seen' = seen \cup {<<r, Compiled(src, r)>>}
    /\ UNCHANGED <<src, inventory, pc, base, bindings, candidate, moved, edits>>

-----------------------------------------------------------------------------
(* --refresh-from-protocol. *)

Ends == /\ pc' = "idle" /\ moved' = FALSE /\ bindings' = {}
        /\ base' = inventory' /\ candidate' = inventory'

GiveUp == UNCHANGED inventory /\ Ends

\* The inventory is read and validated against the sources of that moment.
StartRefresh ==
    /\ pc = "idle"
    /\ \E given \in SUBSET (Envs \X logs) :
         /\ given # {} /\ Cardinality(given) <= MaxLogs
         /\ bindings' = given
         /\ RuntimeBound(inventory, CompatibleDiscovery(inventory, src))
    /\ base' = inventory
    /\ pc' = "merge"
    /\ UNCHANGED <<src, inventory, logs, seen, candidate, moved, runs, edits>>

\* The limits are cumulative over all logs; blocks must be nonempty.
Parses ==
    /\ MapThenSumSet(LAMBDA b : Cardinality(b[2].names), bindings) <= MaxTests
    /\ \A b \in bindings : b[2].names # {}

RowOf(b) == <<b[1], b[2].root, b[2].mode>>

bugClassIgnored ==
    \A b, c \in bindings : /\ Executes(RowOf(b))
                           /\ RowOf(b) = RowOf(c) => b = c
\* Each block is for an executing row, from that row's class of machine, and the only one.
BlocksFit ==
    /\ \A b \in bindings : Executes(RowOf(b)) /\ b[2].class = b[1]
    /\ \A b, c \in bindings : RowOf(b) = RowOf(c) => b = c

Observed == { r \in Rows : \E b \in bindings : RowOf(b) = r }

\* An observed row takes the names of its block; another frozen Zig row keeps its set.
MergedRow(r, fresh) ==
    IF r \in Observed
      THEN Frozen((CHOOSE b \in bindings : RowOf(b) = r)[2].names)
    ELSE IF IsZig(r) /\ IsFrozen(base.rows[r])
      THEN base.rows[r]
    ELSE fresh

\* Only sets that a row refers to are kept.
MergedSets(fresh, rows) == Referenced(rows)

Merge(fresh) ==
    LET rows == [r \in Rows |-> MergedRow(r, fresh.rows[r])] IN
    [fresh EXCEPT !.rows = rows,
                  !.sets = MergedSets(fresh, rows),
                  !.bindings = { [row |-> r, tests |-> rows[r].tests] :
                                   r \in { q \in Rows : IsZig(q) /\ IsFrozen(rows[q]) } },
                  !.gaps = Gaps(rows, fresh.files)]

MergeLogs ==
    /\ pc = "merge"
    /\ \/ /\ Parses /\ BlocksFit
          /\ moved' = FALSE /\ candidate' = Merge(Discover(src))
          /\ pc' = "validate"
          /\ UNCHANGED <<inventory, base, bindings>>
       \/ ~(Parses /\ BlocksFit) /\ GiveUp
    /\ UNCHANGED <<src, logs, seen, runs, edits>>

\* Discovered a third time; the file must still be the one that was read.
ValidateCandidate ==
    /\ pc = "validate"
    /\ \/ /\ inventory = base /\ RuntimeBound(candidate, Discover(src))
          /\ pc' = "publish"
          /\ UNCHANGED <<inventory, base, bindings, candidate, moved>>
       \/ GiveUp
    /\ UNCHANGED <<src, logs, seen, runs, edits>>

\* InventoryPublication in one step.
Publish ==
    /\ pc = "publish"
    /\ \/ /\ inventory = base /\ inventory' = candidate
          /\ Ends
       \/ GiveUp
    /\ UNCHANGED <<src, logs, seen, runs, edits>>

-----------------------------------------------------------------------------
(* The rest of the world. *)

EditSources ==
    /\ edits < MaxEdits /\ edits' = edits + 1
    /\ src' \in Sources \ {src} /\ moved' = (pc = "validate")
    /\ UNCHANGED <<inventory, logs, seen, pc, base, bindings, candidate, runs>>

\* A reviewed change starts the inventory again from what the sources declare.
Regenerate ==
    /\ edits < MaxEdits /\ edits' = edits + 1
    /\ inventory' = Discover(src)
    /\ IF pc = "idle" THEN Ends ELSE UNCHANGED <<pc, base, bindings, candidate, moved>>
    /\ UNCHANGED <<src, logs, seen, runs>>

Next == \/ \E r \in Rows : RunTests(r)
        \/ StartRefresh \/ MergeLogs \/ ValidateCandidate \/ Publish
        \/ EditSources \/ Regenerate

Spec == Init /\ [][Next]_vars

-----------------------------------------------------------------------------
(* Properties. *)

\* A Zig row is frozen only with names that a program compiled for that environment, root
\* and mode reported on that class of machine; logs of other machines, files bound to the
\* wrong environment and retained rows never make one up (refresh_from_protocol).
NativeProvenance ==
    \A r \in Rows : IsZig(r) /\ IsFrozen(inventory.rows[r]) =>
        <<r, inventory.rows[r].tests>> \in seen

\* The merge and the validation agree: while the sources stand still a candidate can be
\* refused only for names that no declaration reaches any more, never for its own
\* references, orphan sets, bindings or gaps.
MergeIsConsistent ==
    pc = "validate" /\ ~moved => Consistent(candidate, Discover(src))

\* A refresh leaves the frozen Zig rows it was given no block for as they were.
UnobservedRowsKept ==
    pc = "publish" /\ pc' = "idle" /\ inventory' # inventory =>
        \A r \in Rows \ Observed :
            IsZig(r) /\ IsFrozen(inventory.rows[r]) => inventory'.rows[r] = inventory.rows[r]
=============================================================================
