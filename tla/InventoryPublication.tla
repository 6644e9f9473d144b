------------------------- MODULE InventoryPublication -------------------------
(***************************************************************************)
(* The refresh of a checked-in inventory by tools/check_build_inventory.py *)
(* and tools/check_test_inventory.py: read the inventory, derive and       *)
(* approve a candidate, write it to a temporary file beside it, compare    *)
(* the inventory once more with what was read, rename.  There is no lock:  *)
(* several processes may refresh at once and editors may write the file.   *)
(*                                                                         *)
(* Every write of the inventory has an identity of its own (device, inode, *)
(* size, mtime, ctime): a version is a number for the edits of others and  *)
(* the publisher itself for its candidate.                                 *)
(***************************************************************************)
EXTENDS Naturals, FiniteSets, ClaimOutcome

CONSTANTS Publishers,   \* the processes that refresh the inventory
          MaxOutside,   \* bound on the edits of others
          MaxDeaths     \* bound on killed publishers

PublicationAssumption ==
    /\ MaxOutside \in Nat /\ MaxDeaths \in Nat
    /\ IsFiniteSet(Publishers) /\ Publishers \cap (0 .. MaxOutside) = {}

VARIABLES
    tool,                    \* which of the two programs this is
    target,                  \* the version under the inventory's name
    temp,                    \* what each publisher's temporary name holds
    vault,                   \* what quarantines keep: <<publisher, content>>
    pc,
    expected, observed,      \* versions read first, and for the comparison
    offset,                  \* the bytes os.write is known to have written
    identified,              \* fstat told the temporary's identity
    closed,                  \* "open", "closed" or "uncertain"
    committed, incomplete,   \* rows without a native observation remain
    named, exit,             \* the error names the temporary; the exit status
    outside,                 \* edits of others so far
    raced, swapped, raised   \* history: the inventory changed since the comparison
                             \* opened it, the temporary changed since it was
                             \* verified, os.replace raised after it happened

files   == <<target, temp, vault>>
local   == <<expected, observed, offset, identified, closed, committed, incomplete>>
history == <<raced, swapped, raised>>
world   == <<tool, outside>>
vars    == <<files, local, history, world, pc, named, exit>>

Versions == Publishers \cup 0 .. MaxOutside
Contents == {"part", "more", "full", "other"}
Exits    == {"none", "0", "1", "3", "dead"}

TypeOK ==
    /\ tool \in {"build", "test"}
    /\ target \in Versions
    /\ temp \in [Publishers -> Contents \cup {None}]
    /\ vault \subseteq Publishers \X Contents
    /\ pc \in [Publishers -> {"read", "freeze", "validate", "create", "write", "seal", "verify",
                              "open", "compare", "replace", "sync", "finally", "end"}]
    /\ {expected, observed} \subseteq [Publishers -> Versions]
    /\ offset \in [Publishers -> {"part", "full"}]
    /\ closed \in [Publishers -> {"open", "closed", "uncertain"}]
    /\ {identified, committed, incomplete, named, raced, swapped, raised}
         \subseteq [Publishers -> BOOLEAN]
    /\ exit \in [Publishers -> Exits]
    /\ outside \in 0 .. MaxOutside

Everyone(v) == [p \in Publishers |-> v]

Init ==
    /\ tool \in {"build", "test"}
    /\ target = 0 /\ outside = 0
    /\ temp = Everyone(None) /\ vault = {} /\ pc = Everyone("read")
    /\ expected = Everyone(0) /\ observed = Everyone(0)
    /\ offset = Everyone("part") /\ closed = Everyone("open")
    /\ identified = Everyone(FALSE) /\ committed = Everyone(FALSE)
    /\ incomplete \in { f \in [Publishers -> BOOLEAN] : tool = "build" => f = Everyone(FALSE) }
    /\ named = Everyone(FALSE) /\ exit = Everyone("none")
    /\ raced = Everyone(FALSE) /\ swapped = Everyone(FALSE) /\ raised = Everyone(FALSE)

Goto(p, next) == pc' = [pc EXCEPT ![p] = next] /\ UNCHANGED <<named, exit>>

\* Nothing was created yet: the program reports and exits with status 1.
Refuse(p) == /\ pc' = [pc EXCEPT ![p] = "end"] /\ exit' = [exit EXCEPT ![p] = "1"]
             /\ UNCHANGED named

\* The finally clause runs whatever was raised.
Fail(p) == Goto(p, "finally")

Report(p) == named' = [named EXCEPT ![p] = TRUE]

-----------------------------------------------------------------------------
(* The candidate. *)

\* The bounded read of a file opened without following links: the version it opened,
\* or an error when anything about it changed until the last fstat.
ReadStable(v) == v = target

ReadInventory(p) ==
    /\ pc[p] = "read"
    /\ \/ /\ expected' = [expected EXCEPT ![p] = target]
          /\ Goto(p, "freeze")
       \/ Refuse(p) /\ UNCHANGED expected
    /\ UNCHANGED <<files, world, history, observed, offset, identified, closed,
                   committed, incomplete>>

\* The frozen node of the inventory is the file that was read.
MatchesNode(p) == expected[p] = target

\* Sources and inventory are frozen together; the node must be what was read.
FreezeContext(p) ==
    /\ pc[p] = "freeze"
    /\ \/ /\ MatchesNode(p)
          /\ Goto(p, IF tool = "build" THEN "create" ELSE "validate")
       \/ Refuse(p)
    /\ UNCHANGED <<files, world, history, local>>

\* The test inventory is validated against a second frozen context.
ValidateCandidate(p) ==
    /\ pc[p] = "validate"
    /\ \/ /\ MatchesNode(p)
          /\ Goto(p, "create")
       \/ Refuse(p)
    /\ UNCHANGED <<files, world, history, local>>

-----------------------------------------------------------------------------
(* The temporary. *)

\* O_EXCL creates it; without fstat's identity it is never removed again.
CreateTemporary(p) ==
    /\ pc[p] = "create"
    /\ \/ /\ temp' = [temp EXCEPT ![p] = "part"]
          /\ \/ /\ identified' = [identified EXCEPT ![p] = TRUE]
                /\ Goto(p, "write")
             \/ UNCHANGED identified /\ Fail(p)
       \/ Refuse(p) /\ UNCHANGED <<temp, identified>>
    /\ UNCHANGED <<target, vault, world, history, expected, observed, offset, closed,
                   committed, incomplete>>

\* A write that raises may have written more than the offset counts.
WriteCandidate(p) ==
    /\ pc[p] = "write"
    /\ \/ /\ temp' = [temp EXCEPT ![p] = IF @ = "part" THEN "full" ELSE @]
          /\ offset' = [offset EXCEPT ![p] = "full"]
          /\ Goto(p, "seal")
       \/ /\ \E c \in {"part", "more", "full"} :
               temp' = [temp EXCEPT ![p] = IF @ = "part" THEN c ELSE @]
          /\ UNCHANGED offset /\ Fail(p)
    /\ UNCHANGED <<target, vault, world, history, expected, observed, identified, closed,
                   committed, incomplete>>

\* fchmod, fsync and the one close; an uncertain close forbids any cleanup.
SealTemporary(p) ==
    /\ pc[p] = "seal"
    /\ \/ closed' = [closed EXCEPT ![p] = "closed"] /\ Goto(p, "verify")
       \/ closed' = [closed EXCEPT ![p] = "uncertain"] /\ Fail(p)
       \/ UNCHANGED closed /\ Fail(p)
    /\ UNCHANGED <<files, world, history, expected, observed, offset, identified,
                   committed, incomplete>>

VerifyTemporary(p) ==
    /\ pc[p] = "verify"
    /\ \/ /\ temp[p] = "full"
          /\ swapped' = [swapped EXCEPT ![p] = FALSE]
          /\ Goto(p, "open")
       \/ UNCHANGED swapped /\ Fail(p)
    /\ UNCHANGED <<files, world, local, raced, raised>>

-----------------------------------------------------------------------------
(* The comparison and the rename. *)

OpenTarget(p) ==
    /\ pc[p] = "open"
    /\ observed' = [observed EXCEPT ![p] = target]
    /\ raced' = [raced EXCEPT ![p] = FALSE]
    /\ \/ Goto(p, "compare")
       \/ Fail(p)
    /\ UNCHANGED <<files, world, expected, offset, identified, closed, committed,
                   incomplete, swapped, raised>>

CompareTarget(p) ==
    /\ pc[p] = "compare"
    /\ \/ /\ ReadStable(observed[p]) /\ observed[p] = expected[p]
          /\ Goto(p, "replace")
       \/ Fail(p)
    /\ UNCHANGED <<files, world, local, history>>

\* The rename happens, or it raises; when it raises it may have happened.
ReplaceTarget(p) ==
    /\ pc[p] = "replace"
    /\ \E happens, raises \in BOOLEAN :
         /\ happens \/ raises
         /\ happens => temp[p] # None
         /\ IF happens
              THEN /\ target' = p /\ temp' = [temp EXCEPT ![p] = None]
                   /\ raced' = [q \in Publishers |-> raced[q] \/ q # p]
              ELSE UNCHANGED <<target, temp, raced>>
         /\ raised' = [raised EXCEPT ![p] = happens /\ raises]
         /\ IF raises THEN Fail(p) /\ UNCHANGED committed
                      ELSE committed' = [committed EXCEPT ![p] = TRUE] /\ Goto(p, "sync")
    /\ UNCHANGED <<vault, world, expected, observed, offset, identified, closed,
                   incomplete, swapped>>

\* The directory is synced and closed; a failure leaves the durability uncertain.
SyncDirectory(p) ==
    /\ pc[p] = "sync"
    /\ \/ exit' = [exit EXCEPT ![p] = IF incomplete[p] THEN "1" ELSE "0"]
       \/ exit' = [exit EXCEPT ![p] = "3"]
    /\ pc' = [pc EXCEPT ![p] = "end"] /\ UNCHANGED named
    /\ UNCHANGED <<files, world, local, history>>

-----------------------------------------------------------------------------
(* The finally clause of a publication that did not commit. *)

Ends(p) == pc' = [pc EXCEPT ![p] = "end"] /\ exit' = [exit EXCEPT ![p] = "1"]

\* What the verifier of the claim accepts: the bytes counted, or the whole candidate.
OwnBytes(p) == IF tool = "build" THEN offset[p] ELSE "full"

\* After a claim that did not remove the temporary the error lists where it is; the test
\* inventory's cleanup also fails when there was nothing to claim.
Cleaned(answer) == answer \in IF tool = "build" THEN {"absent", "removed"} ELSE {"removed"}

RemoveTemporary(p) ==
    /\ pc[p] = "finally" /\ closed[p] # "uncertain" /\ identified[p]
    /\ \E r \in Removal(OwnBytes(p), temp[p]) :
         /\ temp' = [temp EXCEPT ![p] = r.name]
         /\ vault' = IF r.kept = None THEN vault ELSE vault \cup {<<p, r.kept>>}
         /\ IF Cleaned(r.answer) THEN UNCHANGED named ELSE Report(p)
    /\ Ends(p)
    /\ UNCHANGED <<target, world, local, history>>

\* An unknown identity or an uncertain close (of this clause too): only a report.
LeaveTemporary(p) ==
    /\ pc[p] = "finally"
    /\ \/ closed[p] = "uncertain" \/ ~identified[p]
       \/ closed[p] = "open"
    /\ Report(p) /\ Ends(p)
    /\ UNCHANGED <<files, world, local, history>>

-----------------------------------------------------------------------------
(* The rest of the world. *)

Outside == outside < MaxOutside /\ outside' = outside + 1

OthersEdit ==
    /\ Outside
    /\ \/ /\ target' = outside + 1 /\ raced' = Everyone(TRUE)
          /\ UNCHANGED <<temp, swapped>>
       \/ /\ \E p \in Publishers : /\ temp[p] # None
                                   /\ \E c \in {"other", None} : temp' = [temp EXCEPT ![p] = c]
                                   /\ swapped' = [swapped EXCEPT ![p] = TRUE]
          /\ UNCHANGED <<target, raced>>
    /\ UNCHANGED <<tool, vault, local, pc, named, exit, raised>>

Die(p) == /\ pc[p] # "end"
          /\ Cardinality({ q \in Publishers : exit[q] = "dead" }) < MaxDeaths
          /\ pc' = [pc EXCEPT ![p] = "end"] /\ exit' = [exit EXCEPT ![p] = "dead"]
          /\ UNCHANGED <<files, world, local, history, named>>

Derive(p)  == ReadInventory(p) \/ FreezeContext(p) \/ ValidateCandidate(p)
Write(p)   == CreateTemporary(p) \/ WriteCandidate(p) \/ SealTemporary(p) \/ VerifyTemporary(p)
Install(p) == OpenTarget(p) \/ CompareTarget(p) \/ ReplaceTarget(p) \/ SyncDirectory(p)
Finally(p) == RemoveTemporary(p) \/ LeaveTemporary(p)
Run(p)     == Derive(p) \/ Write(p) \/ Install(p) \/ Finally(p)

Next == OthersEdit \/ \E p \in Publishers : Run(p) \/ Die(p)

Spec == Init /\ [][Next]_vars

-----------------------------------------------------------------------------
(* Properties. *)

\* A refresh replaces another version than the one it was derived from only when that
\* version appeared after the comparison opened the inventory: an earlier update of
\* another process is never lost (_publish_inventory_atomic, "rejects observed lost
\* updates").
LostOnlyInWindow ==
    \A p \in Publishers : target' = p /\ target # p => target = expected[p] \/ raced[p]

\* What is installed is the whole candidate, unless others changed the temporary after
\* it was verified.
InstallsWholeCandidate ==
    \A p \in Publishers : target' = p /\ target # p => temp[p] = "full" \/ swapped[p]

\* The exit status tells what happened to the inventory: 0 and 3 mean installed, 1 that
\* it was not, unless rows are incomplete or os.replace raised after it happened.
Installed(p) == committed[p] \/ raised[p]
ExitTellsTruth ==
    \A p \in Publishers :
        /\ exit[p] \in {"0", "3"} => committed[p]
        /\ exit[p] = "1" /\ Installed(p) => incomplete[p] \/ raised[p]

\* A publisher that was not killed leaves nothing of its own that its error does not name.
NothingUnreported ==
    \A p \in Publishers :
        /\ pc[p] = "end" /\ exit[p] # "dead"
        /\ temp[p] # None \/ \E c \in Contents : <<p, c>> \in vault
        => named[p]

Foreign == { f \in Publishers \X {"temp", "vault"} :
               IF f[2] = "temp" THEN temp[f[1]] = "other" ELSE <<f[1], "other">> \in vault }

\* What others put under the temporary's name is moved aside at most: no cleanup destroys it.
ForeignKept ==
    outside' = outside /\ target' = target => Cardinality(Foreign) <= Cardinality(Foreign')
=============================================================================
