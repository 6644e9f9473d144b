---------------------------- MODULE ClaimOutcome ----------------------------
(***************************************************************************)
(* The ways one removal by claim can end, as the callers of                *)
(* CleanupQuarantine and claim_and_remove see them.  Quarantine shows that *)
(* the detailed protocol ends in no other way.                             *)
(***************************************************************************)
None == "none"

\* name:   what the public name names afterwards
\* kept:   what is left in the quarantine
\* answer: "removed", "absent", "kept" (claimed or claimable, not removed) or
\*         "unclaimed" (no quarantine could be made)
\* lost:   the arena is no longer addressable by its path
Removal(own, x) ==
    [name : {x}, kept : {None}, answer : {"unclaimed", "kept"}, lost : BOOLEAN]
    \cup
    ( IF x = None
        THEN [name : {None}, kept : {None}, answer : {"absent"}, lost : {FALSE}]
        ELSE [name : {None}, kept : {x}, answer : {"kept"}, lost : BOOLEAN] )
    \cup
    ( IF x # own
        THEN {}
        ELSE [name : {None}, kept : {None}, answer : {"removed"}, lost : {FALSE}]
             \cup [name : {None}, kept : {None}, answer : {"kept"}, lost : BOOLEAN] )
=============================================================================
