------------------------------ MODULE Cleanup ------------------------------
(***************************************************************************)
(* What removing one file by claim promises, with no mechanism: the object *)
(* under the public name is taken out of public view at most once, only    *)
(* the caller's own object may be discarded, and the report tells the      *)
(* truth about what was discarded.  Others may change the public name at   *)
(* any moment.                                                             *)
(***************************************************************************)
CONSTANTS Objects,   \* what a name can name
          Own,       \* the caller's own object
          None       \* the name is free

VARIABLES pub,       \* what the public name names
          held,      \* what was taken out of public view
          gone,      \* the caller's object was discarded
          report     \* "none" until the caller is told how it ended

vars == <<pub, held, gone, report>>

Init == /\ pub = Own
        /\ held = None
        /\ gone = FALSE
        /\ report = "none"

Elsewhere == /\ pub' \in (Objects \cup {None}) \ {Own}
             /\ UNCHANGED <<held, gone, report>>

Take == /\ report = "none" /\ held = None /\ ~gone
        /\ pub # None
        /\ held' = pub /\ pub' = None
        /\ UNCHANGED <<gone, report>>

Discard == /\ report = "none" /\ held = Own
           /\ held' = None /\ gone' = TRUE
           /\ UNCHANGED <<pub, report>>

Report == /\ report = "none"
          /\ \/ /\ report' = "absent"
                /\ held = None /\ ~gone
             \/ /\ report' = "removed"
                /\ held = None /\ gone
             \/ report' \in {"retained", "unaddressable"}
          /\ UNCHANGED <<pub, held, gone>>

Next == Elsewhere \/ Take \/ Discard \/ Report

Spec == Init /\ [][Next]_vars
=============================================================================
