----------------------------- MODULE ContextView -----------------------------
(***************************************************************************)
(* What a reader of the shared background contexts may rely on: the grade  *)
(* of the context it gets for a day and a symbol never falls.  "poor" is   *)
(* a context it can show but not count on (missing, stale or incomplete).  *)
(***************************************************************************)
CONSTANTS Days, Symbols

VARIABLE view   \* the grade of what a reader of day d gets for symbol s

Grades == {"none", "poor", "fresh"}

\* The grades a given one may become.
From(grade) == CASE grade = "none"  -> Grades
                 [] grade = "poor"  -> {"poor", "fresh"}
                 [] grade = "fresh" -> {"fresh"}

Init == view = [d \in Days |-> [s \in Symbols |-> "none"]]

Improve == /\ view' \in [Days -> [Symbols -> Grades]]
           /\ \A d \in Days, s \in Symbols : view'[d][s] \in From(view[d][s])

Spec == Init /\ [][Improve]_view
=============================================================================
