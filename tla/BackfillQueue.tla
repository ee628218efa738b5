---------------------------- MODULE BackfillQueue ----------------------------
(***************************************************************************)
(* What the fundamental backfill promises its callers, whoever they are    *)
(* and however often they are cut off: one job at a time, whose frozen     *)
(* list of symbols is worked off in order, every symbol in exactly one     *)
(* bounded page, and which ends when the list is used up.                  *)
(***************************************************************************)
EXTENDS Naturals

CONSTANTS Symbols,   \* the stock symbols, numbered in their sorted order
          Pages      \* the sets of symbols small enough to be a page

VARIABLE open        \* {} or {the symbols still to be served}

Init == open = {}

Open == /\ open = {}
        /\ \E frozen \in SUBSET Symbols : open' = {frozen}

\* A page is a first part of what is left.
PageOf(left, page) == /\ page \subseteq left
                      /\ left # {} => page # {}
                      /\ \A s \in page, t \in left \ page : s < t

Serve == \E left \in open, page \in Pages :
            /\ PageOf(left, page)
            /\ open' = IF left = page THEN {} ELSE {left \ page}

Next == Open \/ Serve

Spec == Init /\ [][Next]_open

\* An open job is served until it ends.
FairSpec == Spec /\ WF_open(Serve)
=============================================================================
