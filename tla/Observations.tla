---------------------------- MODULE Observations ----------------------------
(***************************************************************************)
(* What the project observes of the market day after day: the holdings of  *)
(* the active funds, and what became of the radar's candidates.  The two   *)
(* share no state; this module says of both what must never be lost.       *)
(***************************************************************************)
EXTENDS ActiveEtf, ResearchValidation

\* Neither a fund's history nor a verdict with official evidence is lost.
NothingIsLost == HistoriesAreKept /\ ProvenStays
=============================================================================
