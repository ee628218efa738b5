-------------------------- MODULE MCRadarPrepared --------------------------
(* Small instances of RadarPrepared for TLC. *)
EXTENDS RadarPrepared, TLC

\* Symbols and workers only ever occur in sets, and nothing orders them.
Symmetric == Permutations(Symbols \ Managed) \cup Permutations(Workers)
=============================================================================
