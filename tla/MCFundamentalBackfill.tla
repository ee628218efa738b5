------------------------ MODULE MCFundamentalBackfill ------------------------
(* Small instances of FundamentalBackfill for TLC. *)
EXTENDS FundamentalBackfill, TLC

\* Nothing orders job ids, lanes, or the workers that are not scheduled.
Symmetric == Permutations(Jobs) \cup Permutations(Lanes)
             \cup Permutations(Workers \ Scheduled)
=============================================================================
