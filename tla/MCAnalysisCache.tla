-------------------------- MODULE MCAnalysisCache ---------------------------
(* Small instances of AnalysisCache for TLC: two callers on the day of the    *)
(* close, storing or not; one caller over two days; and two storing callers   *)
(* whose crawls are tried twice, who ask until the day is final.              *)
EXTENDS AnalysisCache

CONSTANTS c1, c2

mcShared == [maxTime |-> 1, maxRetries |-> 0, active |-> {c1, c2}, persisting |-> BOOLEAN]
mcTwoDays == [maxTime |-> 3, maxRetries |-> 1, active |-> {c1}, persisting |-> BOOLEAN]
mcAsking == [maxTime |-> 1, maxRetries |-> 1, active |-> {c1, c2}, persisting |-> {TRUE}]
mcSettings == {mcShared, mcTwoDays, mcAsking}
=============================================================================
