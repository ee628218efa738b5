---------------------------- MODULE MCContextCache ----------------------------
(* Small instances of ContextCache for TLC: lending or margin refreshed alone *)
(* on two dates, within the staleness window and past it; and required and    *)
(* plain calls that overlap, of either for one stock, of lending for two.      *)
EXTENDS ContextCache, TLC

CONSTANTS s1, s2, w1, w2

mcAlone(staleAfter) ==
    [symbols |-> {s1}, workers |-> {w1}, kinds |-> {"required"}, margin |-> TRUE,
     lastDay |-> 1, staleAfter |-> staleAfter, maxCalls |-> 4]
mcOverlap(symbols, margin, maxCalls) ==
    [symbols |-> symbols, workers |-> {w1, w2}, kinds |-> {"required", "plain"},
     margin |-> margin, lastDay |-> 0, staleAfter |-> 1, maxCalls |-> maxCalls]
mcSettings == {mcAlone(0), mcAlone(1), mcOverlap({s1}, FALSE, 3), mcOverlap({s1}, TRUE, 3),
               mcOverlap({s1, s2}, FALSE, 2)}

\* Nothing orders symbols or workers; those of one setting are those of the others.
mcSymmetry == Permutations({s1, s2}) \cup Permutations({w1, w2})
=============================================================================
