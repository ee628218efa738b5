----------------------------- MODULE MCDecisions -----------------------------
(***************************************************************************)
(* The two pure decision procedures for TLC: the screening and scoring of  *)
(* a radar batch and one analysis of a stock. They share no state: a       *)
(* behaviour is about one of them, and the other's variables keep their    *)
(* initial values.                                                         *)
(***************************************************************************)
EXTENDS MCRadarScoring, AnalysisRules

-----------------------------------------------------------------------------
(* The analysis: FinMind first, then the two exchanges. The tapes reach      *)
(* every label, every strength and every leader; the histories sit on either *)
(* side of the lengths at which an indicator appears.                        *)
mcProviders == <<"finmind", "twse", "tpex">>
mcTwseOnly == {"twse"}

mcMissing == -99999
NetsOf(f, t, d) == [i \in 1..Len(f) |-> [a \in {"foreign", "trust", "dealer"} |->
    CASE a = "foreign" -> f[i] [] a = "trust" -> t[i] [] OTHER -> d[i]]]
Tape(days) == [actors |-> {"foreign", "trust", "dealer"}, days |-> days,
               margin |-> <<>>, short |-> <<>>, lending |-> <<>>, holders |-> <<>>]
Grew(pct) == <<[today |-> mcMissing, before |-> 100], [today |-> 100 + pct, before |-> 100],
               [today |-> 100, before |-> 0]>>
\* Strong accumulation led by the trusts; a led streak below the volume;
\* selling with the trusts still the largest buyer; selling of everyone; a
\* margin rush; a quiet week; rows of no known actor.
mcTapes ==
    LET led == Tape(NetsOf(<<500, 200, -100>>, <<900, 900, 900>>, <<0, 0, 0>>))
        streak == Tape(NetsOf(<<90, 90, 90, -200>>, <<50, 50, 50, 0>>, <<0, 0, 0, 0>>))
        probe == Tape(NetsOf(<<-100, -100>>, <<300, 300>>, <<-900, -900>>))
        sold == Tape(NetsOf(<<-900, -900, -900, -900>>, <<-10, 0, 0, 0>>, <<0, 0, 0, 0>>))
        quiet == Tape(NetsOf(<<100, -100>>, <<0, 0>>, <<50, -50>>))
    IN  {led, streak, probe, sold, quiet,
         [probe EXCEPT !.short = Grew(9)],
         [quiet EXCEPT !.margin = Grew(9), !.holders = <<40, 39>>],
         [sold EXCEPT !.margin = Grew(6), !.lending = <<100, 700>>],
         [quiet EXCEPT !.actors = {}]}
OneDay(f, t) == [a \in {"foreign", "trust", "dealer"} |->
    CASE a = "foreign" -> f [] a = "trust" -> t [] OTHER -> <<mcMissing, 10>>]
mcOneDayRows ==
    {OneDay(<<mcMissing, 5>>, <<9, mcMissing>>), OneDay(<<100, 2200>>, <<50, 10>>),
     OneDay(<<100, 100>>, <<0, 0>>), OneDay(<<1500, 0>>, <<600, 10>>)}

History(bars, aligned, dated, last, data) ==
    [bars |-> bars, aligned |-> aligned, volumes |-> aligned, dated |-> dated,
     last |-> last, data |-> data, levels |-> 0, temporal |-> 0]
mcHistories ==
    {History(60, TRUE, TRUE, 0, 0), History(21, TRUE, TRUE, -1, -1),
     History(20, TRUE, TRUE, 0, mcMissing), History(14, FALSE, FALSE, 0, mcMissing),
     History(40, TRUE, TRUE, 1, 1)}

Chart(close, bar, ma5, ma20, ma60, low, atr) ==
    [close |-> close, bar |-> bar, ma5 |-> ma5, ma20 |-> ma20, ma60 |-> ma60,
     low |-> low, atr |-> atr]
\* Aligned averages, near and far from support and from the long average; a
\* falling chart, above and below its support; a price back under its last bar.
mcLevels ==
    {Chart(106, 106, 104, 102, 100, 100, 2), Chart(106, 106, 104, 102, 103, 105, 2),
     Chart(118, 118, 110, 102, 100, 95, 4), Chart(90, 90, 95, 100, 105, 95, 2),
     Chart(97, 97, 98, 100, 99, 96, 0), Chart(101, 106, 104, 102, 100, 100, 1),
     Chart(102, 102, 104, 102, 100, 90, 3)}
mcRatios == {160, 120, 100, 60}
mcRsiValues == {25, 50, 70, 85}
mcBands == {<<90, 130>>, <<95, 106>>, <<100, 100>>}

ASSUME AnalysisIsAssumed == AnalysisAssumption

VARIABLE subject  \* what the behaviour is about

\* Of an analysis nothing is loaded for the radar; of a batch one request stands
\* for all.
SubjectInit ==
    /\ AnalysisInit
    /\ \/ subject = "batch" /\ Init /\ ask = [market |-> "twse", final |-> TRUE]
       \/ /\ subject = "analysis"
          /\ batch = <<>> /\ market = Supportive /\ asked = Asked("loaded", 0, "none", {})
          /\ pool = EmptyPool /\ scores = NoScores
SubjectNext ==
    \/ subject = "batch" /\ Next /\ UNCHANGED <<subject, analysisVars>>
    \/ subject = "analysis" /\ AnalysisNext /\ UNCHANGED <<subject, vars>>
SubjectSpec == SubjectInit /\ [][SubjectNext]_<<subject, vars, analysisVars>>

=============================================================================
