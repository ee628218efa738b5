------------------------- MODULE MCConfidenceReview -------------------------
(***************************************************************************)
(* The monthly review of the confidence score for TLC: two stocks; a       *)
(* training month of two sessions and a holdout month of one, followed by  *)
(* the sessions in which the windows elapse.                               *)
(***************************************************************************)
EXTENDS ConfidenceReview

mcSymbols == {1, 2}
mcWindows == {1, 2}
mcMonthOf == [d \in 1..5 |-> IF d <= 2 THEN 1 ELSE IF d = 3 THEN 2 ELSE 3]
mcMinBlocks == <<2, 1>>
mcBaseline == [positive_sentiment_points |-> 5, negative_sentiment_points |-> -5,
    institutional_accumulation_points |-> 7, distribution_penalty |-> -10,
    retail_chasing_penalty |-> -8, bullish_technical_points |-> 5,
    bearish_technical_penalty |-> -5, three_resonance_bonus |-> 3,
    bullish_distribution_penalty |-> -7, date_unknown_penalty |-> -3]
mcTunable == {"three_resonance_bonus", "bullish_technical_points"}

Input(flow, tech) == [base |-> 50, news |-> "neutral", flow |-> flow, tech |-> tech,
                      date_unknown |-> FALSE]
Taken(flow, tech) ==
    [input |-> Input(flow, tech), score |-> Confidence(Input(flow, tech), mcBaseline),
     strategy |-> "short_term", complete |-> TRUE]
Both(a, b) == [s \in mcSymbols |-> IF s = 1 THEN a ELSE b]
Flow == "institutional_accumulation"
\* Plain days; a day whose second sample has another stored score and whose
\* first stock is analysed later, if at all; a day whose first sample is of a
\* strategy that is not tuned.
mcDays ==
    LET a == Both(Taken(Flow, "sideways"), Taken(Flow, "bullish"))
        b == Both(Taken("neutral", "sideways"), Taken("neutral", "bullish"))
    IN  [d \in 1..5 |->
          CASE d = 1 -> {b}
            [] d = 2 -> {a, [a EXCEPT ![1] = Absent, ![2].score = 50]}
            [] d = 3 -> {b, [b EXCEPT ![1].strategy = "defensive_wait"]}
            [] OTHER -> {}]

Won(x) == [status |-> "validated", excess |-> x]
Terminal == [status |-> "terminal"]
\* The second stock wins in both windows; on the holdout day it may lose the
\* shorter one; on both later days the first stock may have no result there.
mcVerdicts ==
    LET V(a, b) == [p \in mcSymbols \X mcWindows |->
            IF p[1] = 2 THEN (IF p[2] = 1 THEN Won(1) ELSE a)
            ELSE IF p[2] = 1 THEN Won(-1) ELSE b]
    IN  [d \in 1..5 |->
          CASE d = 2 -> {V(Won(1), Won(-1)), V(Won(1), Terminal)}
            [] d = 3 -> {V(Won(-1), Won(1)), V(Won(1), Terminal)}
            [] OTHER -> {V(Won(1), Won(-1))}]
=============================================================================
