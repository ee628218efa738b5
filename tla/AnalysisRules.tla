---------------------------- MODULE AnalysisRules ----------------------------
(***************************************************************************)
(* One deterministic analysis of a stock, from the sources to the plan:    *)
(* the institutional-flow router and its providers                         *)
(* (data_sources/institutional_flow), the technical profile                *)
(* (technical/profile.py), and the graph nodes that score the signals and  *)
(* choose a strategy (graph/nodes.py, analysis/confidence_scorer.py,       *)
(* analysis/strategy_generator.py).                                        *)
(*                                                                         *)
(* The confidence score and the strategy are two weightings of the same    *)
(* evidence, written apart; the properties are about where they meet.      *)
(* Prices, indicators and daily flows are integers; a zone test keeps the  *)
(* code's threshold.                                                       *)
(***************************************************************************)
EXTENDS Integers, Sequences, FiniteSets, FiniteSetsExt, SequencesExt

CONSTANTS
    Missing,     \* the value of an indicator that could not be computed
    Providers,   \* the router's providers, in order
    TwseOnly,    \* the providers that know listed stocks only
    Tapes,       \* what FinMind may answer: nets per day and actor, balances, holders
    OneDayRows,  \* what a fallback provider may answer: <<bought, sold>> per actor
    Histories,   \* the price histories a snapshot may hold
    Levels,      \* price, averages, 20-day range and ATR
    Ratios,      \* volume ratios, in percent
    RsiValues,   \* RSI values
    Bands        \* Bollinger bands, <<lower, upper>>

\* Checked by the module that gives these constants their values.
MissingAssumption == Missing \in Int /\ Missing < 0
HistoryFields == {"bars", "aligned", "volumes", "dated", "last", "data", "levels", "temporal"}
HistoriesAssumption == \A h \in Histories : DOMAIN h = HistoryFields /\ h.last \in Int
AnalysisAssumption == MissingAssumption /\ HistoriesAssumption

VARIABLES
    ask,      \* the request: the stock's market and whether the session is final
    phase,    \* the node, or the part of the profile, that runs next
    tried,    \* providers tried so far, and whether FinMind got a new token
    inst,     \* institutional_flow in the graph's state
    history,  \* the snapshot's price history
    tech,     \* the technical evidence gathered so far
    score,    \* what score_node returned
    plan      \* what strategy_node returned
analysisVars == <<ask, phase, tried, inst, history, tech, score, plan>>

-----------------------------------------------------------------------------
(* Data *)
Actors == <<"foreign", "trust", "dealer">>
FlowReading(label, strength, buyer, seller) ==
    [flow_label |-> label, flow_strength |-> strength,
     dominant_buyer |-> buyer, dominant_seller |-> seller]
FlowError == FlowReading("none", "none", "none", "none")
NothingTried == [upto |-> 0, renewed |-> FALSE]
NoTech == [primary |-> 0, risk |-> 0, secondary |-> 0, alert |-> FALSE,
           aligned |-> FALSE, rsi |-> Missing, close |-> Missing, ma20 |-> Missing]
NoScore == [signal |-> "none", confidence |-> 0, data |-> 0, note |-> "none"]
NoPlan == [strategy |-> "none", conviction |-> "none", size |-> "none", tag |-> "none"]
Known(x) == x # Missing
AbsV(n) == IF n < 0 THEN -n ELSE n
Clamp(n, lo, hi) == Max({lo, Min({hi, n})})

-----------------------------------------------------------------------------
(* Institutional flow: a tape is the recent days, newest first; each day    *)
(* maps the actors of the tape to their net, in lots.                       *)
ActorTotal(tape, a) == IF a \in tape.actors
                  THEN FoldSeq(LAMBDA day, sum : sum + day[a], 0, tape.days) ELSE 0
DayTotal(tape, day) == FoldSet(LAMBDA a, sum : sum + day[a], 0, tape.actors)

\* Days at the newest end that all bought (dir = 1) or all sold (dir = -1).
ConsecutiveDays(tape, dir) ==
    IF tape.actors = {} THEN 0
    ELSE Max({0} \cup {n \in 1..Len(tape.days) :
            \A i \in 1..n : dir * DayTotal(tape, tape.days[i]) > 0})

\* The actor with the largest net in a direction, unless it moved less than
\* half of what moved that way; the first actor wins a tie.
DominantActor(tape, dir) ==
    LET Amount(a) == Max({0, dir * ActorTotal(tape, a)})
        moved == Amount("foreign") + Amount("trust") + Amount("dealer")
        Largest(i) == \A j \in DOMAIN Actors :
            IF j < i THEN Amount(Actors[i]) > Amount(Actors[j])
            ELSE Amount(Actors[i]) >= Amount(Actors[j])
        top == CHOOSE i \in DOMAIN Actors : Largest(i)
    IN  IF moved = 0 THEN "none"
        ELSE IF 2 * Amount(Actors[top]) < moved THEN "mixed" ELSE Actors[top]

\* The net of the actors whose rows were found; none found is no net.
ThreePartyNet(tape) ==
    FoldSet(LAMBDA a, sum : sum + ActorTotal(tape, a), 0, tape.actors)

\* The mean change of a balance in percent, over the days that tell one.
ChangePct(rows) ==
    LET told == SelectSeq(rows, LAMBDA r : Known(r.today) /\ Known(r.before) /\ r.before # 0)
    IN  IF told = <<>> THEN Missing
        ELSE FoldSeq(LAMBDA r, sum : sum + (100 * (r.today - r.before)) \div r.before, 0, told)
             \div Len(told)
LendingDelta(volumes) == IF Len(volumes) < 2 THEN Missing ELSE Last(volumes) - Head(volumes)
HolderDelta(ratios) == IF ratios = <<>> THEN Missing ELSE Last(ratios) - Head(ratios)

LedStreak(tape) ==
    ConsecutiveDays(tape, 1) >= 3 /\ DominantActor(tape, 1) \in {"foreign", "trust"}

SoldUnderPressure(tape) ==
    /\ ThreePartyNet(tape) < 0
    /\ \/ ChangePct(tape.short) > 8
       \/ LendingDelta(tape.lending) > 500
       \/ ConsecutiveDays(tape, -1) >= 3
       \/ DominantActor(tape, -1) \in {"foreign", "trust"}

RetailChasing(tape) ==
    \/ ChangePct(tape.margin) > 5 /\ ThreePartyNet(tape) < 0
    \/ ChangePct(tape.margin) > 8 /\ HolderDelta(tape.holders) < 0
       /\ Known(HolderDelta(tape.holders))

FlowLabel(tape) ==
    IF tape.actors = {} THEN "neutral"
    ELSE IF RetailChasing(tape) THEN "retail_chasing"
    ELSE IF SoldUnderPressure(tape) \/ ThreePartyNet(tape) < -1000 THEN "distribution"
    ELSE IF ThreePartyNet(tape) > 1000 \/ LedStreak(tape) THEN "institutional_accumulation"
    ELSE "neutral"

FlowStrength(tape) ==
    LET net == AbsV(ThreePartyNet(tape))
        streak == Max({ConsecutiveDays(tape, 1), ConsecutiveDays(tape, -1)})
        Pressure(x) == IF Known(x) THEN AbsV(x) ELSE 0
        pressure == Max({Pressure(ChangePct(tape.margin)), Pressure(ChangePct(tape.short))})
    IN  IF net >= 3000 \/ streak >= 4 \/ pressure >= 8 THEN "strong"
        ELSE IF net >= 1000 \/ streak >= 2 \/ pressure >= 3 THEN "moderate" ELSE "weak"

\* A fallback provider knows one day, and no margin, streak or leader.
OneDayNet(row) ==
    LET told == {a \in DOMAIN row : Known(row[a][1]) /\ Known(row[a][2])}
    IN  IF told = {} THEN Missing
        ELSE FoldSet(LAMBDA a, sum : sum + row[a][1] - row[a][2], 0, told)
OneDayLabel(net) ==
    IF ~Known(net) \/ net \in -1000..1000 THEN "neutral"
    ELSE IF net < 0 THEN "distribution" ELSE "institutional_accumulation"

-----------------------------------------------------------------------------
(* The router *)
\* A stock traded over the counter passes over the providers of listed stocks.
Candidates ==
    {i \in DOMAIN Providers : i > tried.upto /\ ~(ask.market = "tpex" /\ Providers[i] \in TwseOnly)}

Fetched(flow) ==
    /\ inst' = flow
    /\ phase' = "history"
    /\ tried' = NothingTried
    /\ UNCHANGED <<ask, history, tech, score, plan>>

FetchFinMind ==
    /\ phase = "flow" /\ Candidates # {} /\ Providers[Min(Candidates)] = "finmind"
    /\ \E tape \in Tapes :
          Fetched(FlowReading(FlowLabel(tape), FlowStrength(tape),
                       DominantActor(tape, 1), DominantActor(tape, -1)))

FetchOneDay ==
    /\ phase = "flow" /\ Candidates # {} /\ Providers[Min(Candidates)] # "finmind"
    /\ \E row \in OneDayRows :
          Fetched(FlowReading(OneDayLabel(OneDayNet(row)), "none", "none", "none"))

\* FinMind refuses the token: it is dropped and the call made once more.
RenewToken ==
    /\ phase = "flow" /\ Candidates # {} /\ Providers[Min(Candidates)] = "finmind"
    /\ ~tried.renewed
    /\ tried' = [tried EXCEPT !.renewed = TRUE]
    /\ UNCHANGED <<ask, phase, inst, history, tech, score, plan>>

ProviderFails ==
    /\ phase = "flow" /\ Candidates # {}
    /\ tried' = [tried EXCEPT !.upto = Min(Candidates)]
    /\ UNCHANGED <<ask, phase, inst, history, tech, score, plan>>

AllProvidersFailed ==
    /\ phase = "flow" /\ Candidates = {}
    /\ Fetched(FlowError)

-----------------------------------------------------------------------------
(* The technical profile. Bars are numbered; the last one is dated before,   *)
(* on or after the day of observation (-1, 0, 1). 0 bars stands for none.    *)
Dated(h) == h.dated /\ (Known(h.data) => h.data <= 0) /\ h.last <= 0

TemporalBars(h, final) ==
    IF final THEN h.bars
    ELSE IF ~Dated(h) THEN 0
    ELSE IF h.last = 0 THEN h.bars - 1 ELSE h.bars

\* Mutant: the day's bar is kept before the close.
PriceLevelBarsWithToday(h, final) ==
    IF final THEN h.bars - 1 ELSE IF Dated(h) THEN h.bars ELSE 0
PriceLevelBars(h, final) ==
    IF ~h.aligned THEN 0
    ELSE IF final THEN h.bars - 1
    ELSE IF ~Dated(h) THEN 0
    ELSE IF h.last = 0 THEN h.bars - 1 ELSE h.bars

PreprocessHistory ==
    /\ phase = "history"
    /\ \E h \in Histories :
          history' = [h EXCEPT !.levels = PriceLevelBars(h, ask.final),
                               !.temporal = TemporalBars(h, ask.final)]
    /\ phase' = "secondary"
    /\ UNCHANGED <<ask, tried, inst, tech, score, plan>>

Impact(known, values) == IF known THEN values ELSE {0}

\* ADX, Donchian, MFI and KD: one point each way, and one in all.
SecondaryEvidence ==
    /\ phase = "secondary"
    /\ \E adx \in Impact(history.aligned /\ history.bars >= 28, {-1, 0, 1}),
          donchian \in Impact(history.levels >= 20, {-1, 0, 1}),
          mfi \in Impact(history.aligned /\ history.volumes /\ history.bars >= 15, {-1, 0, 1}),
          kd \in Impact(history.aligned /\ history.bars >= 12, {-1, 0, 1}) :
          tech' = [tech EXCEPT !.secondary = Clamp(adx + donchian + mfi + kd, -1, 1)]
    /\ phase' = "primary"
    /\ UNCHANGED <<ask, tried, inst, history, score, plan>>

\* An indicator that needs more bars than there are is missing.
At(need, value) == IF history.bars >= need THEN value ELSE Missing

MaStructure(p) ==
    IF ~Known(p.ma5) \/ ~Known(p.ma20) THEN 0
    ELSE IF p.close > p.ma5 /\ p.ma5 > p.ma20 /\ (~Known(p.ma60) \/ p.ma20 > p.ma60) THEN 2
    ELSE IF p.close < p.ma5 /\ p.ma5 < p.ma20 THEN -2
    ELSE IF p.close > p.ma20 THEN 1
    ELSE IF p.close < p.ma20 THEN -1 ELSE 0

SupportResistance(p) ==
    IF ~Known(p.low) THEN 0
    ELSE IF p.close < p.low THEN -2
    ELSE IF p.close * 100 <= p.low * 102 THEN 1 ELSE 0

AtrPrimaryRisk(p) ==
    IF ~Known(p.low) \/ ~Known(p.atr) \/ p.atr = 0 THEN 0
    ELSE LET distance == Max({0, p.close - p.low})
         IN  IF distance <= 2 * p.atr THEN 1 ELSE IF distance >= 4 * p.atr THEN -1 ELSE 0

VolumeRatioSignal(ratio) ==
    IF ~Known(ratio) THEN 0
    ELSE IF ratio >= 150 THEN 2 ELSE IF ratio >= 115 THEN 1 ELSE IF ratio < 70 THEN -1 ELSE 0

\* The levels of the history that has come: p.bar is the last close of the
\* history, p.close the current price.
Shown(p) == [p EXCEPT !.ma5 = At(5, @), !.ma20 = At(20, @), !.ma60 = At(60, @),
                      !.low = IF history.levels >= 20 THEN @ ELSE Missing,
                      !.atr = IF history.aligned THEN At(15, @) ELSE Missing]

\* Mutant: the primary evidence has no bound.
PrimaryUncapped(n) == n
PrimaryCap(n) == Clamp(n, -3, 3)

PrimaryEvidence ==
    /\ phase = "primary"
    /\ \E level \in Levels : \E p \in {Shown(level)} :
       \E ratio \in (IF history.volumes THEN {At(20, r) : r \in Ratios} ELSE {Missing}),
          momentum \in Impact(history.bars >= 35, {-1, 0, 1}),
          obv \in Impact(history.volumes /\ history.bars >= 2, {-1, 0, 1}) :
          tech' = [tech EXCEPT
              !.primary = PrimaryCap(MaStructure(p) + SupportResistance(p) + AtrPrimaryRisk(p)
                                     + VolumeRatioSignal(ratio) + momentum + obv),
              !.aligned = Known(p.ma5) /\ Known(p.ma20) /\ p.bar > p.ma5 /\ p.ma5 > p.ma20,
              !.close = p.close, !.ma20 = p.ma20]
    /\ phase' = "risk"
    /\ UNCHANGED <<ask, tried, inst, history, score, plan>>

RsiState(rsi) == IF rsi >= 80 THEN -2 ELSE IF rsi >= 70 THEN -1 ELSE 0
BiasState(close, ma20) ==
    IF ~Known(ma20) THEN 0
    ELSE LET off == 100 * AbsV(close - ma20)
         IN  IF off >= 15 * ma20 THEN -2 ELSE IF off >= 10 * ma20 THEN -1 ELSE 0
NearUpper(close, band) == band[2] > band[1] /\ 100 * close >= 99 * band[2]

BollingerState(close, band, rsi) ==
    IF ~Known(band[1]) \/ ~NearUpper(close, band) THEN 0
    ELSE IF rsi >= 70 THEN -2 ELSE -1

RiskFilters ==
    /\ phase = "risk"
    /\ \E rsi \in {At(15, r) : r \in RsiValues},
          band \in (IF history.bars >= 20 THEN Bands ELSE {<<Missing, Missing>>}),
          atr \in Impact(history.aligned /\ history.bars >= 15, {0, -2}) :
       \E bollinger \in {BollingerState(tech.close, band, rsi)} :
          tech' = [tech EXCEPT
              !.risk = Clamp(RsiState(rsi) + BiasState(tech.close, tech.ma20) + bollinger + atr, -3, 0),
              !.alert = bollinger <= -2,
              !.rsi = rsi, !.close = Missing, !.ma20 = Missing]
    /\ phase' = "score"
    /\ UNCHANGED <<ask, tried, inst, history, score, plan>>

-----------------------------------------------------------------------------
(* The scores *)
CappedTotal(t) == Clamp(t.primary + t.risk + t.secondary, -5, 5)
\* 50 + 17/5 of the total; no total of -5..5 falls on a half.
TechnicalScore(t) == (500 + 34 * CappedTotal(t) + 5) \div 10

TechnicalSignal(t, bars) ==
    IF bars < 20 THEN "sideways"
    ELSE IF TechnicalScore(t) >= 60 THEN "bullish"
    ELSE IF TechnicalScore(t) <= 40 THEN "bearish" ELSE "sideways"

\* Flow and price agree, or not: the note of the cross validation.
CrossNote(label, signal) ==
    LET weak == label \in {"distribution", "retail_chasing"}
    IN  IF label = "retail_chasing" THEN "retail_chasing"
        ELSE IF label = "institutional_accumulation" /\ signal = "bullish" THEN "agree"
        ELSE IF weak /\ signal = "bearish" THEN "weak"
        ELSE IF \/ label = "institutional_accumulation" /\ signal = "bearish"
                \/ weak /\ signal = "bullish" THEN "conflict"
        ELSE "none"

FlowPoints(label) ==
    CASE label = "institutional_accumulation" -> 7
      [] label = "distribution" -> -10
      [] label = "retail_chasing" -> -8
      [] OTHER -> 0
SignalPoints(signal) ==
    CASE signal = "bullish" -> 5 [] signal = "bearish" -> -5 [] OTHER -> 0

ScoreNode ==
    /\ phase = "score"
    /\ \E signal \in {TechnicalSignal(tech, history.bars)} :
          score' = [signal |-> signal,
                    confidence |-> Clamp(50 + FlowPoints(inst.flow_label) + SignalPoints(signal), 0, 100),
                    data |-> 50 * ((IF inst = FlowError THEN 0 ELSE 1)
                                   + (IF history.bars >= 20 THEN 1 ELSE 0)),
                    note |-> CrossNote(inst.flow_label, signal)]
    /\ phase' = "strategy"
    /\ UNCHANGED <<ask, tried, inst, history, tech, plan>>

FlowEvidence ==
    LET sold == inst.flow_label \in {"distribution", "retail_chasing"}
        bought == inst.flow_label = "institutional_accumulation"
        strong == inst.flow_strength = "strong"
    IN    (IF bought THEN 2 ELSE IF sold THEN -2 ELSE 0)
        + (IF strong /\ bought THEN 1 ELSE IF strong /\ sold THEN -1 ELSE 0)
        + (IF inst.dominant_buyer = "trust" THEN 1 ELSE 0)
        - (IF inst.dominant_seller \in {"foreign", "trust"} THEN 1 ELSE 0)

EvidenceTotal == tech.primary + tech.secondary + tech.risk + FlowEvidence

\* Mutant: the averages alone make a middle-term plan.
StrategyByPrice ==
    IF tech.alert THEN "defensive_wait"
    ELSE IF EvidenceTotal >= 2 /\ tech.aligned THEN "mid_term"
    ELSE IF EvidenceTotal >= 2 THEN "short_term" ELSE "defensive_wait"
\* Mutant: less evidence is enough for a short-term plan.
StrategyEager ==
    IF tech.alert THEN "defensive_wait"
    ELSE IF EvidenceTotal >= 1 THEN "short_term" ELSE "defensive_wait"
Strategy ==
    IF tech.alert THEN "defensive_wait"
    ELSE IF EvidenceTotal >= 4 /\ FlowEvidence > 0 /\ tech.aligned THEN "mid_term"
    ELSE IF EvidenceTotal >= 2 THEN "short_term" ELSE "defensive_wait"

\* Mutant: a low score does not lower the conviction.
ConvictionOfData(strategy) ==
    CASE strategy = "defensive_wait" \/ score.data < 60 -> "low"
      [] strategy = "mid_term" /\ score.data >= 60 /\ ask.final -> "high"
      [] OTHER -> "medium"
Conviction(strategy) ==
    IF strategy = "defensive_wait" \/ score.confidence < 60 \/ score.data < 60 THEN "low"
    ELSE IF strategy = "mid_term" /\ ask.final THEN "high" ELSE "medium"

PositionSize(strategy, conviction) ==
    IF ~ask.final THEN "wait for the close"
    ELSE IF strategy = "defensive_wait" THEN "0%"
    ELSE IF conviction = "high" THEN (IF strategy = "mid_term" THEN "20-30%" ELSE "20%")
    ELSE IF conviction = "medium" THEN "10-20%" ELSE "10%"

\* Mutant: the score is not asked for.
ActionPlanTagOfFlow ==
    IF ~Known(tech.rsi) \/ inst = FlowError THEN "neutral"
    ELSE IF tech.rsi < 30 /\ inst.flow_label = "institutional_accumulation" THEN "opportunity"
    ELSE "neutral"
ActionPlanTag ==
    IF ~Known(tech.rsi) \/ inst = FlowError THEN "neutral"
    ELSE IF tech.rsi < 30 /\ inst.flow_label = "institutional_accumulation" /\ score.confidence > 70
         THEN "opportunity"
    ELSE IF tech.rsi > 70 /\ inst.flow_label = "distribution" THEN "overheated"
    ELSE "neutral"

ActionPlan(strategy) ==
    LET conviction == Conviction(strategy)
    IN  [strategy |-> strategy, conviction |-> conviction,
         size |-> PositionSize(strategy, conviction), tag |-> ActionPlanTag]

StrategyNode ==
    /\ phase = "strategy"
    /\ \E strategy \in {Strategy} : plan' = ActionPlan(strategy)
    /\ phase' = "done"
    /\ UNCHANGED <<ask, tried, inst, history, tech, score>>

-----------------------------------------------------------------------------
AnalysisInit ==
    /\ ask \in [market : {"twse", "tpex"}, final : BOOLEAN]
    /\ phase = "flow"
    /\ tried = NothingTried
    /\ inst = FlowError
    /\ history = [bars |-> 0, aligned |-> FALSE, volumes |-> FALSE, dated |-> FALSE,
                  last |-> 0, data |-> Missing, levels |-> 0, temporal |-> 0]
    /\ tech = NoTech /\ score = NoScore /\ plan = NoPlan
AnalysisNext ==
    \/ FetchFinMind \/ FetchOneDay \/ RenewToken \/ ProviderFails \/ AllProvidersFailed
    \/ PreprocessHistory \/ SecondaryEvidence \/ PrimaryEvidence \/ RiskFilters
    \/ ScoreNode \/ StrategyNode
AnalysisSpec == AnalysisInit /\ [][AnalysisNext]_analysisVars

-----------------------------------------------------------------------------
(* Properties *)

\* Types of the variables.
AnalysisTypeOK ==
    /\ phase \in {"flow", "history", "secondary", "primary", "risk", "score", "strategy", "done"}
    /\ inst.flow_label \in {"none", "neutral", "distribution", "retail_chasing",
                            "institutional_accumulation"}
    /\ tech.primary \in -3..3 /\ tech.risk \in -3..0 /\ tech.secondary \in -1..1
    /\ score.confidence \in 0..100 /\ score.data \in {0, 50, 100}
    /\ plan.strategy \in {"none", "defensive_wait", "short_term", "mid_term"}

\* Before the close, the bar of the day of observation never enters the price
\* levels or the temporal comparisons, and no later bar does
\* (_completed_price_level_inputs, _completed_temporal_inputs).
NoUnfinishedBar ==
    \A used \in {history.levels, history.temporal} :
        ~ask.final /\ used > 0 =>
            \/ used = history.bars /\ history.last < 0
            \/ used = history.bars - 1 /\ history.last = 0

\* The confidence score and the strategy weigh the evidence apart: whatever
\* the institutional flow adds, no plan buys on a bearish technical signal.
BearishNeverBuys ==
    phase = "done" /\ score.signal = "bearish" => plan.strategy = "defensive_wait"

\* A plan above low conviction rests on accumulation and on a bullish signal,
\* both from present data; high conviction also on aligned averages and a
\* finished session.
ConvictionIsCorroborated ==
    /\ plan.conviction \in {"medium", "high"} =>
         /\ inst.flow_label = "institutional_accumulation"
         /\ score.signal = "bullish" /\ score.data = 100
    /\ plan.conviction = "high" => tech.aligned /\ ask.final /\ plan.size = "20-30%"

\* While the institutions sell, a plan is at most a short-term probe of the
\* smallest size: the flow outweighs the chart.
SellingIsOnlyProbed ==
    inst.flow_label \in {"distribution", "retail_chasing"} /\ phase = "done" =>
        /\ plan.strategy # "mid_term" /\ plan.conviction = "low"
        /\ plan.size \in {"0%", "10%", "wait for the close"}

\* The opportunity tag asks for a score above 70, which no analysis of flow and
\* chart alone can reach: the tag is dead.
OpportunityIsDead == plan.tag # "opportunity"

\* What a plan may rest on, where the confidence score and the strategy weigh
\* the evidence apart, and the levels it is drawn from.
PlansAreJustified ==
    /\ AnalysisTypeOK /\ NoUnfinishedBar
    /\ BearishNeverBuys /\ ConvictionIsCorroborated /\ SellingIsOnlyProbed /\ OpportunityIsDead
=============================================================================
