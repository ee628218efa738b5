---------------------------- MODULE RadarScoring ----------------------------
(***************************************************************************)
(* Screening and scoring of one batch of Daily Radar records               *)
(* (daily_radar/prefilter.py, data_quality.py, scoring.py,                 *)
(* relative_strength.py, medium_term.py) and the two ways the repository   *)
(* asks "what if": a record whose evidence is missing or late, and a       *)
(* replay with rule codes excluded (rule_governance.py).                   *)
(*                                                                         *)
(* A record is a function from field names to values; a missing field is   *)
(* not in its domain. Ratios and MACD percentages are in hundredths.       *)
(***************************************************************************)
EXTENDS Integers, Sequences, FiniteSets, FiniteSetsExt, SequencesExt

CONSTANTS
    Loads,        \* what a run may load: a batch, sequence of records, and a market context
    RunDay,       \* the run's date
    Groups,       \* sets of rule codes a replay may exclude, per size of the batch
    CandidateLimit, \* candidates a run publishes
    Lookback,     \* days of the relative-strength window
    Short, Long, Slope  \* days of the trend's averages and of its slope

ASSUME WindowAssumption == {RunDay, Lookback, Short, Long, Slope} \subseteq Nat \ {0}
ASSUME LoadsAssumption == (\A l \in Loads : Len(l.batch) \in DOMAIN Groups) /\ CandidateLimit \in Nat

VARIABLES
    batch,   \* the records, in the order they were loaded
    market,  \* the market context
    asked,   \* what was done to the batch: to which record, field or rule codes
    pool,    \* run_stage1_prefilter_with_shadow's answer
    scores   \* symbol -> score_daily_radar_record's answer
vars == <<batch, market, asked, pool, scores>>

-----------------------------------------------------------------------------
(* Fields *)
Has(r, fs) == fs \subseteq DOMAIN r.f
Num(r, f) == IF Has(r, {f}) THEN r.f[f] ELSE 0
Text(r, f) == IF Has(r, {f}) THEN r.f[f] ELSE "absent"
Abs(n) == IF n < 0 THEN -n ELSE n
\* Mutant: no lower bound.
ClampScoreTop(n) == Min({100, n})
ClampScore(n) == Max({0, Min({100, n})})

RequiredScoringFields ==
    {"open", "high", "low", "close", "previous_close", "volume", "avg_volume_20",
     "ma5", "ma20", "ma60", "rsi14", "bias20", "macd_histogram", "kd_k", "kd_d",
     "atr14", "volume_ratio", "missing_trading_days_60", "flow_state"}
TrackRequiredFields ==
    [foreign_same_day |-> {"foreign_same_day_net_shares"},
     trust_same_day |-> {"trust_same_day_net_shares"},
     foreign_recent_accumulation |-> {"foreign_cumulative_net_shares", "foreign_consecutive_buy_days"},
     trust_recent_accumulation |-> {"trust_cumulative_net_shares", "trust_consecutive_buy_days"},
     same_day_institutional |-> {"same_day_actor", "same_day_net_buy"},
     recent_accumulation |-> {"three_party_net_shares", "consecutive_positive_days"}]
TechnicalTracks == {"market_trend", "market_price_volume"}
RequiredInstitutionalFields(r) ==
    IF r.tracks = {}
    THEN {"three_party_net_shares", "consecutive_positive_days", "net_flow_to_avg_volume"}
    ELSE UNION {TrackRequiredFields[t] : t \in r.tracks \cap DOMAIN TrackRequiredFields}
\* A margin section is reported, started from a zero balance, or the stock
\* cannot be bought on margin.
MarginRequiredFields(r) ==
    CASE r.margin = "not_applicable" -> {}
      [] r.margin = "baseline_zero" -> {"margin_to_volume"}
      [] OTHER -> {"margin_delta_pct", "margin_to_volume"}
\* Mutant: the list of required fields misses one that a penalty reads.
MissingScoringFieldsButVolume(r) ==
    (RequiredScoringFields \cup RequiredInstitutionalFields(r) \cup MarginRequiredFields(r))
        \ (DOMAIN r.f \cup {"volume_ratio"})
MissingScoringFields(r) ==
    (RequiredScoringFields \cup RequiredInstitutionalFields(r) \cup MarginRequiredFields(r))
        \ DOMAIN r.f
UnknownTracks(r) == r.tracks \ (DOMAIN TrackRequiredFields \cup TechnicalTracks)
EvidenceMissing(r) == MissingScoringFields(r) # {} \/ UnknownTracks(r) # {}

-----------------------------------------------------------------------------
(* Price histories: functions from days to closes *)
WindowOf(days, n) == {d \in days : Cardinality({e \in days : e > d}) < n}
Total(h, days) == FoldSet(LAMBDA d, acc : acc + h[d], 0, days)

\* Return of the candidate less the return of the index, as a fraction.
Lead(c, b, from, to) == [over |-> c[to] * b[from] - b[to] * c[from], of |-> c[from] * b[from]]
LeadScore(l) ==
    CASE 100 * l.over >= 5 * l.of -> 6
      [] 100 * l.over >= 2 * l.of -> 3
      [] 100 * l.over <= -5 * l.of -> -6
      [] 100 * l.over <= -2 * l.of -> -3
      [] OTHER -> 0
\* Mutant: the common dates are not cut at the run's date.
CommonDatesUncut(r, m) == DOMAIN r.prices \cap DOMAIN m.index
CommonDates(r, m) == {d \in DOMAIN r.prices \cap DOMAIN m.index : d <= RunDay}
RelativeStrength(r, m) ==
    LET days == WindowOf(CommonDates(r, m), Lookback + 1)
        \* a context without a date is as old as its latest price
        dates == IF m.date # 0 THEN {m.date} ELSE DOMAIN m.index
        current == dates # {} /\ RunDay - Max(dates) <= 2
    IN  IF current /\ Cardinality(days) = Lookback + 1
        THEN LeadScore(Lead(r.prices, m.index, Min(days), Max(days)))
        ELSE 0

MediumTermTrend(r, m) ==
    LET days == {d \in DOMAIN m.index : d <= RunDay}
        window == WindowOf(days, Long + Slope)
        long == WindowOf(window, Long)
        short == WindowOf(window, Short)
        before == window \ WindowOf(window, Slope)
        p == r.prices
    IN  IF \/ RunDay \notin days
           \/ Cardinality(days) < Long + Slope
           \/ ~ (window \subseteq DOMAIN p)
        THEN "unknown"
        ELSE IF /\ p[RunDay] * Short >= Total(p, short)
                /\ Total(p, short) * Long >= Total(p, long) * Short
                /\ Total(p, long) > Total(p, before)
                /\ Lead(p, m.index, Min(window \ (before \ long)), RunDay).over > 0
             THEN "constructive"
             ELSE "weak"

-----------------------------------------------------------------------------
(* Prefilter *)
Turnover(r) ==
    IF Has(r, {"avg_turnover_value_million"})
    THEN r.f["avg_turnover_value_million"]
    ELSE (Num(r, "close") * Num(r, "avg_volume_20")) \div 1000
CoreDates == {"ohlcv", "technical_indicators", "institutional_flow", "margin"}
StaleCore(r, key) ==
    \/ key \notin DOMAIN r.dates
    \/ RunDay - r.dates[key] < 0
    \/ RunDay - r.dates[key] > 2
\* Mutant: the prefilter's own threshold of the volume ratio is strict.
OverextendedMetricsStrict(r) ==
    \/ Num(r, "rsi14") >= 80
    \/ Num(r, "bias20") >= 20
    \/ Num(r, "mfi14") >= 85
    \/ Num(r, "volume_ratio") > 250
OverextendedMetrics(r) ==
    \/ Num(r, "rsi14") >= 80
    \/ Num(r, "bias20") >= 20
    \/ Num(r, "mfi14") >= 85
    \/ Num(r, "volume_ratio") >= 250
WeakStructure(r) ==
    /\ Num(r, "close") < Num(r, "ma60")
    /\ Num(r, "ma5") < Num(r, "ma20")
    /\ Num(r, "ma20") < Num(r, "ma60")
    /\ Text(r, "obv_trend") \in {"falling", "weak"} \/ Num(r, "volume_ratio") < 95
MarginCrowdingMetrics(r) == Num(r, "margin_delta_pct") >= 10 \/ Num(r, "margin_to_volume") >= 4

Overextended(r) == OverextendedMetrics(r) \/ "overextended" \in r.flags
PrefilterReasons(r, m) ==
    {q[2] : q \in {p \in
        {<<EvidenceMissing(r), "data_gap">>,
         <<Has(r, {"avg_turnover_value_million"}) /\ Turnover(r) <= 0, "data_gap">>,
         <<Num(r, "missing_trading_days_60") > 3 \/ "data_gap" \in r.flags, "data_gap">>,
         <<Turnover(r) < 300, "low_liquidity">>,
         <<Num(r, "close") < 20, "min_price">>,
         <<"stale_data" \in r.flags \/ \E key \in CoreDates : StaleCore(r, key), "stale_core_data">>,
         <<Overextended(r) /\ MediumTermTrend(r, m) # "constructive", "overextended">>,
         <<WeakStructure(r), "weak_structure">>,
         <<MarginCrowdingMetrics(r) \/ "margin_crowding" \in r.flags, "margin_crowding">>} : p[1]}}
PrefilterRecord(r, m) ==
    LET reasons == PrefilterReasons(r, m)
    IN  [record |-> r,
         reasons |-> reasons,
         caveats |-> IF Overextended(r) /\ "overextended" \notin reasons THEN {"overextended"} ELSE {},
         status |-> CASE reasons = {} -> "accepted"
                      [] "stale_core_data" \in reasons -> "stale_data"
                      [] OTHER -> "rejected"]

RankedBefore(a, b) ==
    \/ Turnover(a.record) > Turnover(b.record)
    \/ Turnover(a.record) = Turnover(b.record) /\ a.record.symbol < b.record.symbol
ShadowCohort(result) ==
    CASE result.status = "stale_data" \/ "data_gap" \in result.reasons -> "none"
      [] result.reasons \cap {"low_liquidity", "min_price"} # {} -> "eligibility_audit"
      [] OTHER -> "comparable"

\* The service passes the number of records as the limit, so no accepted
\* record overflows here; the candidate limit cuts after scoring.
\* Mutant: the second record of a symbol stays in the batch.
NotDeduplicated(rs) == {rs[i] : i \in DOMAIN rs}
Deduplicated(rs) ==
    LET first == {i \in DOMAIN rs : \A j \in 1..(i - 1) : rs[j].symbol # rs[i].symbol}
    IN  {rs[i] : i \in first}
Stage1Prefilter(rs, m) ==
    LET results == {PrefilterRecord(r, m) : r \in Deduplicated(rs)}
        selected == {x \in results : x.status = "accepted"}
        shadow == {x \in results \ selected : ShadowCohort(x) # "none"}
    IN  [selected |-> SetToSortSeq(selected, RankedBefore),
         shadow |-> SetToSortSeq(shadow, RankedBefore),
         excluded |-> results \ (selected \cup shadow)]

-----------------------------------------------------------------------------
(* Rules: points and signal family *)
Flow(p) == <<p, "institutional_flow">>
Price(p) == <<p, "price_structure">>
Part(p) == <<p, "participation">>
Moment(p) == <<p, "momentum">>
Margin(p) == <<p, "margin">>
Rules ==
    [institutional_consecutive_flow |-> Flow(28), institutional_multi_day_flow |-> Flow(22),
     institutional_early_flow |-> Flow(14), institutional_aligned_participants |-> Flow(18),
     institutional_net_positive |-> Flow(8), institutional_same_day_net_buy |-> Flow(8),
     institutional_constructive_state |-> Flow(18),
     institutional_volume_confirmed_state |-> Flow(12),
     institutional_early_stabilization |-> Flow(6), institutional_flow_ratio_high |-> Flow(14),
     institutional_flow_ratio_constructive |-> Flow(8),
     institutional_flow_ratio_positive |-> Flow(4),
     institutional_not_overextended |-> Moment(12), institutional_margin_contained |-> Margin(6),
     institutional_close_below_open |-> Price(-8),
     price_volume_expanded_participation |-> Part(25),
     price_volume_constructive_participation |-> Part(10),
     price_volume_near_range_high |-> Price(18), price_volume_ma20_reclaim |-> Price(15),
     price_volume_obv_rising |-> Part(12), price_volume_obv_turning |-> Part(8),
     price_volume_mfi_confirmed |-> Part(10), price_volume_macd_positive |-> Moment(10),
     price_volume_close_above_previous |-> Price(6),
     price_volume_volume_without_range_reclaim |-> Price(-10),
     bottoming_low_holds_support_zone |-> Price(20), bottoming_close_recovers |-> Price(10),
     bottoming_macd_improving |-> Moment(18), bottoming_macd_positive |-> Moment(8),
     bottoming_kd_low_turn |-> Moment(18), bottoming_bias_near_midline |-> Moment(12),
     bottoming_participation_turning |-> Part(12), bottoming_rsi_mid_recovery |-> Moment(10),
     bottoming_margin_easing |-> Margin(8), bottoming_participation_insufficient |-> Part(-12),
     support_retest_near_key_level |-> Price(22), support_retest_reclaimed_area |-> Price(18),
     support_retest_ma20_area |-> Price(16), support_retest_ma60_area |-> Price(10),
     support_retest_orderly_participation |-> Part(12),
     support_retest_atr_contained |-> <<10, "volatility">>,
     support_retest_participation_stable |-> Part(12),
     support_retest_margin_not_expanding |-> Margin(8), support_retest_macd_stable |-> Moment(7),
     support_retest_close_below_support |-> Price(-20)]
Points(rule) == Rules[rule][1]
Family(rule) == Rules[rule][2]
Families == {Family(rule) : rule \in DOMAIN Rules}
Uncapped == 1000
Buckets == <<"institutional_accumulation", "price_volume_strengthening",
             "bottoming_reversal", "support_retest">>
FamilyCaps ==
    [institutional_accumulation |-> [institutional_flow |-> 65],
     price_volume_strengthening |-> [participation |-> 40, price_structure |-> 36, momentum |-> 10],
     bottoming_reversal |->
        [price_structure |-> 30, momentum |-> 50, participation |-> 12, margin |-> 8],
     support_retest |->
        [price_structure |-> 50, participation |-> 20, volatility |-> 10, momentum |-> 7, margin |-> 8]]
Cap(bucket, family) ==
    IF family \in DOMAIN FamilyCaps[bucket] THEN FamilyCaps[bucket][family] ELSE Uncapped

\* <<condition, rule>> pairs, in the code's order; the first of several
\* alternatives that holds is taken.
FirstOf(pairs) == IF \E i \in DOMAIN pairs : pairs[i][1]
                  THEN <<pairs[Min({i \in DOMAIN pairs : pairs[i][1]})]>> ELSE <<>>
Matched(pairs) ==
    LET hit == SelectSeq(pairs, LAMBDA p : p[1]) IN [i \in DOMAIN hit |-> hit[i][2]]

IsOverextended(r) ==
    \/ Num(r, "rsi14") >= 80
    \/ Num(r, "bias20") >= 20
    \/ Num(r, "mfi14") >= 85
    \/ Num(r, "volume_ratio") >= 250
ScoreInstitutional(r) == Matched(
    FirstOf(<<<<Num(r, "consecutive_positive_days") >= 5, "institutional_consecutive_flow">>,
              <<Num(r, "consecutive_positive_days") >= 3, "institutional_multi_day_flow">>,
              <<Num(r, "consecutive_positive_days") >= 2, "institutional_early_flow">>>>)
    \o FirstOf(<<
        <<Num(r, "foreign_net_shares") > 0 /\ Num(r, "investment_trust_net_shares") > 0,
          "institutional_aligned_participants">>,
        <<\E f \in {"three_party_net_shares", "foreign_cumulative_net_shares",
                    "trust_cumulative_net_shares"} : Num(r, f) > 0, "institutional_net_positive">>,
        <<r.tracks \cap {"same_day_institutional", "foreign_same_day", "trust_same_day"} # {}
            /\ Text(r, "same_day_actor") \in {"foreign", "trust"} /\ Num(r, "same_day_net_buy") > 0,
          "institutional_same_day_net_buy">>>>)
    \o <<<<Text(r, "flow_state") \in {"consistent_accumulation", "support_area_accumulation"},
           "institutional_constructive_state">>,
         <<Text(r, "flow_state") = "volume_confirmed_accumulation",
           "institutional_volume_confirmed_state">>,
         <<Text(r, "flow_state") = "early_stabilization", "institutional_early_stabilization">>>>
    \o FirstOf(<<<<Num(r, "net_flow_to_avg_volume") >= 15, "institutional_flow_ratio_high">>,
                 <<Num(r, "net_flow_to_avg_volume") >= 5, "institutional_flow_ratio_constructive">>,
                 <<Num(r, "net_flow_to_avg_volume") > 0, "institutional_flow_ratio_positive">>>>)
    \o <<<<Has(r, {"rsi14", "bias20", "mfi14", "volume_ratio"}) /\ ~IsOverextended(r),
           "institutional_not_overextended">>,
         <<Has(r, {"margin_delta_pct", "margin_to_volume"}) /\ Num(r, "margin_delta_pct") <= 2
            /\ Num(r, "margin_to_volume") < 2, "institutional_margin_contained">>,
         <<Has(r, {"close", "open"}) /\ Num(r, "close") < Num(r, "open"),
           "institutional_close_below_open">>>>)

Trend(r, states) == Text(r, "obv_trend") \in states
ScorePriceVolume(r) == Matched(
    FirstOf(<<<<Num(r, "volume_ratio") >= 150, "price_volume_expanded_participation">>,
              <<Num(r, "volume_ratio") >= 125, "price_volume_constructive_participation">>>>)
    \o <<<<Has(r, {"close", "resistance_level"}) /\ Num(r, "resistance_level") # 0
            /\ Num(r, "close") * 1000 >= Num(r, "resistance_level") * 995,
           "price_volume_near_range_high">>,
         <<Has(r, {"close", "ma5", "ma20"}) /\ Num(r, "close") > Num(r, "ma20")
            /\ Num(r, "ma5") > Num(r, "ma20"), "price_volume_ma20_reclaim">>,
         <<Trend(r, {"rising", "rising_fast"}), "price_volume_obv_rising">>,
         <<Trend(r, {"turning_up", "flat_to_up"}), "price_volume_obv_turning">>,
         <<Num(r, "mfi14") >= 60, "price_volume_mfi_confirmed">>,
         <<Num(r, "macd_histogram") > 0, "price_volume_macd_positive">>,
         <<Has(r, {"close", "previous_close"}) /\ Num(r, "close") > Num(r, "previous_close"),
           "price_volume_close_above_previous">>,
         <<Has(r, {"close", "resistance_level", "volume_ratio"}) /\ Num(r, "volume_ratio") >= 220
            /\ Num(r, "close") * 100 < Num(r, "resistance_level") * 98,
           "price_volume_volume_without_range_reclaim">>>>)

MacdKnown(r) == Has(r, {"macd_hist_pct"}) \/ (Has(r, {"macd_histogram"}) /\ Num(r, "close") > 0)
MacdHistPct(r) == IF Has(r, {"macd_hist_pct"}) THEN Num(r, "macd_hist_pct")
                  ELSE (Num(r, "macd_histogram") * 100) \div Num(r, "close")
NearSupport(r) ==
    /\ Has(r, {"low", "support_level", "atr14"}) /\ Num(r, "support_level") # 0
    /\ Num(r, "low") <= Num(r, "support_level") + Num(r, "atr14")
\* Mutant: the missing bias counts as zero, near the midline.
BiasByDefault(r) == Num(r, "bias20") <= 1
BiasNearMidline(r) == Has(r, {"bias20"}) /\ Num(r, "bias20") <= 1
MarginEasing(r) == Has(r, {"margin_delta_pct"}) /\ Num(r, "margin_delta_pct") <= 0
ScoreBottoming(r) == Matched(
    <<<<NearSupport(r), "bottoming_low_holds_support_zone">>,
      <<Has(r, {"close", "previous_close"}) /\ Num(r, "close") > Num(r, "previous_close"),
        "bottoming_close_recovers">>>>
    \o FirstOf(<<
        <<MacdKnown(r) /\ MacdHistPct(r) \in -25..50, "bottoming_macd_improving">>,
        <<MacdKnown(r) /\ MacdHistPct(r) > 0, "bottoming_macd_positive">>>>)
    \o <<<<Has(r, {"kd_k", "kd_d"}) /\ Num(r, "kd_k") > Num(r, "kd_d") /\ Num(r, "kd_k") <= 35,
           "bottoming_kd_low_turn">>,
         <<BiasNearMidline(r), "bottoming_bias_near_midline">>,
         <<Trend(r, {"turning_up", "flat_to_up"}), "bottoming_participation_turning">>,
         <<Num(r, "rsi14") \in 35..55, "bottoming_rsi_mid_recovery">>,
         <<MarginEasing(r), "bottoming_margin_easing">>,
         <<Has(r, {"volume_ratio"}) /\ Num(r, "volume_ratio") < 95,
           "bottoming_participation_insufficient">>>>)

ScoreSupportRetest(r) == Matched(
    <<<<NearSupport(r), "support_retest_near_key_level">>,
      <<Has(r, {"close", "previous_close", "support_level"}) /\ Num(r, "support_level") # 0
         /\ Num(r, "close") >= Num(r, "support_level") /\ Num(r, "close") > Num(r, "previous_close"),
        "support_retest_reclaimed_area">>,
      <<Has(r, {"close", "ma20"}) /\ Num(r, "ma20") # 0
         /\ Abs(Num(r, "close") - Num(r, "ma20")) * 100 <= 2 * Num(r, "ma20"),
        "support_retest_ma20_area">>,
      <<Has(r, {"close", "ma60"}) /\ Num(r, "ma60") # 0
         /\ Abs(Num(r, "close") - Num(r, "ma60")) * 100 <= 3 * Num(r, "ma60"),
        "support_retest_ma60_area">>,
      <<Num(r, "volume_ratio") \in 95..140, "support_retest_orderly_participation">>,
      <<Has(r, {"close", "atr14"}) /\ Num(r, "close") # 0
         /\ Num(r, "atr14") * 100 <= 4 * Num(r, "close"), "support_retest_atr_contained">>,
      <<Trend(r, {"flat_to_up", "turning_up", "rising"}), "support_retest_participation_stable">>,
      <<MarginEasing(r), "support_retest_margin_not_expanding">>,
      <<MacdKnown(r) /\ MacdHistPct(r) >= -15, "support_retest_macd_stable">>,
      <<Has(r, {"close", "support_level"}) /\ Num(r, "support_level") # 0
         /\ Num(r, "close") < Num(r, "support_level"), "support_retest_close_below_support">>>>)
BucketRules(r) ==
    [institutional_accumulation |-> ScoreInstitutional(r),
     price_volume_strengthening |-> ScorePriceVolume(r),
     bottoming_reversal |-> ScoreBottoming(r),
     support_retest |-> ScoreSupportRetest(r)]

-----------------------------------------------------------------------------
(* Family caps and what each rule is left with, in ten-thousandths *)
Unit == 10000
WithoutRules(rules, excluded) == SelectSeq(rules, LAMBDA rule : rule \notin excluded)
OfFamily(rules, family) == SelectSeq(rules, LAMBDA rule : Family(rule) = family)
SumPoints(rules, P(_)) == FoldSeq(LAMBDA rule, acc : acc + P(rule), 0, rules)
PositiveRaw(rules) == SumPoints(rules, LAMBDA rule : Max({0, Points(rule)}))
NegativeRaw(rules) == SumPoints(rules, LAMBDA rule : Min({0, Points(rule)}))
FamilyEffective(bucket, family, rules) ==
    LET members == OfFamily(rules, family)
    IN  Min({PositiveRaw(members), Cap(bucket, family)}) + NegativeRaw(members)
EffectiveScore(bucket, rules) ==
    FoldSet(LAMBDA family, acc : acc + FamilyEffective(bucket, family, rules), 0, Families)

\* Rounded share of a rule in its family's capped points.
Share(bucket, rule, rules) ==
    LET raw == PositiveRaw(OfFamily(rules, Family(rule)))
        effective == Min({raw, Cap(bucket, Family(rule))})
    IN  IF Points(rule) <= 0 THEN Points(rule) * Unit
        ELSE (2 * Points(rule) * effective * Unit + raw) \div (2 * raw)
LastPositive(rules, family) ==
    Max({i \in DOMAIN rules : Family(rules[i]) = family /\ Points(rules[i]) > 0})
\* Mutant: the rounding residual is dropped.
RuleEffectiveRounded(bucket, rules, i) == Share(bucket, rules[i], rules)
\* The family's last positive rule takes the rounding residual.
RuleEffective(bucket, rules, i) ==
    LET family == Family(rules[i])
        members == {j \in DOMAIN rules : Family(rules[j]) = family /\ Points(rules[j]) > 0}
        positive == Min({PositiveRaw(OfFamily(rules, family)), Cap(bucket, family)})
        shares == FoldSet(LAMBDA j, acc : acc + Share(bucket, rules[j], rules), 0, members)
    IN  Share(bucket, rules[i], rules)
            + IF Points(rules[i]) > 0 /\ i = LastPositive(rules, family)
              THEN positive * Unit - shares ELSE 0

-----------------------------------------------------------------------------
(* Score of a record *)
MarginCrowded(r) ==
    \/ "margin_crowding" \in r.flags
    \/ Has(r, {"margin_delta_pct"}) /\ Num(r, "margin_delta_pct") >= 10
    \/ Has(r, {"margin_to_volume"}) /\ Num(r, "margin_to_volume") >= 4
FlowConflict(r) ==
    \/ Text(r, "flow_state") \in {"conflict", "weak_confirmation"}
    \/ Num(r, "three_party_net_shares") < 0
    \/ Num(r, "consecutive_negative_days") >= 3
    \/ Num(r, "foreign_net_shares") > 0 /\ 0 > Num(r, "investment_trust_net_shares")
    \/ Num(r, "investment_trust_net_shares") > 0 /\ 0 > Num(r, "foreign_net_shares")
MarketWeakness(m) ==
    "market_weakness" \in m.flags \/ m.above = "no" \/ m.volatility \in {"elevated", "high"}
\* Mutant: the limit is tested for equality.
StaleAtLimit(r) == \E key \in DOMAIN r.dates : RunDay - r.dates[key] = 3
StaleCoreDates(r) == \E key \in DOMAIN r.dates : RunDay - r.dates[key] \notin 0..2
DataGap(r, m, reasons) ==
    \/ (r.flags \cup reasons) \cap {"data_gap", "stale_data", "stale_core_data"} # {}
    \/ Num(r, "missing_trading_days_60") > 0
    \/ StaleCoreDates(r)
    \/ r.symbol \in m.gaps
    \/ EvidenceMissing(r)
RiskPenalties(r, m, reasons) ==
    {q[2] : q \in {p \in
        {<<"overextended" \in r.flags \/ IsOverextended(r), "overextended">>,
         <<FlowConflict(r), "flow_conflict">>,
         <<MarginCrowded(r), "margin_crowding">>,
         <<MarketWeakness(m), "market_weakness">>,
         <<DataGap(r, m, reasons), "data_gap">>} : p[1]}}
Penalty == [overextended |-> -18, flow_conflict |-> -12, margin_crowding |-> -15,
            market_weakness |-> -12, data_gap |-> -18]
RiskCode == [overextended |-> "risk_label_overextended", flow_conflict |-> "risk_label_flow_conflict",
             margin_crowding |-> "risk_label_margin_crowding",
             market_weakness |-> "risk_label_market_weakness", data_gap |-> "risk_label_data_gap"]

CrossConfirmation(r, excluded) ==
    LET technical ==
            \/ Has(r, {"macd_histogram"}) /\ Num(r, "macd_histogram") >= 0
            \/ Has(r, {"kd_k", "kd_d"}) /\ Num(r, "kd_k") > Num(r, "kd_d")
            \/ Has(r, {"close", "ma20"}) /\ Num(r, "close") > Num(r, "ma20")
        flow == Num(r, "three_party_net_shares") > 0 /\ Num(r, "consecutive_positive_days") >= 2
        volume == /\ Num(r, "volume_ratio") >= 105
                  /\ Trend(r, {"rising", "rising_fast", "turning_up", "flat_to_up"})
        part(holds, code, points) == IF holds /\ code \notin excluded THEN points ELSE 0
    IN  part(flow, "cross_confirmation_institutional_flow", 3)
            + part(volume, "cross_confirmation_price_volume", 3)
            + part(technical, "cross_confirmation_technical", 2)
MarketComponent(m, labels, excluded) ==
    CASE "market_weakness" \in labels ->
            IF "market_context_weakness_penalty" \in excluded THEN 0 ELSE -4
      [] "market_weakness" \notin labels /\ m.above = "yes" /\ m.volatility = "normal"
            /\ "market_context_supportive" \notin excluded -> 4
      [] OTHER -> 0
\* Mutant: the bonus code is looked up before the label.
FreshnessComponentByCode(labels, excluded) ==
    CASE "freshness_bonus" \in excluded \/ "freshness_data_gap_penalty" \in excluded -> 0
      [] OTHER -> IF "data_gap" \in labels THEN -12 ELSE 4
FreshnessComponent(labels, excluded) ==
    CASE "data_gap" \in labels -> IF "freshness_data_gap_penalty" \in excluded THEN 0 ELSE -12
      [] OTHER -> IF "freshness_bonus" \in excluded THEN 0 ELSE 4

SecondaryThreshold == 55
\* The first of the highest buckets, in the order of DAILY_RADAR_BUCKETS.
PrimaryBucket(bucketScores) ==
    LET best == Max({bucketScores[b] : b \in DOMAIN bucketScores})
    IN  Buckets[Min({i \in DOMAIN Buckets : bucketScores[Buckets[i]] = best})]
ScoreRecord(r, m, reasons, excluded) ==
    LET hits == BucketRules(r)
        rules == [b \in DOMAIN hits |-> WithoutRules(hits[b], excluded)]
        bucketScores == [b \in DOMAIN hits |-> ClampScore(EffectiveScore(b, rules[b]))]
        primary == PrimaryBucket(bucketScores)
        labels == {l \in RiskPenalties(r, m, reasons) : RiskCode[l] \notin excluded}
        extra == CrossConfirmation(r, excluded)
                    + MarketComponent(m, labels, excluded)
                    + FreshnessComponent(labels, excluded)
                    + (IF "relative_strength" \in excluded THEN 0 ELSE RelativeStrength(r, m))
                    + FoldSet(LAMBDA l, acc : acc + Penalty[l], 0, labels)
    IN  [primary |-> primary,
         secondary |-> {b \in DOMAIN hits \ {primary} : bucketScores[b] >= SecondaryThreshold},
         labels |-> labels,
         matched |-> UNION {ToSet(rules[b]) : b \in
                            {c \in DOMAIN hits : bucketScores[c] >= SecondaryThreshold}},
         \* round(0.8 * primary + extra), clamped; the fraction is never one half
         score |-> ClampScore((8 * bucketScores[primary] + 10 * extra + 5) \div 10)]

-----------------------------------------------------------------------------
(* A batch *)
Pooled(p) == p.selected \o p.shadow
ScorePool(p, m, excluded) ==
    LET all == Pooled(p)
    IN  [s \in {all[i].record.symbol : i \in DOMAIN all} |->
            LET x == all[CHOOSE i \in DOMAIN all : all[i].record.symbol = s]
            IN  ScoreRecord(x.record, m, x.reasons, excluded)]
\* Mutant: the cut is made in the prefilter's order, by turnover.
PublishedByTurnover(p, sc) ==
    LET ranked == p.selected
    IN  {ranked[i].record.symbol : i \in 1..Min({CandidateLimit, Len(ranked)})}
\* The candidates a run publishes: the best scores among the accepted.
Published(p, sc) ==
    LET before(a, b) ==
            LET s == a.record.symbol
                t == b.record.symbol
            IN  sc[s].score > sc[t].score \/ (sc[s].score = sc[t].score /\ s < t)
        ranked == SetToSortSeq(ToSet(p.selected), before)
    IN  {ranked[i].record.symbol : i \in 1..Min({CandidateLimit, Len(ranked)})}

EmptyPool == [selected |-> <<>>, shadow |-> <<>>, excluded |-> {}]
NoScores == [s \in {} |-> 0]
Asked(what, i, name, codes) == [what |-> what, i |-> i, name |-> name, codes |-> codes]
Init ==
    /\ \E l \in Loads : batch = l.batch /\ market = l.market
    /\ asked = Asked("loaded", 0, "none", {})
    /\ pool = EmptyPool
    /\ scores = NoScores

\* Stage one and the scoring of everything it kept.
Screen ==
    /\ asked.what = "loaded"
    /\ asked' = Asked("scored", 0, "none", {})
    /\ pool' = Stage1Prefilter(batch, market)
    /\ scores' = ScorePool(pool', market, {})
    /\ UNCHANGED <<batch, market>>

Rerun(i, r) ==
    /\ batch' = [batch EXCEPT ![i] = r]
    /\ pool' = Stage1Prefilter(batch', market)
    /\ scores' = ScorePool(pool', market, {})
    /\ UNCHANGED market

\* The same batch had the source not delivered a field.
Without(r, f) == [r EXCEPT !.f = [g \in DOMAIN r.f \ {f} |-> r.f[g]]]
Withhold(i, f) ==
    /\ asked.what = "scored"
    /\ f \in DOMAIN batch[i].f
    /\ asked' = Asked("withheld", i, f, {})
    /\ Rerun(i, Without(batch[i], f))

\* The same batch with a source's date a day further from the run's.
Drift(i, key) ==
    /\ asked.what = "scored"
    /\ key \in DOMAIN batch[i].dates
    /\ asked' = Asked("drifted", i, key, {})
    /\ LET day == batch[i].dates[key]
       IN  Rerun(i, [batch[i] EXCEPT !.dates[key] = IF day > RunDay THEN day + 1 ELSE day - 1])

\* The same batch with a bar that was published after the run's date.
Leak(i) ==
    /\ asked.what = "scored"
    /\ asked' = Asked("leaked", i, "none", {})
    /\ Rerun(i, [batch[i] EXCEPT !.prices =
            [d \in DOMAIN @ \cup {RunDay + 1} |-> IF d = RunDay + 1 THEN 1 ELSE @[d]]])

\* A counterfactual replay of the stored inputs without some rule codes.
Exclude(codes) ==
    /\ asked.what = "scored"
    /\ asked' = Asked("replayed", 0, "none", codes)
    /\ scores' = ScorePool(pool, market, codes)
    /\ UNCHANGED <<batch, market, pool>>

Next ==
    \/ Screen
    \/ \E i \in DOMAIN batch :
        \/ \E f \in DOMAIN batch[i].f : Withhold(i, f)
        \/ \E key \in DOMAIN batch[i].dates : Drift(i, key)
        \/ Leak(i)
    \/ \E codes \in Groups[Len(batch)] : Exclude(codes)
Spec == Init /\ [][Next]_vars

-----------------------------------------------------------------------------
(* Properties *)
Selected(p) == {p.selected[i].record.symbol : i \in DOMAIN p.selected}
Ranked(p) == {Pooled(p)[i].record.symbol : i \in DOMAIN Pooled(p)}

\* Every symbol of the batch is in exactly one of selected, shadow and
\* excluded, and whatever the penalties add up to is a score from 0 to 100.
TypeOK ==
    /\ asked.what \in {"loaded", "scored", "withheld", "drifted", "leaked", "replayed"}
    /\ DOMAIN scores = Ranked(pool)
    /\ \A s \in DOMAIN scores : scores[s].score \in 0..100
    /\ asked.what # "loaded" =>
        {batch[i].symbol : i \in DOMAIN batch} =
            Ranked(pool) \cup {x.record.symbol : x \in pool.excluded}
    /\ \A x \in pool.excluded : x.record.symbol \notin Ranked(pool)

\* A missing operand is never read as a zero that earns points: without a
\* field no signal family of any bucket has more positive points than with
\* it, and no deduction appears (_score_* and _has_numbers in scoring.py).
MissingEarnsNothing ==
    asked.what = "loaded" => \A i \in DOMAIN batch : \A f \in DOMAIN batch[i].f :
        LET whole == BucketRules(batch[i])
            less == BucketRules(Without(batch[i], f))
        IN  \A b \in DOMAIN whole : \A family \in Families :
                /\ PositiveRaw(OfFamily(less[b], family)) <= PositiveRaw(OfFamily(whole[b], family))
                /\ NegativeRaw(OfFamily(less[b], family)) >= NegativeRaw(OfFamily(whole[b], family))

\* The points a reader finds on the matched rules add up to the score of the
\* bucket, cap and rounding included (_apply_signal_family_caps).
AttributionIsExact ==
    asked.what = "loaded" => \A i \in DOMAIN batch :
        LET hits == BucketRules(batch[i])
        IN  \A b \in DOMAIN hits :
                FoldSet(LAMBDA k, acc : acc + RuleEffective(b, hits[b], k), 0, DOMAIN hits[b])
                    = EffectiveScore(b, hits[b]) * Unit

\* The prefilter and the scorer hold their own copies of the thresholds: what
\* the prefilter selects the scorer never calls crowded, calls overextended
\* exactly when the trend excused it, and calls gapped only for what the
\* prefilter tolerates.
SelectedRisksAreCaveats ==
    \A i \in DOMAIN pool.selected :
        LET x == pool.selected[i]
            labels == RiskPenalties(x.record, market, x.reasons)
        IN  /\ "margin_crowding" \notin labels
            /\ "overextended" \in labels <=> "overextended" \in x.caveats
            /\ "data_gap" \in labels =>
                \/ Num(x.record, "missing_trading_days_60") \in 1..3
                \/ x.record.symbol \in market.gaps
                \/ \E key \in DOMAIN x.record.dates \ CoreDates :
                        RunDay - x.record.dates[key] \notin 0..2

\* The candidate limit cuts by score: no candidate that was published scores
\* below one that was not, and places are left only when nobody is
\* (DailyRadarService._run).
PublishedOutranks ==
    LET published == Published(pool, scores)
    IN  /\ Cardinality(published) = Min({CandidateLimit, Len(pool.selected)})
        /\ \A s \in published, t \in Selected(pool) \ published :
                scores[s].score >= scores[t].score

\* Had a source failed to deliver a field the scoring requires, the record
\* would neither be published nor be compared with what was.
WithheldIsNotRanked ==
    [][ LET i == asked'.i
            others == {j \in DOMAIN batch : j # i /\ batch[j].symbol = batch[i].symbol}
            required == RequiredScoringFields \cup RequiredInstitutionalFields(batch[i])
                            \cup MarginRequiredFields(batch[i])
        IN  (asked'.what = "withheld" /\ others = {} /\ asked'.name \in required)
                => batch[i].symbol \notin Ranked(pool')]_vars

\* Older or postdated evidence never brings a record in and never raises its
\* score (_stale_core_fields, _has_stale_core_dates).
StalenessNeverHelps ==
    [][asked'.what = "drifted" =>
        /\ Selected(pool') \subseteq Selected(pool)
        /\ \A s \in DOMAIN scores \cap DOMAIN scores' : scores'[s].score <= scores[s].score]_vars

\* A bar after the run's date changes neither who is selected nor a score
\* (calculate_relative_strength, build_medium_term_context).
NoLookAhead ==
    [][asked'.what = "leaked" => Selected(pool') = Selected(pool) /\ scores' = scores]_vars

\* A counterfactual without rules that only add points never scores higher,
\* and one without deductions never lower, whatever bucket comes out first.
Deductions == {RiskCode[l] : l \in DOMAIN RiskCode}
                \cup {"market_context_weakness_penalty", "freshness_data_gap_penalty"}
                \cup {rule \in DOMAIN Rules : Points(rule) < 0}
ExclusionMovesOneWay ==
    [][asked'.what = "replayed" =>
        LET codes == asked'.codes
            earning == codes \cap (Deductions \cup {"relative_strength"}) = {}
        IN  \A s \in DOMAIN scores :
                /\ earning => scores'[s].score <= scores[s].score
                /\ codes \subseteq Deductions => scores'[s].score >= scores[s].score]_vars

\* A score is made of evidence that is there, and its parts add up to it.
ScoresAreBacked == TypeOK /\ MissingEarnsNothing /\ AttributionIsExact

\* The prefilter, the scorer and the candidate limit agree on what is published.
SelectionAgrees == SelectedRisksAreCaveats /\ PublishedOutranks

\* What if a field had not been delivered, a date been further off, a bar come
\* from the future or a rule been left out: the answer moves one way or not at all.
WhatIfIsMonotone == WithheldIsNotRanked /\ StalenessNeverHelps /\ NoLookAhead /\ ExclusionMovesOneWay
=============================================================================
