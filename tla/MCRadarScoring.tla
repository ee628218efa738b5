--------------------------- MODULE MCRadarScoring ---------------------------
(* Records whose fields sit on both sides of the thresholds; a run day with  *)
(* history before it, and the replay groups of rule_registry.py that fit.    *)
EXTENDS RadarScoring

mcRunDay == 8
Prices(f(_)) == [d \in 2..8 |-> f(d)]
Rising == Prices(LAMBDA d : 100 + 4 * d)
Level == Prices(LAMBDA d : 100)
Gapped == [d \in {2, 3, 5, 6, 7, 8} |-> 100 + d]
Dates(o, i) == [k \in CoreDates |-> CASE k = "ohlcv" -> o [] k = "institutional_flow" -> i
                                      [] OTHER -> mcRunDay]
Strong ==
    [symbol |-> 1, margin |-> "reported", tracks |-> {}, flags |-> {},
     prices |-> Rising, dates |-> Dates(8, 8),
     f |-> [open |-> 129, high |-> 134, low |-> 126, close |-> 132, previous_close |-> 128,
            volume |-> 9, avg_volume_20 |-> 5000, ma5 |-> 130, ma20 |-> 126, ma60 |-> 118,
            rsi14 |-> 62, bias20 |-> 5, macd_histogram |-> 80, kd_k |-> 70, kd_d |-> 60,
            atr14 |-> 4, volume_ratio |-> 160, missing_trading_days_60 |-> 0, mfi14 |-> 66,
            obv_trend |-> "rising", macd_hist_pct |-> 60, support_level |-> 120,
            resistance_level |-> 132, flow_state |-> "consistent_accumulation",
            consecutive_positive_days |-> 5, foreign_net_shares |-> 400,
            investment_trust_net_shares |-> 90, three_party_net_shares |-> 500,
            net_flow_to_avg_volume |-> 16, margin_delta_pct |-> 1, margin_to_volume |-> 1]]
\* The technical contract holds the MACD percentage to the histogram and close.
With(r, g) ==
    LET f == [x \in DOMAIN r.f |-> IF x \in DOMAIN g THEN g[x] ELSE r.f[x]]
    IN  [r EXCEPT !.f = [f EXCEPT !["macd_hist_pct"] = (f["macd_histogram"] * 100) \div f["close"]]]
\* Hot on volume alone; excused when its trend is constructive.
Hot == With(Strong, [volume_ratio |-> 250, mfi14 |-> 90])
Turning == With([Strong EXCEPT !.symbol = 2, !.prices = Level],
    [close |-> 101, open |-> 102, previous_close |-> 100, low |-> 98, support_level |-> 97,
     resistance_level |-> 110, ma5 |-> 99, ma20 |-> 101, ma60 |-> 103, rsi14 |-> 45, bias20 |-> 0,
     macd_histogram |-> -10, kd_k |-> 30, kd_d |-> 22, volume_ratio |-> 100,
     mfi14 |-> 50, obv_trend |-> "turning_up", flow_state |-> "early_stabilization",
     consecutive_positive_days |-> 2, foreign_net_shares |-> -10, three_party_net_shares |-> 20,
     net_flow_to_avg_volume |-> 3, margin_delta_pct |-> -2])
Weak == With([Turning EXCEPT !.symbol = 3, !.prices = Gapped],
    [close |-> 90, low |-> 88, volume_ratio |-> 90, obv_trend |-> "falling",
     three_party_net_shares |-> -40, flow_state |-> "conflict", macd_histogram |-> -81])
Churning == With([Strong EXCEPT !.symbol = 4],
    [resistance_level |-> 160, volume_ratio |-> 230, obv_trend |-> "flat_to_up",
     missing_trading_days_60 |-> 2, close |-> 124, flow_state |-> "volume_confirmed_accumulation",
     consecutive_positive_days |-> 3, net_flow_to_avg_volume |-> 6])
Crowded == With([Strong EXCEPT !.symbol = 5], [margin_delta_pct |-> 10, volume_ratio |-> 130])
\* On the universe's tracks instead of the older fields.
Tracked(r, tracks, g) ==
    [r EXCEPT !.tracks = tracks,
              !.f = [x \in (DOMAIN r.f \ {"three_party_net_shares", "consecutive_positive_days",
                                          "foreign_net_shares"}) \cup DOMAIN g
                     |-> IF x \in DOMAIN g THEN g[x] ELSE r.f[x]]]
SameDay == Tracked([Turning EXCEPT !.symbol = 6], {"same_day_institutional", "market_trend"},
                   [same_day_actor |-> "foreign", same_day_net_buy |-> 70])
Recent == Tracked([Strong EXCEPT !.symbol = 7], {"foreign_recent_accumulation"},
                  [foreign_cumulative_net_shares |-> 900, foreign_consecutive_buy_days |-> 3])
NoBaseline == [Turning EXCEPT !.margin = "baseline_zero", !.symbol = 8,
    !.f = [x \in DOMAIN Turning.f \ {"margin_delta_pct"} |-> Turning.f[x]]]
NoMargin == [Strong EXCEPT !.margin = "not_applicable", !.symbol = 9,
    !.f = [x \in DOMAIN Strong.f \ {"margin_delta_pct", "margin_to_volume"} |-> Strong.f[x]]]
Singles ==
    {Strong, Hot, Turning, Weak, Churning, Crowded, SameDay, Recent, NoBaseline, NoMargin,
     [Hot EXCEPT !.prices = Level], [Strong EXCEPT !.dates = Dates(7, 6)],
     [Strong EXCEPT !.dates = Dates(9, 8)],
     [Strong EXCEPT !.dates = [k \in CoreDates \cup {"technical_profile"} |-> 6]],
     [Strong EXCEPT !.dates = [k \in CoreDates \cup {"technical_profile"} |-> IF k \in CoreDates THEN 8 ELSE 5]],
     [Turning EXCEPT !.flags = {"overextended"}], [Weak EXCEPT !.flags = {"overextended", "margin_crowding"}], [Recent EXCEPT !.tracks = @ \cup {"unlisted"}],
     With(Strong, [close |-> 19]), With(Strong, [avg_volume_20 |-> 2000])}
\* A batch with the same symbol twice, and one of symbol 10 that is dearer.
Batched == {Strong, Turning, [Turning EXCEPT !.dates = Dates(5, 8)],
            [Strong EXCEPT !.symbol = 10, !.prices = Level],
            With([Churning EXCEPT !.symbol = 11], [avg_volume_20 |-> 9000])}

Market(above, volatility, flags, index) ==
    [above |-> above, volatility |-> volatility, flags |-> flags, index |-> index,
     date |-> mcRunDay, gaps |-> {}]
Supportive == Market("yes", "normal", {}, Level)
Future == [d \in 2..9 |-> 100]
Markets ==
    {Supportive, Market("yes", "normal", {"market_weakness"}, Rising),
     Market("unknown", "normal", {}, Future), [Market("no", "high", {}, Level) EXCEPT !.date = 5],
     [Supportive EXCEPT !.gaps = {1, 2}], [Supportive EXCEPT !.date = 0],
     [Supportive EXCEPT !.date = 0, !.index = <<>>]}
TwoMarkets == {Supportive, Market("no", "high", {}, Future)}

AllGroups ==
    {{c} : c \in DOMAIN Rules \cup {RiskCode[l] : l \in DOMAIN RiskCode}} \cup
    {{"freshness_bonus"}, {"freshness_data_gap_penalty"}, {"market_context_supportive"},
     {"market_context_weakness_penalty"}, {"relative_strength"},
     {"bottoming_kd_low_turn", "cross_confirmation_technical"},
     {"price_volume_near_range_high", "price_volume_volume_without_range_reclaim",
      "bottoming_low_holds_support_zone", "support_retest_near_key_level",
      "support_retest_reclaimed_area", "support_retest_close_below_support"},
     {"price_volume_obv_rising", "price_volume_obv_turning", "bottoming_participation_turning",
      "cross_confirmation_price_volume"}}
FewGroups == {{"price_volume_expanded_participation"}, {"risk_label_data_gap"}}

\* Each record alone in every market, and batches of three in two of them.
mcLoads == [batch : {<<r>> : r \in Singles}, market : Markets]
           \cup [batch : [1..3 -> Batched], market : TwoMarkets]
mcGroups == <<AllGroups, {}, FewGroups>>
=============================================================================
