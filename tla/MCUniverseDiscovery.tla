------------------------ MODULE MCUniverseDiscovery ------------------------
(***************************************************************************)
(* The universe's discovery and the anchored averages of selected stocks   *)
(* for TLC. They share no state, so a behaviour is about one of the two,   *)
(* and the other's variables keep their initial values. The universe's     *)
(* averages over 20, 60 and 5 days are averages over 2, 3 and 1; prices    *)
(* and volumes are chosen so that stock 1 trends, 2 strengthens on volume  *)
(* and is bought by both actors, 3 and 4 are leaders of the other market,  *)
(* 4 jumps by a quarter on day 3, 5 is thinly traded until day 5, and 9 is *)
(* none of the radar's.                                                    *)
(***************************************************************************)
EXTENDS UniverseDiscovery, DailyAvwap

mcMarkets == {"TW", "TWO"}
mcSymbols == {1, 2, 3, 4, 5, 9}
mcMarketOf == [s \in mcSymbols |-> IF s \in {1, 2, 9} THEN "TW" ELSE "TWO"]
mcClose == 1 :> <<40, 42, 44, 46, 49, 52, 55>> @@ 2 :> <<50, 50, 50, 50, 51, 52, 53>>
    @@ 3 :> <<60, 58, 60, 61, 62, 63, 64>> @@ 4 :> <<40, 40, 60, 61, 62, 63, 64>>
    @@ 5 :> <<30, 31, 32, 33, 34, 35, 36>> @@ 9 :> <<30, 32, 34, 36, 38, 40, 42>>
mcVolume == [s \in mcSymbols |->
    CASE s = 2 -> <<10, 10, 10, 10, 14, 18, 26>> [] OTHER -> <<10, 10, 10, 11, 11, 11, 11>>]
mcAmount == [s \in mcSymbols |->
    CASE s = 5 -> <<900, 900, 100, 100, 300, 300, 300>> [] OTHER -> <<400, 400, 400, 400, 400, 400, 400>>]
mcNet == [a \in {"foreign", "trust"} |-> [s \in mcSymbols |->
    CASE s = 2 -> <<2, 2, 2, 2, 3, 3, 3>>
      [] s = 3 -> IF a = "foreign" THEN <<1, 1, -3, 2, 2, 2, 2>> ELSE <<1, None, 1, 1, 1, 1, 1>>
      [] OTHER -> <<-1, -1, -1, -1, -1, -1, -1>>]]

Files(f, g) == [m \in mcMarkets |-> IF m = "TW" THEN f ELSE g]
Full == [files |-> Files("final", "final"), without |-> {}, report |-> TRUE]
Holiday == [files |-> Files("none", "none"), without |-> {}, report |-> FALSE]
mcDayKinds == {Full, Holiday,
    [Full EXCEPT !.without = {2, 3}],
    [Full EXCEPT !.files = Files("none", "none")],
    [Full EXCEPT !.files = Files("final", "early"), !.report = FALSE]}

Lists(a, b, c, d) == [foreign_same_day |-> a, trust_same_day |-> b,
                      foreign_recent_accumulation |-> c, trust_recent_accumulation |-> d]
mcDiscoveryLeaders == {Lists(<<3, 4, 5>>, <<4, 3>>, <<3>>, <<9, 5>>)}

Measured(c, p, v, m5, m20, l, su, k, kd, rsi, macd) ==
    [close |-> c, previous |-> p, volume_ratio |-> v, ma5 |-> m5, ma20 |-> m20, low |-> l, support |-> su,
     kd_k |-> k, kd_d |-> kd, rsi14 |-> rsi, macd_hist_pct |-> macd, macd_histogram |-> None]
Strong == Measured(60, 55, 160, 58, 54, 56, 50, 70, 60, 70, 10)
Reversing == [Measured(52, 51, 80, 55, 58, 51, 50, 30, 25, 40, None) EXCEPT !.macd_histogram = 0]
Retaking == Measured(51, 48, 100, 49, 50, 48, 50, 60, 55, 65, -20)
Dull == Measured(50, 51, 80, 50, 52, 49, 0, 50, 55, 62, -20)
Holed == [Strong EXCEPT !.kd_k = None]
Of(r) == [record |-> r, current |-> TRUE]
mcNoRows == {(1 :> Of(Strong))}
mcUniverseKinds == {Full, Holiday}
mcCaps == {3, 9}
mcUniverseLeaders == {Lists(<<4, 3, 1, 5, 2>>, <<4, 3, 1>>, <<5, 2>>, <<2>>),
                      Lists(<<3, 3, 4>>, <<>>, <<5, 9>>, <<>>)}
mcUniverseRows ==
    {(1 :> Of(Strong) @@ 3 :> Of(b) @@ 4 :> Of(Retaking) @@ 5 :> [record |-> Strong, current |-> FALSE]) :
        b \in {Dull, Reversing}}
    \cup {(1 :> Of(Holed) @@ 3 :> Of(Retaking) @@ 5 :> Of(Dull)),
          (1 :> Of(Dull) @@ 2 :> Of(Strong) @@ 4 :> [record |-> Retaking, current |-> FALSE])}
mcSettings == [
    discovery |-> [last |-> 7, begun |-> 3, dayKinds |-> mcDayKinds, lateDays |-> {4, 5}, asked |-> {5, 6},
                   leaders |-> mcDiscoveryLeaders, rows |-> mcNoRows, caps |-> {6}],
    universe |-> [last |-> 6, begun |-> 4, dayKinds |-> mcUniverseKinds, lateDays |-> {5}, asked |-> {6},
                  leaders |-> mcUniverseLeaders, rows |-> mcUniverseRows, caps |-> mcCaps]]

-----------------------------------------------------------------------------
(* Averages: histories of three bars in a window of five days over two       *)
(* months.  The first stock rises and falls back; the second, halted on day  *)
(* 4, ends on a day without volume at its highest price; the third is listed *)
(* on day 5; the fourth trades on another market.                            *)
avStocks == {1, 2, 3, 4}
avExchangeOf == <<"TW", "TW", "TWO", "HK">>
avDays == 1..6
avMonthOf(d) == IF d <= 3 THEN 1 ELSE 2
avListing == [s \in avStocks |-> IF s = 3 THEN [listed |-> 5, evidenced |-> 6]
                                ELSE [listed |-> 0, evidenced |-> 0]]
Price(low, close, high, volume) ==
    [low |-> low, close |-> close, high |-> high, volume |-> volume,
     amount |-> (2 * low + high) * volume]
avBarOf == [s \in avStocks |->
    CASE s = 1 -> <<Price(1, 2, 2, 4), Price(2, 2, 3, 1), Price(4, 5, 6, 1),
                    Price(6, 7, 9, 2), Price(5, 5, 6, 1), Price(5, 6, 7, 1)>>
      [] s = 2 -> [d \in {1, 2, 3, 5, 6} |-> IF d = 6 THEN Price(9, 9, 9, 0) ELSE Price(3, 4, 5, 2)]
      [] s = 3 -> [d \in {5, 6} |-> Price(2, 2, 4, 1)]
      [] OTHER -> [d \in 1..6 |-> Price(1, 1, 1, 1)]]

avArchives(first, second, third) ==
    [s \in avStocks |-> CASE s = 1 -> first [] s = 2 -> second [] s = 3 -> third [] OTHER -> {}]
Setting(selected, bars, ingests, dates, calendar) ==
    [selected |-> selected, archive |-> bars, ingests |-> ingests, runs |-> dates,
     calendar |-> calendar]

\* A hole that another stock shows and one that none does, both closed later.
avHole == Setting(<<1, 2>>, avArchives({1, 2, 5, 6}, {1, 2, 3, 5, 6}, {}),
                  {{<<1, 3>>}, {<<1, 4>>}}, {5}, 1..6)
\* Three dates, the bars of the later two still to come.
avDates == Setting(<<1, 4>>, avArchives(1..4, {1, 2, 3}, {}),
                   {{<<1, 5>>, <<2, 5>>}, {<<1, 6>>, <<2, 6>>}}, {4, 5, 6}, 1..6)
\* A listing that is proven in full, by no calendar, or with a bar to come.
avListed(archived, calendar) ==
    Setting(<<3, 1>>, avArchives({}, {}, archived), {{<<3, 5>>}}, {6}, calendar)
\* Nothing archived.
avRemote(selected, date) == Setting(selected, avArchives({}, {}, {}), {}, {date}, {})
avSettings == {avHole, avDates, avListed({5, 6}, 1..6), avListed({5, 6}, 1..5),
               avListed({6}, 1..6), avRemote(<<3, 2, 1>>, 5), avRemote(<<2, 1>>, 6)}

ASSUME AveragesAssumption == AvwapAssumption

VARIABLE track  \* the track the behaviour is about

TracksInit ==
    /\ track \in {"universe", "averages"} /\ Init /\ AvwapInit
    /\ IF track = "universe" THEN instance = avHole ELSE setting = "universe"
TracksNext ==
    \/ track = "universe" /\ Next /\ UNCHANGED <<track, avwapVars>>
    \/ track = "averages" /\ AvwapNext /\ UNCHANGED <<track, vars>>
TracksSpec == TracksInit /\ [][TracksNext]_<<track, vars, avwapVars>>

-----------------------------------------------------------------------------
\* What is discovered is measured and liquid.
UniverseIsSound == track = "universe" => DiscoveryIsSound

\* And a universe is of its day.
UniverseIsRight == []UniverseIsSound /\ UniverseIsOfTheDay
=============================================================================
