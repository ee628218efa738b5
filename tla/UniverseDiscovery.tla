------------------------- MODULE UniverseDiscovery -------------------------
(***************************************************************************)
(* How a Daily Radar run finds its universe: market_exploration.py and     *)
(* scaled_accumulation.py discover symbols in the official market archive, *)
(* universe.py merges them with the institutional leaders and the          *)
(* technical triggers and shares the seats out, and refresh-ohlcv attaches *)
(* the official turnover and takes the triggers from the fresh rows.       *)
(*                                                                         *)
(* The archive grows by a day at a time; a market's file may be missing,   *)
(* preliminary or without one stock, and files and reports that were       *)
(* missing may still be stored later. Every window has its calendar fixed  *)
(* before coverage is looked at.                                           *)
(***************************************************************************)
EXTENDS Integers, Sequences, FiniteSets, FiniteSetsExt, SequencesExt, TLC

CONSTANTS
    LastDay,      \* the calendar days are 1..LastDay
    Markets,      \* {"TW", "TWO"}
    Symbols,      \* the stocks, natural numbers in the order of their codes
    MarketOf,     \* the market of each stock
    Unsupported,  \* the stocks Daily Radar does not take (ETFs, 9105)
    Close, Volume, Amount, \* the bar of each stock and day; 0 is no value
    Net,          \* net shares an actor bought, by actor, stock and day
    Short,        \* days of a moving average and of the turnover (20)
    Trend,        \* days of the long average (60)
    Lag,          \* days over which its slope is taken (5)
    LongHorizon,  \* calendar days exploration looks back (240)
    ShortHorizon, \* calendar days the turnover looks back (90)
    MinTurnover, MinPrice, \* the baseline of a discovery
    TrackLimit,   \* symbols of one track (50)
    Settings,     \* what a behaviour may be about, by name
    None          \* no value

Days == 1..LastDay
ASSUME WindowsAssumption == {Short, Trend, Lag} \subseteq Nat \ {0} /\ Short <= Trend
ASSUME HorizonAssumption == ShortHorizon <= LongHorizon
ASSUME SettingsAssumption ==
    \A name \in DOMAIN Settings :
        LET s == Settings[name] IN s.asked \subseteq 1..s.last /\ s.last <= LastDay /\ s.begun \in 1..s.last

VARIABLES
    setting,  \* the name of the setting the behaviour is about
    today,    \* the last day the archive has heard of
    archive,  \* bars: the files of each day, gaps: stocks missing from them,
              \*   reports: days with complete institutional reports
    explored, \* per run date, the last exploration and the archive it read
    prepared, \* the prepared run: its day, the merged universe before its
              \*   seats were shared out, how many there were, its entries
    rawRows,  \* per stock, the raw row last stored, and of which day
    step      \* what the last step was, and the day it was about
vars == <<setting, today, archive, explored, prepared, rawRows, step>>

Begun    == Settings[setting].begun    \* days archived at first
DayKinds == Settings[setting].dayKinds \* what the archive may get of a day
LateDays == Settings[setting].lateDays \* days whose files or reports may be stored late (bound)
Leaders  == Settings[setting].leaders  \* what the institutional ranking may answer: functions
                                       \*   from track to a sequence of stocks
Rows     == Settings[setting].rows     \* what fetching rows may yield: functions from stocks to
                                       \*   rows, [record, current], current if of the day itself
Caps     == Settings[setting].caps     \* seats of a universe (max_symbols)
Asked    == Settings[setting].asked    \* the run dates asked for

-----------------------------------------------------------------------------
(* Tracks *)
Segmented == <<"foreign_same_day", "trust_same_day",
               "foreign_recent_accumulation", "trust_recent_accumulation">>
Technical == <<"price_volume", "reversal", "support_retake">>
TrackPriority == Segmented \o Technical \o
    <<"market_trend", "market_price_volume", "foreign_scaled_accumulation", "trust_scaled_accumulation">>
ScaledActor == [foreign_scaled_accumulation |-> "foreign", trust_scaled_accumulation |-> "trust"]
First(tracks) == TrackPriority[Min({i \in 1..Len(TrackPriority) : TrackPriority[i] \in tracks})]

Entry(s, tracks) == [symbol |-> s, primary |-> First(tracks), tracks |-> tracks]
SymbolsOf(entries) == {entries[i].symbol : i \in 1..Len(entries)}

\* Mutant: every stock is taken.
EntriesOfAll(entries) == entries

Supported(entries) == SelectSeq(entries, LAMBDA e : e.symbol \notin Unsupported)

-----------------------------------------------------------------------------
(* The calendar of the archive *)
Final(a, m, d) == a.bars[m][d] = "final"

\* Mutant: the days with final bars make up the calendar.
KnownDaysByBars(a, d, horizon) ==
    {e \in (d - horizon)..d \cap Days : \E m \in Markets : a.bars[m][e] = "final"}

\* Days something proves to have been sessions: a bar of either market, if
\* only a preliminary one, or the day's completed institutional reports.  (To
\* all that follows, the report of one market is no more than a preliminary
\* bar of it: the day was a session, and it is not covered.)
KnownDays(a, d, horizon) ==
    {e \in (d - horizon)..d \cap Days : e \in a.reports \/ \E m \in Markets : a.bars[m][e] # "none"}

LastOf(days, n) == {d \in days : Cardinality({e \in days : e > d}) < n}

\* Mutant: the last sessions are taken first, those after the run's date cut off.
WindowCutLast(a, d, n, horizon) ==
    LastOf(KnownDays(a, LastDay, LastDay) \cup {d}, n) \cap 1..d

Window(a, d, n, horizon) == LastOf(KnownDays(a, d, horizon) \cup {d}, n)
MissingDays(a, days) == {e \in days : \E m \in Markets : ~Final(a, m, e)}

\* The stock's own bars among those days.
BarsOf(a, s, days) == {e \in days : Final(a, MarketOf[s], e) /\ <<s, e>> \notin a.gaps}

-----------------------------------------------------------------------------
(* Exploration of the market archive *)
Total(f, days) == MapThenSumSet(LAMBDA e : f[e], days)
NthLast(days, n) == CHOOSE e \in days : Cardinality({f \in days : f > e}) = n - 1

\* A jump of a quarter between neighbours of the window: a corporate action.
Discontinuous(s, days) ==
    \E e, f \in days : /\ e < f /\ ~\E g \in days : e < g /\ g < f
                      /\ 4 * (IF Close[s][f] > Close[s][e] THEN Close[s][f] - Close[s][e]
                                                         ELSE Close[s][e] - Close[s][f]) >= Close[s][e]

\* A stock listed later has a shorter window, one with a gap has not.
StockWindow(a, sessions, s) == LastOf(sessions, Cardinality(BarsOf(a, s, sessions)))

\* Mutant: the turnover of the whole window is averaged.
LiquidOnTheWhole(d, s, days) ==
    /\ \A e \in days : Amount[s][e] > 0
    /\ Total(Amount[s], days) >= MinTurnover * Short
    /\ Close[s][d] >= MinPrice

Liquid(d, s, days) ==
    /\ \A e \in LastOf(days, Short) : Amount[s][e] > 0
    /\ Total(Amount[s], LastOf(days, Short)) >= MinTurnover * Short
    /\ Close[s][d] >= MinPrice

Eligible(a, d, s, days) ==
    /\ d \in BarsOf(a, s, days)
    /\ Cardinality(days) >= Short + 1
    /\ days \subseteq BarsOf(a, s, days)
    /\ \A e \in days : Close[s][e] > 0 /\ Volume[s][e] > 0
    /\ ~Discontinuous(s, days)
    /\ Liquid(d, s, days)

\* The score of a match is a fraction, as are those it is ranked against.
Fraction(num, den) == [num |-> num, den |-> den]
Above(p, q) == p.num * q.den > q.num * p.den

VolumeRatio(d, s, days) ==
    Fraction(Volume[s][d] * Short, Total(Volume[s], LastOf(days, Short + 1) \ {d}))
LongReturn(d, s, days) == Fraction(Close[s][d], Close[s][NthLast(days, Trend + 1)])

PriceVolumeMatch(d, s, days) ==
    /\ Close[s][d] * Short > Total(Close[s], LastOf(days, Short))
    /\ Close[s][d] > Close[s][NthLast(days, 2)]
    /\ ~Above(Fraction(5, 4), VolumeRatio(d, s, days))

TrendMatch(d, s, days) ==
    LET short == Total(Close[s], LastOf(days, Short))
        long == Total(Close[s], LastOf(days, Trend))
        prior == Total(Close[s], LastOf(days, Trend + Lag) \ LastOf(days, Lag))
    IN  /\ Cardinality(days) >= Trend + Lag
        /\ Close[s][d] * Short >= short /\ short * Trend >= long * Short
        /\ long > prior
        /\ Above(LongReturn(d, s, days), Fraction(1, 1))

\* The stocks of scored matches by score, where scores are equal by the second
\* one that accumulations have, where all is equal by code; the first of them.
Match(s, score, second) == [symbol |-> s, score |-> score, second |-> second]
Unscored == Fraction(0, 1)
Ranked(matches, limit) ==
    LET Before(x, y) == \/ Above(x.score, y.score)
                        \/ /\ ~Above(y.score, x.score)
                           /\ \/ Above(x.second, y.second)
                              \/ ~Above(y.second, x.second) /\ x.symbol < y.symbol
    IN  [i \in 1..Min({Cardinality(matches), limit}) |->
            (CHOOSE y \in matches : Cardinality({x \in matches : Before(x, y)}) = i - 1).symbol]

\* A stock already there keeps its place and primary track.
AddTrack(entries, s, track) ==
    IF s \in SymbolsOf(entries)
    THEN [i \in 1..Len(entries) |->
             IF entries[i].symbol = s THEN [entries[i] EXCEPT !.tracks = @ \cup {track}] ELSE entries[i]]
    ELSE Append(entries, Entry(s, {track}))
AddRanked(entries, track, stocks) ==
    FoldLeft(LAMBDA acc, s : AddTrack(acc, s, track), entries, stocks)

\* Mutant: discoveries are entries of their own.
MergeAppending(entries, discoveries) == Supported(entries \o discoveries)

Merge(entries, discoveries) ==
    Supported(FoldLeft(LAMBDA acc, e :
        IF e.symbol \in SymbolsOf(acc)
        THEN [i \in 1..Len(acc) |->
                 IF acc[i].symbol = e.symbol THEN [acc[i] EXCEPT !.tracks = @ \cup e.tracks] ELSE acc[i]]
        ELSE Append(acc, e), entries, discoveries))

-----------------------------------------------------------------------------
(* The official turnover of a stock: its value, or why there is none *)
TurnoverContext(a, s, days) ==
    IF MissingDays(a, days) # {} THEN [source |-> "gap"]
    ELSE IF \/ Cardinality(days) < Short
            \/ ~(days \subseteq BarsOf(a, s, days))
            \/ \E e \in days : Amount[s][e] <= 0
    THEN [source |-> "estimate"]
    ELSE [source |-> "official", value |-> Total(Amount[s], days)]

\* An archive that knows no day is as good as none.
Turnover(a, d, s, horizon) ==
    IF KnownDays(a, d, horizon) = {} THEN [source |-> "estimate"]
    ELSE TurnoverContext(a, s, Window(a, d, Short, horizon))

-----------------------------------------------------------------------------
(* Institutional accumulation in proportion to volume *)
ScaledMatch(a, d, s, track, days) ==
    LET net == Net[ScaledActor[track]][s]
    IN  /\ days \subseteq BarsOf(a, s, days)
        /\ \A e \in days : Close[s][e] > 0 /\ Volume[s][e] > 0 /\ net[e] # None
        /\ ~Discontinuous(s, days)
        /\ Turnover(a, d, s, LongHorizon).source = "official"
        /\ Turnover(a, d, s, LongHorizon).value >= MinTurnover * Short
        /\ Close[s][d] >= MinPrice
        /\ Total(net, LastOf(days, Short)) > 0 /\ Total(net, days) > 0
        /\ 2 * Cardinality({e \in LastOf(days, Short) : net[e] > 0}) > Short

\* Shares bought per share traded; the second score is that of the whole window.
ScaledScore(s, track, days) == Fraction(Total(Net[ScaledActor[track]][s], days), Total(Volume[s], days))

-----------------------------------------------------------------------------
(* One exploration: the entries it discovers, and over which days each *)
Discovered(a, d, sessions) ==
    LET supported == Symbols \ Unsupported
        window == [s \in supported |-> StockWindow(a, sessions, s)]
        eligible == {s \in supported : Eligible(a, d, s, window[s])}
        scaled == LastOf(sessions, Trend)
        Matches(t) ==
            CASE t = "market_trend" -> {s \in eligible : TrendMatch(d, s, window[s])}
              [] t = "market_price_volume" -> {s \in eligible : PriceVolumeMatch(d, s, window[s])}
              [] OTHER -> IF Cardinality(scaled) < Trend \/ ~(scaled \subseteq a.reports) THEN {}
                          ELSE {s \in supported : ScaledMatch(a, d, s, t, scaled)}
        Score(t, s) ==
            CASE t = "market_trend" -> LongReturn(d, s, window[s])
              [] t = "market_price_volume" -> VolumeRatio(d, s, window[s])
              [] OTHER -> ScaledScore(s, t, LastOf(scaled, Short))
        Second(t, s) == IF t \in DOMAIN ScaledActor THEN ScaledScore(s, t, scaled) ELSE Unscored
        Found(tracks) ==
            FoldLeft(LAMBDA acc, t :
                AddRanked(acc, t, Ranked({Match(s, Score(t, s), Second(t, s)) : s \in Matches(t)}, TrackLimit)),
                <<>>, tracks)
        onMarket == Found(<<"market_trend", "market_price_volume">>)
        onFlow == Found(<<"foreign_scaled_accumulation", "trust_scaled_accumulation">>)
    IN  [entries |-> Merge(onMarket, onFlow),
         windows |-> {<<s, window[s]>> : s \in SymbolsOf(onMarket)} \cup {<<s, scaled>> : s \in SymbolsOf(onFlow)}]

\* What a run of that day may see of the archive.
Cut(a, d) == [bars |-> [m \in Markets |-> [e \in Days |-> IF e <= d THEN a.bars[m][e] ELSE "none"]],
              gaps |-> {g \in a.gaps : g[2] <= d}, reports |-> a.reports \cap 1..d]

-----------------------------------------------------------------------------
(* Technical triggers of a raw row, which may lack any of its fields *)
TriggerFields == [
    price_volume |-> {"close", "previous", "volume_ratio", "ma5", "ma20"},
    reversal |-> {"close", "previous", "low", "support", "kd_k", "kd_d", "rsi14", "macd_hist_pct"},
    support_retake |-> {"close", "previous", "support", "ma20", "volume_ratio"}]

\* The histogram in hundredths of a percent of the close, if no source gave it.
MacdHistPct(r) ==
    IF r.macd_hist_pct # None \/ r.macd_histogram = None \/ r.close = None THEN r.macd_hist_pct
    ELSE IF r.close <= 0 THEN None ELSE (r.macd_histogram * 10000) \div r.close
Field(r, f) == IF f = "macd_hist_pct" THEN MacdHistPct(r) ELSE r[f]

Points(condition, n) == IF condition THEN n ELSE 0

PriceVolumeScore(r) ==
    Points(r.close > r.previous, 20) + Points(r.volume_ratio >= 150, 35)
    + Points(r.volume_ratio \in 125..149, 22) + Points(r.close > r.ma20, 20) + Points(r.ma5 >= r.ma20, 15)

ReversalScore(r) ==
    Points(r.close > r.previous, 20) + Points(r.support # 0 /\ 100 * r.low <= 103 * r.support, 20)
    + Points(r.kd_k > r.kd_d /\ r.kd_k <= 45, 25) + Points(r.rsi14 \in 35..60, 15)
    + Points(MacdHistPct(r) >= -15, 15)

SupportRetakeScore(r) ==
    LET reclaimed == r.support # 0 /\ r.previous < r.support /\ r.support <= r.close
        held == r.support # 0 /\ r.close >= r.support /\ r.close > r.previous
        retaken == r.previous <= r.ma20 /\ r.ma20 < r.close
    IN  Points(reclaimed, 35) + Points(held /\ ~reclaimed, 18)
        + Points(retaken, 30) + Points(r.close >= r.ma20 /\ ~retaken, 12)
        + Points(r.volume_ratio \in 90..180, 15)

TriggerScore(r, track) ==
    IF \E f \in TriggerFields[track] : Field(r, f) = None THEN 0
    ELSE CASE track = "price_volume" -> PriceVolumeScore(r)
           [] track = "reversal" -> ReversalScore(r)
           [] track = "support_retake" -> SupportRetakeScore(r)
Triggers(r) == {t \in Range(Technical) : TriggerScore(r, t) >= 55}

\* Entries with the triggers of the rows there are, a function from stocks.
AddTriggers(entries, raw, limit) ==
    FoldLeft(LAMBDA acc, t :
        AddRanked(acc, t, Ranked({Match(s, Fraction(TriggerScore(raw[s], t), 1), Unscored) :
                                      s \in {x \in DOMAIN raw : t \in Triggers(raw[x])}}, limit)),
        entries, Technical)

RowsOf(d) == [s \in {x \in Symbols : rawRows[x] # None /\ rawRows[x].day = d} |-> rawRows[s].record]

-----------------------------------------------------------------------------
(* The universe *)
Select(leaders, raw) ==
    LET institutional == FoldLeft(LAMBDA acc, t : AddRanked(acc, t, leaders[t]), <<>>, Segmented)
    IN  Supported(AddTriggers(institutional, raw, TrackLimit))

\* Mutant: the seats go to the first entries.
AllocateFirst(entries, n) == SubSeq(entries, 1, Min({n, Len(entries)}))

\* The tracks take turns, each seating the first of its stocks not yet seated.
Allocate(entries, n) ==
    LET Turn(seated, t) ==
            LET waiting == SelectSeq(entries, LAMBDA e : t \in e.tracks /\ e.symbol \notin SymbolsOf(seated))
            IN  IF Len(seated) = n \/ waiting = <<>> THEN seated ELSE Append(seated, Head(waiting))
    IN  IF Len(entries) <= n THEN entries
        ELSE FoldLeft(Turn, <<>>, FlattenSeq([i \in 1..n |-> TrackPriority]))

\* Read back from the prepared run, an entry without tracks has its primary one.
ReadBack(e) == IF e.tracks = {} THEN [e EXCEPT !.tracks = {e.primary}] ELSE e

WithoutTriggers(e) ==
    LET kept == e.tracks \ Range(Technical)
    IN  [e EXCEPT !.tracks = kept, !.primary = IF kept = {} THEN @ ELSE First(kept)]

\* A track may hold every entry here.
RefreshTriggers(entries, raw) ==
    Supported(AddTriggers([i \in 1..Len(entries) |-> WithoutTriggers(ReadBack(entries[i]))], raw,
                          Max({1, Len(entries)})))

-----------------------------------------------------------------------------
(* Actions *)
NoGaps == [bars |-> [m \in Markets |-> [e \in Days |-> IF e <= Begun THEN "final" ELSE "none"]],
           gaps |-> {}, reports |-> 1..Begun]

Init ==
    /\ setting \in DOMAIN Settings
    /\ today = Begun /\ archive = NoGaps
    /\ explored = [d \in Asked |-> None]
    /\ prepared = None
    /\ rawRows = [s \in Symbols |-> None]
    /\ step = [kind |-> "start", day |-> Begun]

\* A day's files and reports as far as they were stored that day.
NextDay(k) ==
    /\ today < Settings[setting].last
    /\ today' = today + 1
    /\ archive' = [bars |-> [m \in Markets |-> [archive.bars[m] EXCEPT ![today'] = k.files[m]]],
                   gaps |-> archive.gaps \cup {<<s, today'>> : s \in k.without},
                   reports |-> archive.reports \cup (IF k.report THEN {today'} ELSE {})]
    /\ step' = [kind |-> "archive", day |-> today']
    /\ UNCHANGED <<setting, explored, prepared, rawRows>>

Session(a, e) == e \in a.reports \/ \E m \in Markets : a.bars[m][e] # "none"

\* The files of a known session, or the reports of a day no bar is known of,
\* are stored after all.
StoreLate(e) ==
    /\ e <= today
    /\ \/ /\ Session(archive, e) /\ \E m \in Markets : archive.bars[m][e] # "final"
          /\ archive' = [archive EXCEPT !.bars = [m \in Markets |-> [@[m] EXCEPT ![e] = "final"]]]
       \/ /\ e \notin archive.reports
          /\ archive' = [archive EXCEPT !.reports = @ \cup {e}]
    /\ step' = [kind |-> "archive", day |-> e]
    /\ UNCHANGED <<setting, today, explored, prepared, rawRows>>

\* prepare-universe: with the day's reports and every file of the window.
Prepare(d) ==
    LET sessions == Window(archive, d, Trend + Lag, LongHorizon)
    IN  /\ d <= today /\ d \in archive.reports
        /\ MissingDays(archive, sessions) = {}
        /\ \E found \in {Discovered(archive, d, sessions)}, leaders \in Leaders :
           \E merged \in {Merge(Select(leaders, RowsOf(d)), found.entries)}, n \in Caps :
              /\ Allocate(merged, n) # <<>>
              /\ explored' = [explored EXCEPT ![d] = found @@ [seen |-> Cut(archive, d)]]
              /\ prepared' = [day |-> d, offered |-> merged, seats |-> n, entries |-> Allocate(merged, n)]
        /\ step' = [kind |-> "prepare", day |-> d]
        /\ UNCHANGED <<setting, today, archive, rawRows>>

\* A row that needs no fetching: of the day itself, and complete.
Usable(row, d) ==
    /\ row # None /\ row.day = d /\ row.current
    /\ \A t \in Range(Technical) : \A f \in TriggerFields[t] : Field(row.record, f) # None

\* Mutant: the triggers are taken of whatever rows are stored.
UsableRowsStored(raw, entries, d) ==
    {s \in SymbolsOf(entries) : raw[s] # None /\ raw[s].day = d}

UsableRows(raw, entries, d) == {s \in SymbolsOf(entries) : Usable(raw[s], d)}

\* refresh-ohlcv, in its default mode, which archives no bars: rows of the stocks
\* that had none and whose data arrived, the turnover of those there are, and
\* their triggers in place of the earlier ones.
RefreshOhlcv(fetched) ==
    /\ prepared # None
    /\ LET d == prepared.day
           needed == SymbolsOf(prepared.entries) \ UsableRows(rawRows, prepared.entries, d)
           stored == [s \in Symbols |->
                        IF s \in needed \cap DOMAIN fetched
                        THEN fetched[s] @@ [day |-> d, turnover |-> None] ELSE rawRows[s]]
           usable == UsableRows(stored, prepared.entries, d)
       IN  /\ rawRows' = [s \in Symbols |->
                          IF s \in usable
                          THEN [stored[s] EXCEPT !.turnover = Turnover(archive, d, s, ShortHorizon)]
                          ELSE stored[s]]
           /\ prepared' = [prepared EXCEPT
                             !.entries = RefreshTriggers(@, [s \in usable |-> stored[s].record])]
    /\ step' = [kind |-> "refresh", day |-> prepared.day]
    /\ UNCHANGED <<setting, today, archive, explored>>

Next ==
    \/ \E k \in DayKinds : NextDay(k)
    \/ \E e \in LateDays : StoreLate(e)
    \/ \E d \in Asked : Prepare(d)
    \/ \E fetched \in Rows : RefreshOhlcv(fetched)

Spec == Init /\ [][Next]_vars

-----------------------------------------------------------------------------
(* Properties *)
Archives == [bars : [Markets -> [Days -> {"none", "early", "final"}]],
             gaps : SUBSET (Symbols \X Days), reports : SUBSET Days]
IsEntry(e) == /\ e.symbol \in Symbols \ Unsupported
              /\ e.tracks \subseteq Range(TrackPriority) /\ e.primary \in Range(TrackPriority)

\* The universe holds supported stocks, each once, in no more than its seats,
\* and only sessions of the past are archived.
TypeOK ==
    /\ setting \in DOMAIN Settings
    /\ archive \in Archives /\ archive.reports \subseteq 1..today
    /\ prepared # None =>
         /\ \A i \in 1..Len(prepared.entries) : IsEntry(prepared.entries[i])
         /\ Cardinality(SymbolsOf(prepared.entries)) = Len(prepared.entries)
         /\ Len(prepared.entries) \in 1..prepared.seats

\* market_archive_window: what was discovered was measured over an unbroken
\* window: no session known by then lies inside it that the stock has no bar of.
WindowsAreUnbroken ==
    \A d \in Asked : explored[d] # None =>
        \A w \in explored[d].windows : \A e \in Min(w[2])..d :
            Session(explored[d].seen, e) =>
                /\ e \in w[2]
                /\ Final(explored[d].seen, MarketOf[w[1]], e) /\ <<w[1], e>> \notin explored[d].seen.gaps

\* A past date explored again discovers the same, whatever was archived of
\* later days in between.
PointInTime ==
    [][LET d == step'.day
           again == step'.kind = "prepare" /\ explored[d] # None /\ explored'[d].seen = explored[d].seen
       IN  again => explored'[d].entries = explored[d].entries]_vars

\* What discovery takes for liquid, the turnover refresh-ohlcv attaches from
\* the same archive calls liquid: the two average over the same sessions.
DiscoveredAreLiquid ==
    \A d \in Asked : explored[d] # None =>
        \A s \in SymbolsOf(explored[d].entries) :
            \E t \in {Turnover(explored[d].seen, d, s, ShortHorizon)} :
                t.source = "official" /\ t.value >= MinTurnover * Short

\* attach_official_turnover: over a known session without a market's file no
\* turnover is averaged, and none may be estimated in its place.
GapsAreNotEstimated ==
    [][step'.kind = "refresh" =>
        LET d == step'.day
            known == {e \in (d - ShortHorizon)..d \cap Days : Session(archive, e)}
            gap == MissingDays(archive, LastOf(known \cup {d}, Short)) # {}
        IN  \A i \in 1..Len(prepared.entries) :
                LET row == rawRows'[prepared.entries[i].symbol]
                IN  Usable(row, d) /\ gap => row.turnover = [source |-> "gap"]]_vars

\* allocate_universe: a stock left without a seat has, in each of its tracks,
\* stocks before it in as many seats as that track had turns: one in every
\* round of the tracks that have stocks, from its place in the first round on.
AllocationIsFair ==
    prepared # None =>
        LET live == {t \in Range(TrackPriority) :
                        \E i \in 1..Len(prepared.offered) : t \in prepared.offered[i].tracks}
            seated == SymbolsOf(prepared.entries)
            Place(t) == Cardinality({u \in live : First({t, u}) = u})
            Turns(t) == IF prepared.seats < Place(t) THEN 0
                        ELSE (prepared.seats - Place(t)) \div Cardinality(live) + 1
        IN  \A i \in 1..Len(prepared.offered) : prepared.offered[i].symbol \notin seated =>
                \A t \in prepared.offered[i].tracks :
                    Cardinality({j \in 1..(i - 1) : /\ t \in prepared.offered[j].tracks
                                                   /\ prepared.offered[j].symbol \in seated}) >= Turns(t)

\* After refresh-ohlcv the triggers of an entry are those of its stock's row of
\* the day, whichever row an earlier prepare or refresh took them from; and its
\* seat and other tracks are those it had.
TriggersAreOfTheDay ==
    [][step'.kind = "refresh" =>
        /\ Len(prepared'.entries) = Len(prepared.entries)
        /\ \A i \in 1..Len(prepared.entries) :
              LET old == prepared.entries[i]
                  new == prepared'.entries[i]
                  row == rawRows'[new.symbol]
              IN  /\ new.symbol = old.symbol
                  /\ new.tracks \ Range(Technical) = old.tracks \ Range(Technical)
                  /\ \A t \in new.tracks \cap Range(Technical) :
                        /\ row # None /\ row.day = prepared.day /\ row.current
                        /\ t \in Triggers(row.record)]_vars

\* What is discovered was measured over unbroken windows and is liquid, and the
\* seats are shared out fairly.
DiscoveryIsSound == TypeOK /\ WindowsAreUnbroken /\ DiscoveredAreLiquid /\ AllocationIsFair

\* A universe is of its day: exploring it again finds the same, and its
\* triggers and turnover are those of the day's rows and sessions.
UniverseIsOfTheDay == PointInTime /\ TriggersAreOfTheDay /\ GapsAreNotEstimated
=============================================================================
