----------------------------- MODULE DailyAvwap ------------------------------
(***************************************************************************)
(* The daily anchored volume-weighted average prices (phase1_avwap/).      *)
(*                                                                         *)
(* The refresh-avwap step of a run date collects, symbol by symbol, an     *)
(* unadjusted price history that ends on that date: from the archive of    *)
(* official bars if it is whole, else month by month from the exchange,    *)
(* else, after the exchange has refused (HTTP 403) or for over-the-counter *)
(* symbols, from FinMind.  A history becomes a fresh snapshot, a failure   *)
(* a missing one; all of them and the step's status are committed at once. *)
(* Daily Radar reads the snapshot of its date, the analysis of a symbol    *)
(* the latest fresh one that is not too old.                               *)
(*                                                                         *)
(* Two refreshes of one date do not overlap here.                          *)
(***************************************************************************)
EXTENDS Integers, Sequences, FiniteSets, FiniteSetsExt, SequencesExt

CONSTANTS
    Stocks,         \* symbols a prepared run may select
    ExchangeOf,     \* [symbol -> "TW", "TWO" or another market]
    Listing,        \* [symbol -> [listed, evidenced]]: the listing day of the
                    \* evidence register and the day it is known from; 0, 0 without
    Dates,          \* 1..n, calendar days
    MonthOf(_),     \* the month of a day
    BarOf,          \* [symbol -> [day -> bar]]: the true bars of the days with a
                    \* trade.  bar: low, high, close, volume and thrice the amount
    FinMindAmount,  \* does FinMind give the traded amount, or is it estimated?
    MinBars,        \* trading_bars a history needs (60 in the code)
    SwingBars,      \* window of the low and the volume anchors (60)
    BreakoutBars,   \* window of the high anchor (20)
    Lookback,       \* calendar days of history (120)
    MaxAge,         \* age at which the analysis calls a snapshot stale (7)
    AvwapSettings   \* instances: selected symbols, archived bars, later ingests, run dates and
                    \* the days of the benchmark's calendar on file

BarsAreTrue ==
    \A s \in Stocks : \A d \in DOMAIN BarOf[s] : LET b == BarOf[s][d] IN
        /\ d \in Dates
        /\ {b.low, b.close, b.high, b.volume, b.amount} \subseteq Int
        /\ 0 < b.low /\ b.low <= b.close /\ b.close <= b.high /\ b.volume >= 0
        /\ 3 * b.low * b.volume <= b.amount /\ b.amount <= 3 * b.high * b.volume
AvwapBounds ==
    /\ {MinBars, SwingBars, BreakoutBars} \subseteq Nat \ {0} /\ {Lookback, MaxAge} \subseteq Nat
    /\ IsFiniteSet(Dates) /\ Dates = 1..Cardinality(Dates)
    /\ \A s \in Stocks : Listing[s].listed \in Nat

\* A prepared run selects a symbol once; only bars of trades are archived.
SettingsAreSound ==
    \A a \in AvwapSettings :
        /\ a.selected \in Seq(Stocks) /\ IsInjective(a.selected) /\ a.runs \subseteq Dates
        /\ \A s \in Stocks : a.archive[s] \subseteq DOMAIN BarOf[s]
        /\ \A bars \in a.ingests : \A b \in bars : b[2] \in DOMAIN BarOf[b[1]]

AvwapAssumption == BarsAreTrue /\ AvwapBounds /\ SettingsAreSound

VARIABLES
    instance,  \* the instance, fixed
    barArchive, \* TaiwanDailyBar: the days with a final official bar, per symbol
    pending,   \* the ingests still to come, as sets of <<symbol, day>>
    rows,      \* Phase1AvwapSnapshot per symbol and run date
    status,    \* the status of step refresh-avwap per run date
    refresh    \* the call that is running, NoCall when none is

avwapVars == <<instance, barArchive, pending, rows, status, refresh>>

Selected == Range(instance.selected)
NoCall == [date |-> 0]
Traded(s) == DOMAIN BarOf[s]
HistoryWindow(d) == {e \in Dates : d - Lookback <= e /\ e <= d}
LatestOf(n, days) == {d \in days : Cardinality({e \in days : e > d}) < n}
IsSupported(s) == ExchangeOf[s] \in {"TW", "TWO"}

\* Is the listing of s proven by evidence known on day d?
HasEvidence(s, d) == Listing[s].evidenced \in 1..d

\* A row of phase1_avwap_snapshots.  "days" are the days of its bars, "refused"
\* is the trace of a refusal.  Two fields are not stored by the code: "known",
\* the sessions of the market the archive held when the row was made, and
\* "blank", the months the exchange answered with nothing.
Row(freshness, source, reason, days, refused, known) ==
    [freshness |-> freshness, source |-> source, reason |-> reason,
     days |-> days, refused |-> refused, known |-> known, blank |-> {}]
NoSnapshot == Row("none", "", "", {}, FALSE, {})

-----------------------------------------------------------------------------
\* The anchored prices of a history.

\* Without a traded amount the volume at the typical price stands for it.
TripleAmount(s, source, d) ==
    LET b == BarOf[s][d]
    IN  IF source = "finmind" /\ ~FinMindAmount THEN (b.high + b.low + b.close) * b.volume
        ELSE b.amount

VolumeOf(s, days) == MapThenSumSet(LAMBDA d : BarOf[s][d].volume, days)
AmountOf(s, source, days) == MapThenSumSet(LAMBDA d : TripleAmount(s, source, d), days)

\* The lowest low, the earlier one of equals; the highest high and the
\* largest volume, the later ones.
LowestLow(s, days) ==
    CHOOSE d \in days : \A e \in days :
        \/ BarOf[s][d].low < BarOf[s][e].low
        \/ BarOf[s][d].low = BarOf[s][e].low /\ d <= e
HighestHigh(s, days) ==
    CHOOSE d \in days : \A e \in days :
        \/ BarOf[s][d].high > BarOf[s][e].high
        \/ BarOf[s][d].high = BarOf[s][e].high /\ d >= e
HighestVolume(s, days) ==
    CHOOSE d \in days : \A e \in days :
        \/ BarOf[s][d].volume > BarOf[s][e].volume
        \/ BarOf[s][d].volume = BarOf[s][e].volume /\ d >= e

\* The anchor days of a history.
Anchors(s, days) ==
    {LowestLow(s, LatestOf(SwingBars, days)), HighestHigh(s, LatestOf(BreakoutBars, days)),
     HighestVolume(s, LatestOf(SwingBars, days))}

\* Mutant: the average runs over the whole history.
SinceTheStart(a, days) == days

\* The bars an anchored average runs over.
Since(a, days) == {d \in days : d >= a}

\* Mutant: a history whose last bar is older than the run date is taken.
BuildsOldHistory(s, d, days) ==
    IF {e \in days : e <= d} = {} THEN "daily_price_history_unavailable" ELSE "ok"

\* build_phase1_avwap_payload: what a history of bars gives for date d.
Built(s, d, days) ==
    LET past == {e \in days : e <= d}
    IN  IF past = {} THEN "daily_price_history_unavailable"
        ELSE IF d \notin past THEN "daily_price_row_missing_for_data_date"
        ELSE IF \E a \in Anchors(s, past) : VolumeOf(s, Since(a, past)) = 0
             THEN "daily_price_history_unavailable"
        ELSE "ok"

-----------------------------------------------------------------------------
\* Where a history comes from.

\* A history: its source, or a failure's code, the days of its bars, the trace
\* of a refusal, and the months that came with nothing.
History(source, reason, days, refused) ==
    [source |-> source, reason |-> reason, days |-> days, refused |-> refused, blank |-> {}]

\* The archived days of a symbol's window, from its proven listing on.
Archived(s, d) ==
    {e \in barArchive[s] \cap HistoryWindow(d) : HasEvidence(s, d) => e >= Listing[s].listed}

\* Mutant: enough bars up to the date are enough, whatever is between them.
CountsBars(s, d, known) ==
    /\ Cardinality(Archived(s, d)) >= MinBars
    /\ d \in Archived(s, d)

\* Is the archive whole for symbol s up to d?  "known" are the sessions of
\* its market that the archive held when the call first asked.
ArchiveIsWhole(s, d, known) ==
    /\ Cardinality(Archived(s, d)) >= MinBars
    /\ d \in Archived(s, d)
    /\ LatestOf(MinBars, known) \subseteq Archived(s, d)

\* Mutant: a short history is explained by the listing alone.
ListedLately(s, d, known) ==
    /\ HasEvidence(s, d) /\ Listing[s].listed >= d - Lookback
    /\ Cardinality(Archived(s, d)) \in 1..(MinBars - 1)

\* Is the archive the complete history since a proven listing, and too short?
\* The benchmark's calendar, the archive's sessions and the symbol's own bars
\* must agree on every day since the listing.  Two further tests, that the bars
\* come from the symbol's own exchange and are valid, always pass here.
IsShortListing(s, d, known) ==
    /\ HasEvidence(s, d) /\ Listing[s].listed >= d - Lookback
    /\ Cardinality(Archived(s, d)) \in 1..(MinBars - 1)
    /\ LET calendar == instance.calendar \cap Listing[s].listed..d
       IN  /\ {Listing[s].listed, d} \subseteq calendar
           /\ calendar = Archived(s, d)
           /\ calendar = known \cap Listing[s].listed..d

\* The days asked of a remote source.
AskedDays(s, d) == {e \in HistoryWindow(d) : HasEvidence(s, d) => e >= Listing[s].listed}

\* How a remote source answers a request: with its rows, with those up to the
\* day before, with nothing (a status other than OK, or no list of rows, is an
\* empty month and not an error), refusing (403), with an invalid payload, or
\* not at all.
Answers == {"rows", "behind", "empty", "forbidden", "invalid", "failed"}

\* The bars of the window that an answer holds.
Given(s, d, behind) == Traded(s) \cap AskedDays(s, d) \cap (IF behind THEN 1..(d - 1) ELSE 1..d)

\* Mutant: the months that came are used without those that did not.
PartialMonths(s, d, answers) ==
    IF \E m \in DOMAIN answers : answers[m] = "rows"
    THEN History("twse", "", {e \in Given(s, d, FALSE) : answers[MonthOf(e)] = "rows"}, FALSE)
    ELSE History("twse", "forbidden", {}, FALSE)

\* _fetch_twse_history: one month that fails fails the history.  An invalid
\* answer outweighs a refusal, and a refusal other failures.  A month that came
\* with nothing is no failure: the others are the history.
Monthly(s, d, answers) ==
    LET got == Range(answers)
    IN  IF "invalid" \in got THEN History("twse", "twse_stock_day_parser_error", {}, FALSE)
        ELSE IF "forbidden" \in got THEN History("twse", "forbidden", {}, FALSE)
        ELSE IF "failed" \in got THEN History("twse", "twse_stock_day_request_failed", {}, FALSE)
        ELSE LET blank == {m \in DOMAIN answers : answers[m] = "empty"}
                 given == Given(s, d, answers[MonthOf(d)] = "behind")
             IN  [History("twse", "", {e \in given : MonthOf(e) \notin blank}, FALSE)
                    EXCEPT !.blank = blank]

\* What FinMind, whose refusal is a failure like another, may give.
FromFinMind(s, d, refused) ==
    {History("finmind", "", Given(s, d, behind), refused) : behind \in BOOLEAN}
        \cup {History("finmind", reason, {}, refused) : reason \in {"", "finmind_request_failed"}}

\* What the remote sources may come to give, and whether the exchange has
\* refused in this call: over-the-counter symbols, and after a refusal every
\* symbol, go to FinMind.
Remote(s, d, blocked) ==
    LET fallback(refused) == FromFinMind(s, d, ExchangeOf[s] = "TW") \X {refused}
        months == {MonthOf(e) : e \in HistoryWindow(d)}
    IN  IF ExchangeOf[s] = "TWO" \/ blocked THEN fallback(blocked)
        ELSE UNION {LET h == Monthly(s, d, answers)
                    IN  IF h.reason = "forbidden" THEN fallback(TRUE)
                        ELSE {<<h, "forbidden" \in Range(answers)>>}
                    : answers \in [months -> Answers]}

\* A remote history of a symbol with listing evidence must reach MinBars: a
\* short answer does not prove a short listing.
Checked(s, d, h) ==
    IF HasEvidence(s, d) /\ h.reason = "" /\ Cardinality(h.days) < MinBars
    THEN [h EXCEPT !.reason = "daily_price_history_incomplete", !.days = {}]
    ELSE h

\* Mutant: a refusal is forgotten with the next symbol.
ForgetsRefusal(s, d, known, blocked) ==
    IF ArchiveIsWhole(s, d, known)
    THEN {<<History("archive", "", Archived(s, d), FALSE), blocked>>}
    ELSE {<<Checked(s, d, r[1]), r[2]>> : r \in Remote(s, d, FALSE)}

\* The histories symbol s may come to have, the archive first, each with
\* whether the exchange has refused by then.
HistoriesOf(s, d, known, blocked) ==
    IF ArchiveIsWhole(s, d, known)
    THEN {<<History("archive", "", Archived(s, d), FALSE), blocked>>}
    ELSE IF IsShortListing(s, d, known)
    THEN {<<History("archive", "insufficient_listed_history", {}, FALSE), blocked>>}
    ELSE {<<Checked(s, d, r[1]), r[2]>> : r \in Remote(s, d, blocked)}

\* The row a history becomes.
RowOf(s, d, h, known) ==
    LET verdict == IF h.reason # "" THEN h.reason ELSE Built(s, d, h.days)
    IN  IF verdict = "ok"
        THEN [Row("fresh", h.source, "", h.days, h.refused, known) EXCEPT !.blank = h.blank]
        ELSE Row("missing", h.source, verdict, {}, h.refused, known)

-----------------------------------------------------------------------------
\* The archive's ingest, and the refresh.

Ingest(bars) ==
    /\ bars \in pending
    /\ pending' = pending \ {bars}
    /\ barArchive' = [s \in Stocks |-> barArchive[s] \cup {b[2] : b \in {x \in bars : x[1] = s}}]
    /\ UNCHANGED <<instance, rows, status, refresh>>

\* The sessions of a market the archive holds.
KnownSessions(m, d) ==
    UNION {barArchive[s] \cap HistoryWindow(d) : s \in {t \in Stocks : ExchangeOf[t] = m}}

\* A call reads the snapshots of its date and takes the selected symbols.
StartAvwap(d) ==
    /\ refresh = NoCall
    /\ refresh' = [date |-> d, left |-> instance.selected,
                fresh |-> {s \in Selected : rows[s][d].freshness = "fresh"},
                known |-> <<>>, blocked |-> FALSE, found |-> <<>>]
    /\ UNCHANGED <<instance, barArchive, pending, rows, status>>

\* Mutant: every symbol is fetched again.
FetchesAll(s) == ~IsSupported(s)

\* Only supported symbols are fetched, and those whose snapshot is fresh not again.
IsPassedOver(s) == ~IsSupported(s) \/ s \in refresh.fresh

PassOver ==
    /\ refresh # NoCall /\ refresh.left # <<>> /\ IsPassedOver(Head(refresh.left))
    /\ refresh' = [refresh EXCEPT !.left = Tail(@)]
    /\ UNCHANGED <<instance, barArchive, pending, rows, status>>

\* The next symbol's history.  The sessions of a market are read once a call.
FetchHistory ==
    /\ refresh # NoCall /\ refresh.left # <<>> /\ ~IsPassedOver(Head(refresh.left))
    /\ LET s == Head(refresh.left)
           m == ExchangeOf[s]
           known == IF m \in DOMAIN refresh.known THEN refresh.known[m]
                    ELSE KnownSessions(m, refresh.date)
       IN  \E r \in HistoriesOf(s, refresh.date, known, refresh.blocked) :
               refresh' = [refresh EXCEPT !.left = Tail(@), !.blocked = r[2],
                        !.known = [k \in DOMAIN @ \cup {m} |-> IF k = m THEN known ELSE @[k]],
                        !.found = Append(@, <<s, RowOf(s, refresh.date, r[1], known)>>)]
    /\ UNCHANGED <<instance, barArchive, pending, rows, status>>

\* Mutant: a step that has written an average is completed.
CompletedIfAny(found) ==
    IF found = <<>> \/ \E i \in DOMAIN found : found[i][2].freshness = "fresh"
    THEN "completed" ELSE "failed"

\* The step fails when a symbol is missing; a short listing does not count.
StatusOf(found) ==
    IF \E i \in DOMAIN found : /\ found[i][2].freshness = "missing"
                               /\ found[i][2].reason # "insufficient_listed_history"
    THEN "failed" ELSE "completed"

\* The snapshots and the step's status are committed together.
CommitAvwap ==
    /\ refresh # NoCall /\ refresh.left = <<>>
    /\ rows' = [s \in Selected |->
                  IF \E i \in DOMAIN refresh.found : refresh.found[i][1] = s
                  THEN LET i == CHOOSE i \in DOMAIN refresh.found : refresh.found[i][1] = s
                       IN  [rows[s] EXCEPT ![refresh.date] = refresh.found[i][2]]
                  ELSE rows[s]]
    /\ status' = [status EXCEPT ![refresh.date] = StatusOf(refresh.found)]
    /\ refresh' = NoCall
    /\ UNCHANGED <<instance, barArchive, pending>>

\* An error that is not a source's ends the call; nothing was committed.
AbortAvwap ==
    /\ refresh # NoCall
    /\ refresh' = NoCall
    /\ UNCHANGED <<instance, barArchive, pending, rows, status>>

AvwapInit ==
    /\ instance \in AvwapSettings
    /\ barArchive = instance.archive
    /\ pending = instance.ingests
    /\ rows = [s \in Selected |-> [d \in instance.runs |-> NoSnapshot]]
    /\ status = [d \in instance.runs |-> "none"]
    /\ refresh = NoCall

AvwapNext ==
    \/ \E bars \in pending : Ingest(bars)
    \/ \E d \in instance.runs : StartAvwap(d)
    \/ PassOver
    \/ FetchHistory
    \/ CommitAvwap
    \/ AbortAvwap

AvwapSpec == AvwapInit /\ [][AvwapNext]_avwapVars

-----------------------------------------------------------------------------
\* Reading.

\* Daily Radar shows the row of its own date, whatever it says.
RadarReads(s, d) == rows[s][d]

\* Mutant: a failed refresh hides the older fresh snapshot.
LatestOfAny(s, d) == {e \in instance.runs : e <= d /\ rows[s][e] # NoSnapshot}

\* The dates whose snapshot of a symbol may answer an analysis on date d.
FreshDates(s, d) == {e \in instance.runs : e <= d /\ rows[s][e].freshness = "fresh"}

\* Mutant: age is not looked at.
NeverTooOld(e, d) == FALSE
TooOld(e, d) == d - e > MaxAge

\* The analysis shows the latest fresh snapshot unless it is stale.
AnalysisReads(s, d) ==
    IF FreshDates(s, d) = {} THEN Row("missing", "", "phase1_snapshot_missing", {}, FALSE, {})
    ELSE LET e == Max(FreshDates(s, d))
         IN  IF TooOld(e, d) THEN Row("missing", "", "phase1_snapshot_stale", {}, FALSE, {})
             ELSE rows[s][e]

-----------------------------------------------------------------------------
\* Properties.

\* The variables have their types; the rows of a call that is running are of
\* the symbols it has passed, in their order.
AvwapTypeOK ==
    /\ \A s \in Stocks : barArchive[s] \subseteq Traded(s)
    /\ \A s \in Selected, d \in instance.runs :
           /\ rows[s][d].freshness \in {"none", "fresh", "missing"}
           /\ rows[s][d].freshness # "none" => IsSupported(s)
    /\ \A d \in instance.runs : status[d] \in {"none", "completed", "failed"}
    /\ refresh # NoCall =>
           Cardinality({refresh.found[i][1] : i \in DOMAIN refresh.found}) = Len(refresh.found)

FreshRows == {p \in Selected \X instance.runs : rows[p[1]][p[2]].freshness = "fresh"}

\* May a fresh row lack day e, on which the stock traded?  From the archive, if
\* e is older than its last MinBars bars or a day on which the archive knew no
\* trade of the market; from the exchange, if its month came with nothing.
IsExcused(row, e) ==
    \/ row.source = "archive" /\ (e < Min(LatestOf(MinBars, row.days)) \/ e \notin row.known)
    \/ row.source = "twse" /\ MonthOf(e) \in row.blank

\* A row holds days of its window on which the stock traded, its date among
\* them, and lacks none without excuse.
LacksNone(s, d, row) ==
    /\ d \in row.days /\ row.days \subseteq Traded(s) \cap HistoryWindow(d)
    /\ \A e \in (Traded(s) \cap AskedDays(s, d)) \ row.days : IsExcused(row, e)

\* Where the listing is proven, whatever is lacking leaves enough bars.
IsWhole(s, d, row) ==
    LacksNone(s, d, row) /\ (HasEvidence(s, d) => Cardinality(row.days) >= MinBars)

\* A fresh row ends on its date and has no hole but those its source gives no
\* sign of: a month that failed never leaves one, but a whole month that the
\* exchange answered with nothing does, and the averages are taken without it.
FreshIsWhole == \A p \in FreshRows : IsWhole(p[1], p[2], rows[p[1]][p[2]])

\* Something was traded since every anchor, at a price between those paid.
IsPaid(s, row) ==
    \A a \in Anchors(s, row.days) :
        LET since == Since(a, row.days)
            lows == {BarOf[s][e].low : e \in {x \in row.days : x >= a}}
            highs == {BarOf[s][e].high : e \in {x \in row.days : x >= a}}
        IN  /\ VolumeOf(s, since) > 0
            /\ 3 * Min(lows) * VolumeOf(s, since) <= AmountOf(s, row.source, since)
            /\ AmountOf(s, row.source, since) <= 3 * Max(highs) * VolumeOf(s, since)

\* The average from an anchor lies between the prices paid since that day, with
\* an estimated amount as well as with a true one.
AvwapIsPaid == \A p \in FreshRows : IsPaid(p[1], rows[p[1]][p[2]])

\* Of the sessions since the listing that the benchmark's calendar or its own
\* market shows, s has traded on fewer than MinBars, all of them archived.
IsShort(s, d, known) ==
    LET lived == Traded(s) \cap Listing[s].listed..d \cap (instance.calendar \cup known)
    IN  /\ HasEvidence(s, d) /\ Cardinality(lived) < MinBars
        /\ d \in lived /\ lived \subseteq barArchive[s]

\* No stock is excused for its short listing but those that are short.
ExcusedIsShort ==
    \A s \in Selected, d \in instance.runs :
        rows[s][d].reason = "insufficient_listed_history" => IsShort(s, d, rows[s][d].known)

\* A completed step has an average for every supported stock that has not been
\* excused; a failed one lacks one.
StatusTellsRows ==
    \A d \in instance.runs :
        LET lacking == {s \in Selected : /\ IsSupported(s) /\ rows[s][d].freshness # "fresh"
                                        /\ rows[s][d].reason # "insufficient_listed_history"}
        IN  /\ status[d] = "completed" => lacking = {}
            /\ status[d] = "failed" => lacking # {}

\* Once the exchange has refused, no stock of the same call is asked of it: what
\* is not from the archive bears the trace of the refusal.
RefusalIsRemembered ==
    refresh # NoCall =>
        \A i, j \in DOMAIN refresh.found :
            (/\ i < j /\ refresh.found[i][2].refused /\ ExchangeOf[refresh.found[j][1]] = "TW")
                => refresh.found[j][2].refused \/ refresh.found[j][2].source = "archive"

\* The analysis has averages exactly if a snapshot not older than MaxAge has; it
\* is at least as recent as what Daily Radar reads, and a failure hides nothing.
FailureHidesNothing ==
    \A s \in Selected, d \in instance.runs :
        LET recent == {e \in instance.runs \cap (d - MaxAge)..d : rows[s][e].freshness = "fresh"}
        IN  /\ (AnalysisReads(s, d).freshness = "fresh") = (recent # {})
            /\ RadarReads(s, d).freshness = "fresh" => AnalysisReads(s, d) = RadarReads(s, d)

AveragesAreSound ==
    /\ AvwapTypeOK /\ FreshIsWhole /\ AvwapIsPaid /\ ExcusedIsShort
    /\ StatusTellsRows /\ RefusalIsRemembered /\ FailureHidesNothing

\* A fresh snapshot is never replaced, neither by a later source nor by a
\* failure of a repeated refresh.
FreshStays ==
    [][\A s \in Selected : \A d \in instance.runs :
          rows[s][d].freshness = "fresh" => rows'[s][d] = rows[s][d]]_avwapVars

\* Every state's averages are sound, and a fresh snapshot stays.
AveragesAreRight == []AveragesAreSound /\ FreshStays
=============================================================================
