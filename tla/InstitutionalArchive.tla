------------------------ MODULE InstitutionalArchive ------------------------
(***************************************************************************)
(* The archive of Taiwan's institutional flow reports (daily_radar/        *)
(* institutional_flow_*.py) and what is ranked from it                     *)
(* (institutional_archive_universe.py, institutional_universe_replay.py).  *)
(*                                                                         *)
(* Every trading day each of two markets publishes one report. A refresh   *)
(* fetches both reports of a date in parallel and archives those that      *)
(* arrived in one transaction; a backfill does so date by date, for the    *)
(* dates whose archive is missing or damaged. Readers load a window of     *)
(* dates with two queries, the snapshots and then their rows, while        *)
(* refreshes commit.                                                       *)
(***************************************************************************)
EXTENDS Integers, Sequences, FiniteSets, FiniteSetsExt

CONSTANTS
    LastDate,    \* the dates are 1..LastDate
    Weekend,     \* the dates that are no weekdays
    Markets,     \* <<"TW", "TWO">>, in the order they are archived
    Symbols,     \* the stocks of each market, natural numbers
    Report,      \* the versions of the report of a date and market: a
                 \*   sequence of functions from stock to the actors' net shares
    Known,       \* how many versions are published at first
    Asked,       \* the dates of the backfill call
    RunDate,     \* the date of the refresh call and of the readers
    Span,        \* calendar days a reader's window reaches back
    MarketDays,  \* dates of the window that are ranked
    MinStreak,   \* days in a row an accumulation needs
    FullHistory, \* dates a replay needs before a human looks at it
    Settings     \* what a behaviour may be about: one of these records

Dates == 1..LastDate
MarketSet == {Markets[i] : i \in 1..Len(Markets)}

Jobs == {"refresh", "backfill"}

ASSUME SettingsAssumption ==
    \A s \in Settings : /\ s.closed \subseteq Dates \ Weekend /\ s.archived \subseteq Dates
                        /\ s.called \subseteq Jobs /\ s.reading \in BOOLEAN
                        /\ s.maxAttempts \in Nat /\ s.maxDamage \in Nat
ASSUME RunDateAssumption == RunDate \in Dates /\ Span \in Nat /\ LastDate \in Nat
ASSUME WindowAssumption ==
    /\ MarketDays \in Nat \ {0} /\ FullHistory \in Nat \ {0}
    /\ MinStreak \in Nat \ {0, 1} /\ FullHistory <= MarketDays
ASSUME AskedAssumption == Asked \in Seq(Dates)
\* Each market comes once; its stocks are numbered apart from the other's.
ASSUME MarketsAssumption ==
    /\ Markets \in Seq(MarketSet) /\ Markets # <<>> /\ Symbols \in [MarketSet -> SUBSET Nat]
    /\ \A i, k \in 1..Len(Markets) : Markets[i] = Markets[k] => i = k
    /\ \A m, n \in MarketSet : m # n => Symbols[m] \cap Symbols[n] = {}
IsReport(m, report) ==
    /\ DOMAIN report \subseteq Symbols[m]
    /\ report = [s \in DOMAIN report |-> report[s]]
    /\ \A s \in DOMAIN report : report[s] \in [foreign : Int, trust : Int]
\* A report lists stocks of its market; no market reports on a weekend, and
\* what is archived at first has been published.
ASSUME ReportAssumption ==
    /\ \A d \in Dates, m \in MarketSet :
         /\ Len(Report[d][m]) \in Nat /\ Known[d][m] \in 0..Len(Report[d][m])
         /\ \A v \in 1..Len(Report[d][m]) : IsReport(m, Report[d][m][v])
         /\ d \in Weekend => Report[d][m] = <<>>
         /\ \A s \in Settings : d \in s.archived => Known[d][m] # 0
    /\ Known = [d \in Dates |-> [m \in MarketSet |-> Known[d][m]]]

VARIABLES
    setting,   \* the calls that are made and the bounds; never changes
    published, \* versions each market has published of each date
    archive,   \* the committed snapshot of each date and market, with its rows
    locks,     \* which job's transaction wrote each snapshot, if one is open
    jobs,      \* the state of the refresh and of the backfill call
    reader,    \* a universe or replay request and what it has loaded
    served,    \* what that request answered
    damage     \* rows lost so far
vars == <<setting, published, archive, locks, jobs, reader, served, damage>>

Closed      == setting.closed       \* weekdays on which the market did not open
Called      == setting.called       \* the calls made
Reading     == setting.reading      \* whether readers come too
MaxAttempts == setting.maxAttempts  \* tries of one request
MaxDamage   == setting.maxDamage    \* rows lost from the archive (bound)

-----------------------------------------------------------------------------
(* Data *)
NoSnapshot == [hash |-> 0]
Free == "free"
Snapshot(d, m, v) == [hash |-> v, rows |-> Report[d][m][v]]

\* A snapshot is sound when its rows are those its hash was taken of: the row
\* count, the identities and the payload hash are compared.
Sound(d, m, hash, rows) == hash # 0 /\ rows = Report[d][m][hash]

\* The day the calendar expects after d; a holiday counts as a missing day.
NextWeekday(d) == Min({e \in (d + 1)..(LastDate + 7) : e \notin Weekend})

-----------------------------------------------------------------------------
(* Ranking a window: a function from its dates to nets per stock *)
LastOf(dates, n) == {d \in dates : Cardinality({e \in dates : e > d}) < n}
Contiguous(ds) == \A d \in ds : (\E e \in ds : e > d) => NextWeekday(d) \in ds
\* Mutant: a date that is missing between two archived dates goes unnoticed.
TrailingOverGaps(net, dates) ==
    LET ends == {k \in 0..Cardinality(dates) : \A d \in LastOf(dates, k) : net[d] > 0}
    IN  Max(ends)
\* The run of buying days that ends on the last date: every weekday of it has
\* an archived report with a positive net.
Trailing(net, dates) ==
    Max({k \in 0..Cardinality(dates) :
            /\ \A d \in LastOf(dates, k) : net[d] > 0
            /\ Contiguous(LastOf(dates, k))})
\* The longest run anywhere in the window.
Longest(net, dates) ==
    Max({Cardinality(ds) : ds \in
            {run \in SUBSET {d \in dates : net[d] > 0} : Contiguous(run)}})
SumOver(net, dates) == MapThenSumSet(LAMBDA d : net[d], dates)

Stocks == UNION {Symbols[m] : m \in MarketSet}
Net(window, s, d, actors) ==
    MapThenSumSet(LAMBDA a : window[d][s][a], actors)
\* A stock a report does not list traded nothing that day.
NetsOf(window, s, actors) ==
    [d \in DOMAIN window |-> IF s \in DOMAIN window[d] THEN Net(window, s, d, actors) ELSE 0]
Listed(window, dates) == UNION {DOMAIN window[d] : d \in dates}

\* A ranked list, as the place of each of its stocks.
Placed(stocks, Before(_, _)) ==
    [s \in stocks |-> 1 + Cardinality({t \in stocks : Before(t, s)})]

SameDay(window, d, actor) ==
    LET buyers == {s \in DOMAIN window[d] : window[d][s][actor] > 0} IN
    Placed(buyers, LAMBDA s, t :
        \/ window[d][s][actor] > window[d][t][actor]
        \/ window[d][s][actor] = window[d][t][actor] /\ s < t)

\* The run up to the last date or the longest one first, then the sum over the
\* window, then the symbol.
RankRuns(window, dates, actors, trailing, least) ==
    LET nets == [s \in Listed(window, dates) |-> NetsOf(window, s, actors)]
        days(s) == IF trailing THEN Trailing(nets[s], dates) ELSE Longest(nets[s], dates)
        kept == {s \in Listed(window, dates) : days(s) >= least /\ SumOver(nets[s], dates) > 0}
    IN  Placed(kept, LAMBDA s, t :
            \/ days(s) > days(t)
            \/ days(s) = days(t) /\ SumOver(nets[s], dates) > SumOver(nets[t], dates)
            \/ days(s) = days(t) /\ SumOver(nets[s], dates) = SumOver(nets[t], dates) /\ s < t)

Tracks(window) ==
    LET dates == LastOf(DOMAIN window, MarketDays) IN
    [same_day |-> [a \in {"foreign", "trust"} |-> SameDay(window, RunDate, a)],
     recent |-> [a \in {"foreign", "trust"} |->
        IF Cardinality(dates) < MinStreak THEN [s \in {} |-> 0]
        ELSE RankRuns(window, dates, {a}, TRUE, MinStreak)]]

\* The replay's baseline takes both actors together, and any run in the window.
Baseline(window) ==
    RankRuns(window, LastOf(DOMAIN window, MarketDays), {"foreign", "trust"}, FALSE, 1)

\* Mutant: the replay counts its dates and overlooks a gap between them.
BlockingByCount(dates) ==
    IF Cardinality(dates) < FullHistory THEN {"insufficient_complete_market_days"} ELSE {}
Blocking(dates) ==
    (IF Cardinality(dates) < FullHistory THEN {"insufficient_complete_market_days"} ELSE {})
    \cup (IF Contiguous(dates) THEN {} ELSE {"archive_weekday_gap"})

-----------------------------------------------------------------------------
(* The official source *)
\* A call that is not running; a running one has the date it works on, per
\* market the tries and the version fetched (0: none), the markets still to be
\* fetched or written, and a backfill the dates left, whether one has failed,
\* and whether the current one has a snapshot already.
NoJob == [phase |-> "idle", date |-> 1, tries |-> [m \in MarketSet |-> 0],
          got |-> [m \in MarketSet |-> 0], todo |-> {},
          left |-> <<>>, errors |-> FALSE, repair |-> FALSE]

Init ==
    /\ setting \in Settings
    /\ published = Known
    /\ archive = [d \in Dates |-> [m \in MarketSet |->
                    IF d \in setting.archived THEN Snapshot(d, m, 1) ELSE NoSnapshot]]
    /\ locks = [d \in Dates |-> [m \in MarketSet |-> Free]]
    /\ jobs = [j \in Jobs |-> NoJob]
    /\ reader = [phase |-> "idle"]
    /\ served = [kind |-> "none"]
    /\ damage = 0

\* A market publishes the report of a date, or a corrected one.
Publish(d, m) ==
    /\ published[d][m] < Len(Report[d][m])
    /\ published' = [published EXCEPT ![d][m] = @ + 1]
    /\ UNCHANGED <<setting, archive, locks, jobs, reader, served, damage>>

\* Rows of an archived report are lost.
Damage(d, m) ==
    /\ damage < MaxDamage
    /\ Sound(d, m, archive[d][m].hash, archive[d][m].rows)
    /\ locks[d][m] = Free /\ \A j \in Jobs : jobs[j].phase = "idle"
    /\ archive' = [archive EXCEPT ![d][m].rows = [s \in {} |-> 0]]
    /\ damage' = damage + 1
    /\ UNCHANGED <<setting, published, locks, jobs, reader, served>>

-----------------------------------------------------------------------------
(* The refresh of one date, by itself or inside a backfill *)
Become(j, state) == jobs' = [jobs EXCEPT ![j] = state]
\* The two requests for the reports of date d are sent.
Fetching(job, d) ==
    [job EXCEPT !.phase = "fetch", !.date = d, !.todo = MarketSet, !.repair = FALSE]

StartRefresh ==
    /\ jobs["refresh"].phase = "idle"
    /\ Become("refresh", Fetching(NoJob, RunDate))
    /\ UNCHANGED <<setting, published, archive, locks, reader, served, damage>>

\* What the site may answer for date d: its newest report, the report of the
\* date before it, or a report with fewer rows than it declares.
Answers(d, m) ==
    {p \in [date : {d, d - 1} \cap Dates, version : 1..2, whole : BOOLEAN] :
        p.version = published[p.date][m] /\ (p.whole \/ p.date = d)}
\* Mutant: the date a report carries is not compared with the date asked for.
AcceptsAnyDate(p, d) == p.whole
\* The report is of the date asked for, and has the columns and rows it declares.
Accepts(p, d) == p.whole /\ p.date = d

\* One try of one market's request, in its own thread: a report that is
\* accepted, an answer that is tried again (a refused payload included) until
\* the tries are used up, or a refusal that is not.
Fetch(j, m) ==
    /\ jobs[j].phase = "fetch" /\ m \in jobs[j].todo
    /\ LET d == jobs[j].date
           tries == jobs[j].tries[m] + 1
           Ended(v) == [jobs[j] EXCEPT !.got[m] = v, !.todo = @ \ {m}]
           Again == IF tries < MaxAttempts THEN [jobs[j] EXCEPT !.tries[m] = tries] ELSE Ended(0)
       IN  \/ \E p \in Answers(d, m) :
                Become(j, IF Accepts(p, d) THEN Ended(p.version) ELSE Again)
           \/ Become(j, Again)
           \/ Become(j, Ended(0))
    /\ UNCHANGED <<setting, published, archive, locks, reader, served, damage>>

\* Both requests have ended: the transaction writes the markets that answered.
BeginWrites(j) ==
    /\ jobs[j].phase = "fetch" /\ jobs[j].todo = {}
    /\ Become(j, [jobs[j] EXCEPT !.phase = "write", !.tries = NoJob.tries,
                                 !.todo = {m \in MarketSet : jobs[j].got[m] # 0}])
    /\ UNCHANGED <<setting, published, archive, locks, reader, served, damage>>

\* Snapshots are written in the order of the markets.
First(todo) == Markets[Min({i \in 1..Len(Markets) : Markets[i] \in todo})]

\* Mutant: the snapshots are written in the order the answers came in.
WriteAny(j) ==
    /\ jobs[j].phase = "write" /\ jobs[j].todo # {}
    /\ \E m \in jobs[j].todo :
         /\ locks[jobs[j].date][m] = Free
         /\ locks' = [locks EXCEPT ![jobs[j].date][m] = j]
         /\ Become(j, [jobs[j] EXCEPT !.todo = @ \ {m}])
    /\ UNCHANGED <<setting, published, archive, reader, served, damage>>
\* The upsert of a snapshot locks it until the commit; its rows are replaced
\* in the same transaction.
Write(j) ==
    /\ jobs[j].phase = "write" /\ jobs[j].todo # {}
    /\ LET d == jobs[j].date
           m == First(jobs[j].todo)
       IN  /\ locks[d][m] = Free
           /\ locks' = [locks EXCEPT ![d][m] = j]
           /\ Become(j, [jobs[j] EXCEPT !.todo = @ \ {m}])
    /\ UNCHANGED <<setting, published, archive, reader, served, damage>>

Written(j) ==
    [archive EXCEPT ![jobs[j].date] =
        [m \in MarketSet |-> IF jobs[j].got[m] # 0 THEN Snapshot(jobs[j].date, m, jobs[j].got[m])
                             ELSE @[m]]]
\* Mutant: the commit leaves the first snapshot locked.
ReleasedLate(j) ==
    [d \in Dates |-> [m \in MarketSet |->
        IF locks[d][m] = j /\ m # Head(Markets) THEN Free ELSE locks[d][m]]]
Released(j) == [d \in Dates |-> [m \in MarketSet |-> IF locks[d][m] = j THEN Free ELSE locks[d][m]]]

\* A date of a backfill is over; the call ends after the last one.
NextDate(left, errors) ==
    IF left = <<>> THEN [NoJob EXCEPT !.phase = "ended", !.errors = errors]
    ELSE [NoJob EXCEPT !.phase = "check", !.date = Head(left), !.left = Tail(left),
                       !.errors = errors]

Commit(j) ==
    /\ jobs[j].phase = "write" /\ jobs[j].todo = {}
    /\ archive' = Written(j)
    /\ locks' = Released(j)
    /\ LET missed == \E m \in MarketSet : jobs[j].got[m] = 0 IN
       Become(j, IF j = "refresh" THEN NoJob
                 ELSE NextDate(jobs[j].left, jobs[j].errors \/ missed))
    /\ UNCHANGED <<setting, published, reader, served, damage>>

\* The transaction fails before its commit.
Rollback(j) ==
    /\ jobs[j].phase = "write"
    /\ locks' = Released(j)
    /\ Become(j, IF j = "refresh" THEN NoJob ELSE NextDate(jobs[j].left, TRUE))
    /\ UNCHANGED <<setting, published, archive, reader, served, damage>>

-----------------------------------------------------------------------------
(* The backfill *)
StartBackfill ==
    /\ jobs["backfill"].phase = "idle"
    /\ Become("backfill", NextDate(Asked, FALSE))
    /\ UNCHANGED <<setting, published, archive, locks, reader, served, damage>>

\* Mutant: two completed snapshots are enough, whatever rows they have.
CheckExistence ==
    /\ jobs["backfill"].phase = "check"
    /\ LET b == jobs["backfill"]
           stored == {m \in MarketSet : archive[b.date][m] # NoSnapshot}
       IN  Become("backfill",
             IF b.date \in Weekend \/ stored = MarketSet THEN NextDate(b.left, b.errors)
             ELSE [b EXCEPT !.phase = "session", !.repair = stored # {}])
    /\ UNCHANGED <<setting, published, archive, locks, reader, served, damage>>
\* A weekend is skipped, a date whose archive is whole is reused.
CheckDate ==
    /\ jobs["backfill"].phase = "check"
    /\ LET b == jobs["backfill"]
           stored == {m \in MarketSet : archive[b.date][m] # NoSnapshot}
           whole == /\ stored = MarketSet
                    /\ \A m \in MarketSet : Sound(b.date, m, archive[b.date][m].hash, archive[b.date][m].rows)
       IN  Become("backfill",
             IF b.date \in Weekend \/ whole THEN NextDate(b.left, b.errors)
             ELSE [b EXCEPT !.phase = "session", !.repair = stored # {}])
    /\ UNCHANGED <<setting, published, archive, locks, reader, served, damage>>

\* The exchange is asked whether it opened; the request may fail. A closed
\* date that has a snapshot is a conflict nobody repairs.
ResolveSession ==
    /\ jobs["backfill"].phase = "session"
    /\ LET b == jobs["backfill"] IN
       \/ Become("backfill",
            IF b.date \in Closed THEN NextDate(b.left, b.errors \/ b.repair)
            ELSE Fetching(b, b.date))
       \/ Become("backfill", NextDate(b.left, TRUE))
    /\ UNCHANGED <<setting, published, archive, locks, reader, served, damage>>

\* The caller has read the answer.
EndBackfill ==
    /\ jobs["backfill"].phase = "ended"
    /\ Become("backfill", NoJob)
    /\ UNCHANGED <<setting, published, archive, locks, reader, served, damage>>

-----------------------------------------------------------------------------
(* The readers *)
\* The first query: the dates of the window on which both markets are stored.
ReadSnapshots ==
    /\ Reading /\ reader.phase = "idle"
    /\ LET dates == {d \in Max({1, RunDate - Span})..RunDate :
                        \A m \in MarketSet : archive[d][m] # NoSnapshot}
       IN  reader' = [phase |-> "rows", hashes |->
                        [d \in dates |-> [m \in MarketSet |-> archive[d][m].hash]]]
    /\ served' = [kind |-> "none"]
    /\ UNCHANGED <<setting, published, archive, locks, jobs, damage>>

\* Mutant: the rows are served whatever report they belong to.
ReadAnyRows ==
    /\ reader.phase = "rows"
    /\ LET dates == DOMAIN reader.hashes
           window == [d \in dates |-> [s \in UNION {DOMAIN archive[d][m].rows : m \in MarketSet} |->
                        archive[d][CHOOSE m \in MarketSet : s \in DOMAIN archive[d][m].rows].rows[s]]]
       IN  served' = IF RunDate \notin dates THEN [kind |-> "unavailable"]
                     ELSE [kind |-> "tracks", window |-> window, tracks |-> Tracks(window),
                           baseline |-> Baseline(window),
                           blocking |-> Blocking(LastOf(dates, MarketDays))]
    /\ reader' = [phase |-> "idle"]
    /\ UNCHANGED <<setting, published, archive, locks, jobs, damage>>
\* The second query: every snapshot must be sound with the rows found now.
ReadRows ==
    /\ reader.phase = "rows"
    /\ LET dates == DOMAIN reader.hashes
           intact == \A d \in dates, m \in MarketSet :
                        Sound(d, m, reader.hashes[d][m], archive[d][m].rows)
           window == [d \in dates |-> [s \in UNION {DOMAIN archive[d][m].rows : m \in MarketSet} |->
                        archive[d][CHOOSE m \in MarketSet : s \in DOMAIN archive[d][m].rows].rows[s]]]
       IN  served' = CASE ~intact -> [kind |-> "invalid"]
                       [] intact /\ RunDate \notin dates -> [kind |-> "unavailable"]
                       [] OTHER -> [kind |-> "tracks", window |-> window, tracks |-> Tracks(window),
                                    baseline |-> Baseline(window),
                                    blocking |-> Blocking(LastOf(dates, MarketDays))]
    /\ reader' = [phase |-> "idle"]
    /\ UNCHANGED <<setting, published, archive, locks, jobs, damage>>

-----------------------------------------------------------------------------
Step(j) == (\E m \in MarketSet : Fetch(j, m)) \/ BeginWrites(j) \/ Write(j) \/ Commit(j)
Backfill == StartBackfill \/ CheckDate \/ ResolveSession \/ EndBackfill
Next ==
    \/ \E d \in Dates, m \in MarketSet : Publish(d, m) \/ Damage(d, m)
    \/ "refresh" \in Called /\ StartRefresh
    \/ "backfill" \in Called /\ Backfill
    \/ \E j \in Jobs : Step(j) \/ Rollback(j)
    \/ ReadSnapshots \/ ReadRows
Spec == Init /\ [][Next]_vars

\* A call that has started is run by its worker until it answers; no failure
\* is assumed to come to its help. A row lock goes to who waits for it.
Fairness ==
    /\ \A j \in Jobs : WF_vars(Step(j)) /\ SF_vars(Write(j))
    /\ WF_vars(CheckDate \/ ResolveSession \/ EndBackfill)
FairSpec == Spec /\ Fairness

-----------------------------------------------------------------------------
(* Properties *)
Phases == {"idle", "fetch", "write", "check", "session", "ended"}
\* A lock belongs to a job that is writing that date, and an archived version
\* has been published.
TypeOK ==
    /\ \A j \in Jobs : jobs[j].phase \in Phases
    /\ \A d \in Dates, m \in MarketSet :
         /\ archive[d][m].hash \in 0..published[d][m]
         /\ locks[d][m] \in Jobs \cup {Free}
         /\ locks[d][m] # Free => /\ jobs[locks[d][m]].phase = "write"
                                  /\ jobs[locks[d][m]].date = d

\* What a reader ranks of a date and market is one published report, whole:
\* a correction that commits between the reader's two queries, or lost rows,
\* make it refuse the window instead of mixing two reports.
ServedIsOneReport ==
    served.kind = "tracks" =>
        \A d \in DOMAIN served.window, m \in MarketSet :
            \E v \in 1..published[d][m] :
                [s \in Symbols[m] \cap DOMAIN served.window[d] |-> served.window[d][s]] = Report[d][m][v]

\* A stock ranked for accumulation was bought on each of the last MinStreak
\* weekdays before the run: a date the archive lacks breaks the run.
AccumulationIsUnbroken ==
    served.kind = "tracks" =>
        \A a \in {"foreign", "trust"} : \A s \in DOMAIN served.tracks.recent[a] :
            LET weekdays == LastOf(1..RunDate \ Weekend, MinStreak) IN
            /\ weekdays \subseteq DOMAIN served.window
            /\ \A d \in weekdays : /\ s \in DOMAIN served.window[d]
                                   /\ served.window[d][s][a] > 0

\* A replay calls its history ready for review only when the last FullHistory
\* weekdays up to the run date were all archived.
ReadyIsWholeHistory ==
    served.kind = "tracks" /\ served.blocking = {} =>
        LastOf(1..RunDate \ Weekend, FullHistory) \subseteq DOMAIN served.window

Completed == /\ jobs["backfill"].phase # "ended"
             /\ jobs'["backfill"].phase = "ended" /\ ~jobs'["backfill"].errors
\* A backfill that reports no error leaves every open weekday of its range
\* with both markets, each with the rows of one report.
BackfillIsWhole ==
    [][Completed =>
        \A i \in 1..Len(Asked), m \in MarketSet :
            Asked[i] \notin Weekend \cup Closed =>
                Sound(Asked[i], m, archive'[Asked[i]][m].hash, archive'[Asked[i]][m].rows)]_vars

\* Two calls that archive the same date wait for each other's locks, never
\* both: each call ends.
EveryCallEnds == \A j \in Jobs : jobs[j].phase # "idle" ~> jobs[j].phase = "idle"

\* What readers make of the archive rests on whole reports of unbroken dates.
ReadersSeeWholeReports == TypeOK /\ ServedIsOneReport /\ AccumulationIsUnbroken /\ ReadyIsWholeHistory

\* Every call ends, and a backfill that ends without an error left no hole.
ArchivingEnds == BackfillIsWhole /\ EveryCallEnds
=============================================================================
