------------------------- MODULE ResearchValidation -------------------------
(***************************************************************************)
(* Next-open research validation of daily-radar candidates: what became of *)
(* a candidate bought at the open of the session after its signal, by      *)
(* unadjusted prices.  One call fetches the provider's prices, repairs     *)
(* their gaps from official sources, marks every day on which the two      *)
(* disagree, evaluates, looks for an official explanation of what it may   *)
(* not validate (a cash rights issue, a stock distribution, a trading halt *)
(* for a capital reduction), and upserts under row locks; the router       *)
(* commits.  Day 0 is the signal day of every candidate.                   *)
(***************************************************************************)
EXTENDS Integers, FiniteSets, FiniteSetsExt, SequencesExt

CONSTANTS Stocks,          \* candidates, by id
          Threads,         \* threads serving requests
          ResearchSettings \* what a behaviour may be about: one of these records

VARIABLES world,     \* the market, the sources and the requests; never changes
          now,       \* the calendar day
          canonical, \* candidates of the canonical run of their date
          verdicts,  \* the v2 result row by candidate and window
          recency,   \* windows with a row, v1 hints too, by updated_at
          request    \* the request each thread serves

Sessions  == world.sessions   \* the market's sessions
LastDate  == world.lastDate   \* bound: the last calendar day
Horizons  == world.horizons   \* window lengths, in sessions
Lookback  == world.lookback   \* default_due_start_date: days before as_of_date
ResumeMax == world.resumeMax  \* RESEARCH_RESUME_BATCH_SIZE
Hints     == world.hints      \* windows with a retryable v1 row and no v2 row at first
Event(c)  == world.event[c]   \* what happens to the candidate's shares ...
EventDay  == world.eventDay   \* ... and when
HaltDay   == world.haltDay    \* the first day without trading before a reduction
Listed    == world.listed     \* candidates on TWSE; the others are on TPEx
OutOfDate == world.outOfDate  \* candidates whose own price is older than the signal
Archived  == world.archived   \* days taiwan_daily_bars gets final rows of
Gaps      == world.gaps       \* sessions the provider has no row of for a stock
IndexGaps == world.indexGaps  \* ... and for the index
Prepared  == world.prepared   \* days in the benchmark histories of prepared runs
Outages   == world.outages    \* sets of sources that may fail a call together
Budgets   == world.budgets    \* asks of official sources a call may have the budget for
Requests  == world.requests   \* modes of the requests made
AsOfLag   == world.asOfLag    \* a request may ask for this many days ago
Reruns    == world.reruns     \* a newer run of the date may replace the candidates'
Due       == world.due        \* threads the scheduled workflow calls
Active    == world.active     \* threads that are called at all

\* "blank": a TPEx report that failed for one stock holds nothing for the next.
Budgeted == {"prices", "actions", "notices", "blank"}
Sources == {"yahoo", "yahooIndex", "index"} \cup Budgeted
Windowed == Stocks \X Horizons
researchVars == <<world, now, canonical, verdicts, recency, request>>

\* The code's lookback is ten times the longest window.  A session that the
\* provider's index lacks is one of a prepared run's history: what neither shows
\* is no session to the code.
ResearchBounds ==
    \A s \in ResearchSettings :
        /\ s.lookback \in Nat /\ s.lastDate \in Nat /\ s.horizons \subseteq Nat \ {0}
        /\ \A w \in s.horizons : s.lookback >= 2 * w
        /\ s.resumeMax >= 1 /\ s.haltDay < s.eventDay
        /\ s.sessions \subseteq Nat /\ s.prepared \subseteq Nat /\ 0 \in s.sessions
        /\ s.sessions \cap s.indexGaps \subseteq s.prepared
        /\ s.outages \subseteq SUBSET Sources /\ s.active \subseteq Threads
        /\ s.budgets \subseteq Nat /\ s.budgets # {} /\ IsFiniteSet(s.budgets)

-----------------------------------------------------------------------------
(* Data *)

CONFLICT_REASON == "conflicting_price_records"
TERMINAL_REASONS == {"stock_distribution_in_window", "cash_reduction_halt_in_window"}
\* Mutant: a conflict that nothing explains is final too.
ResearchTerminalConflicts == {"stale_candidate_price", "stock_split_in_window", CONFLICT_REASON}
                             \cup TERMINAL_REASONS
RESEARCH_TERMINAL_REASONS == {"stale_candidate_price", "stock_split_in_window"} \cup TERMINAL_REASONS

\* A result row: target is the last session, or the expected one of a skip, 0 if
\* there is none; raw tells whether every price of the payload is the one that
\* was traded at; proof is the official evidence the payload carries.
ResultRow(status, reason, target, asof, raw, proof) ==
    [status |-> status, reason |-> reason, target |-> target, asof |-> asof,
     raw |-> raw, proof |-> proof]
None == ResultRow("none", "none", 0, 0, TRUE, "none")
Skipped(reason, target, asof) == ResultRow("skipped", reason, target, asof, TRUE, "none")

Proven(r) == r.proof # "none"
Closed(r) == \/ r.status = "validated"
             \/ r.status = "skipped" /\ r.reason \in RESEARCH_TERMINAL_REASONS

\* Symbols are taken in their order, and a candidate's windows in theirs.
TakenBefore(p, q) == p[1] < q[1] \/ (p[1] = q[1] /\ p[2] < q[2])

\* A request; whole tells whether no source has failed it and it had its budget.
Resting == [phase |-> "idle", mode |-> "due", asof |-> 0, pending |-> {},
            found |-> [p \in {} |-> None], whole |-> FALSE]

After(days, asof) == {d \in days : 0 < d /\ d <= asof}
FirstOf(days, n) == {d \in days : Cardinality({e \in days : e <= d}) <= n}
Span(days) == Min(days) .. Max(days)

-----------------------------------------------------------------------------
(* The sources *)

Halted(c, d) == Event(c) = "halt" /\ HaltDay <= d /\ d < EventDay
TradedDays(c, asof) == {d \in Sessions : d <= asof /\ ~Halted(c, d)}

\* External: from the day of an event on, the provider's rows of earlier days are
\* adjusted; a mistaken row is wrong from the beginning.
Kind(c, d) ==
    IF Event(c) = "mistake" /\ d = EventDay THEN "wrong"
    ELSE IF Event(c) \in {"rights", "distribution", "halt"} /\ d < EventDay /\ EventDay <= now
         THEN "adjusted" ELSE "raw"
Split(c, d) == Event(c) = "distribution" /\ d = EventDay

\* YFinanceResearchPriceProvider: the rows of a stock up to a day, and the days
\* it has of the index.
ProviderRows(c, asof, down) ==
    [d \in IF "yahoo" \in down THEN {} ELSE TradedDays(c, asof) \ Gaps |->
        [kind |-> Kind(c, d), split |-> Split(c, d), conflict |-> FALSE]]
ProviderIndex(asof, down) ==
    IF "yahooIndex" \in down THEN {} ELSE {d \in Sessions \ IndexGaps : d <= asof}

-----------------------------------------------------------------------------
(* RecoveringResearchPriceProvider.repair *)

\* The official days to compare with and to fill from: the archive's, and, when
\* it lacks a missing day, the month's report; TPEx is asked day by day.
ArchivedDays(c, required) == Archived \cap TradedDays(c, Max(required)) \cap Span(required)
ReportedDays(c, required, unresolved) ==
    TradedDays(c, Max(required)) \cap (IF c \in Listed THEN Span(required) ELSE unresolved)

\* _mark_conflicts: an archived conflict is marked first, and ends the repair.
\* Mutant: the days the provider already has are not compared.
MarkedDaysNone(prices, archived, official) == {}
MarkedDays(prices, archived, official) ==
    LET differing(days) == {d \in days \cap DOMAIN prices : prices[d].kind # "raw"}
    IN IF differing(archived) # {} THEN differing(archived) ELSE differing(official)

\* A missing day is filled only from an official price and with the events of
\* the day proven.
Repair(c, prices, required, down) ==
    IF required = {} THEN prices ELSE
    LET missing    == required \ DOMAIN prices
        archived   == ArchivedDays(c, required)
        unresolved == missing \ archived
        refused    == unresolved # {} /\ "prices" \in down
        blank      == c \notin Listed /\ "blank" \in down
        official   == archived \cup (IF unresolved = {} \/ refused \/ blank THEN {}
                                     ELSE ReportedDays(c, required, unresolved))
        marked     == MarkedDays(prices, archived, official)
        recovered  == IF marked # {} \/ refused \/ "actions" \in down THEN {}
                      ELSE missing \cap official
    IN [d \in DOMAIN prices \cup recovered |->
          IF d \in recovered THEN [kind |-> "raw", split |-> Split(c, d), conflict |-> FALSE]
          ELSE [prices[d] EXCEPT !.conflict = d \in marked]]

\* The days the call knows of the index: the provider's, and, when one that a
\* prepared run shows or an end of the range is missing, the official ones.
PreparedDays(asof) == {d \in Prepared : d <= asof}
Benchmark(asof, down) ==
    LET own == ProviderIndex(asof, down) IN
    IF PreparedDays(asof) \cup {0, asof} \subseteq own \/ "index" \in down THEN own
    ELSE own \cup {d \in Sessions : d <= asof}

\* Both sources can prove a session.
\* Mutant: where prepared runs have a history, it is the calendar.
TradingCalendarPrepared(asof, down) == After(PreparedDays(asof), asof)
TradingCalendar(asof, down) == After(PreparedDays(asof) \cup Benchmark(asof, down), asof)

\* What a call knows: its request, the sources it has lost, how much it may ask
\* (the index is asked first, and outside of this budget), the index and the calendar.
Call(mode, asof, down, budget) ==
    [mode |-> mode, asof |-> asof, down |-> down, budget |-> budget,
     benchmark |-> Benchmark(asof, down), calendar |-> TradingCalendar(asof, down)]

\* _request: what ask n of a call, counted from 0, can reach.  A repair or a
\* proof, of one or several requests, is an ask; what asks share is counted by each.
Within(call, n) == [call EXCEPT !.down = IF n < call.budget THEN @ ELSE @ \cup Budgeted]

-----------------------------------------------------------------------------
(* evaluate_research_window *)

EvaluateResearchWindow(c, w, prices, call) ==
    LET asof      == call.asof
        calendar  == call.calendar
        benchmark == call.benchmark
        days      == FirstOf(calendar, w)
        priced    == days \cap DOMAIN prices
    IN IF Cardinality(calendar) < w
            THEN IF 0 \notin benchmark \/ asof >= 2 * w
                 THEN Skipped("missing_benchmark", 0, asof)
                 ELSE ResultRow("pending", "none", 0, 0, TRUE, "none")
       ELSE IF \E d \in priced : prices[d].conflict THEN Skipped(CONFLICT_REASON, Max(days), asof)
       ELSE IF 0 \notin benchmark THEN Skipped("missing_benchmark", 0, asof)
       ELSE IF ~(days \subseteq benchmark) THEN Skipped("missing_benchmark", Max(days), asof)
       ELSE IF priced # days THEN Skipped("missing_future_price", Max(days), asof)
       ELSE IF \E d \in days : prices[d].split THEN Skipped("stock_split_in_window", 0, asof)
       ELSE ResultRow("validated", "none", Max(days), asof,
                    \A d \in days : prices[d].kind = "raw", "none")

Marked(prices, days) == {d \in days \cap DOMAIN prices : prices[d].conflict}
Adjusted(own, days) == {d \in days : own[d].kind # "raw"}

-----------------------------------------------------------------------------
(* The official explanations *)

\* rights.recover_window: the one event of the window is a cash rights issue, the
\* official prices cover exactly the sessions, and every price of the provider is
\* the official one or, before the event, the adjusted one.
RightsProven(c, days, own, marked, down) ==
    /\ c \in Listed /\ Event(c) = "rights" /\ EventDay \in days
    /\ down \cap {"notices", "prices", "index"} = {}
    /\ {0} \cup days = {d \in Sessions : d <= Max(days)}
    /\ days \subseteq DOMAIN own
    /\ Adjusted(own, days) # {} /\ marked \subseteq Adjusted(own, days)
    /\ \A d \in Adjusted(own, days) : own[d].kind = "adjusted" /\ d < EventDay

\* _recover_rights_window
RecoverRights(c, w, own, prices, call) ==
    LET days   == FirstOf(call.calendar, w)
        marked == Marked(prices, days)
    IN IF /\ Cardinality(days) = w
          /\ IF call.mode = "scoped" THEN Max(days) = call.asof ELSE marked # {}
          /\ RightsProven(c, days, own, marked, call.down)
       THEN ResultRow("validated", "none", Max(days), call.asof, TRUE, "rights") ELSE None

\* corporate_actions.prove_window, by the official calendar: the one event is a
\* stock distribution or a capital reduction, and explains every discrepancy and
\* every missing session.
ActionProven(c, days, own, prices, call) ==
    LET active == {d \in {0} \cup days : ~Halted(c, d)} IN
    /\ Event(c) \in {"distribution", "halt"} /\ EventDay \in days
    /\ Event(c) = "halt" => HaltDay \in days
    /\ call.down \cap {"notices", "prices", "index"} = {}
    /\ {d \in call.benchmark : d <= Max(days)} = {0} \cup days
    /\ active \subseteq DOMAIN own
    /\ Event(c) = "distribution" => own[EventDay].split
    /\ \A d \in Adjusted(own, active) : own[d].kind = "adjusted" /\ d < EventDay
    /\ Adjusted(own, active \ {0}) # {} \/ active # {0} \cup days
    /\ Marked(prices, days) \subseteq Adjusted(own, active \ {0})

\* _classify_corporate_action
\* Mutant: any proven event ends the window, wherever it falls.
ClassifyActionAnywhere(c, w, own, prices, call) ==
    LET days == FirstOf(After(Sessions, call.asof), w) IN
    IF Event(c) \in {"distribution", "halt"}
    THEN ResultRow("skipped", "stock_distribution_in_window", Max(days), call.asof, TRUE, "action")
    ELSE None
ClassifyAction(c, w, own, prices, call) ==
    LET days == FirstOf(After(Sessions, call.asof), w) IN
    IF /\ DOMAIN own # {} /\ Cardinality(days) = w
       /\ ActionProven(c, days, own, prices, call)
    THEN ResultRow("skipped", IF Event(c) = "halt" THEN "cash_reduction_halt_in_window"
                            ELSE "stock_distribution_in_window", Max(days), call.asof, TRUE, "action")
    ELSE None

-----------------------------------------------------------------------------
(* run_research_validation *)

\* _retryable_windows_query; a v1 hint is retired by a v2 row of its window.
Retryable(p, asof) ==
    LET r == verdicts[p[1]][p[2]] IN
    /\ p[1] \in canonical
    /\ \/ r.status = "skipped" /\ r.reason \notin RESEARCH_TERMINAL_REASONS /\ r.asof <= asof
       \/ p \in Hints /\ (r = None \/ (IF r.status = "validated" THEN r.target ELSE r.asof) > asof)

\* The conflicts a scoped recovery takes over: those that ended on its day.
Reviewed(p, asof) ==
    LET r == verdicts[p[1]][p[2]] IN
    /\ p[1] \in canonical
    /\ r.status = "skipped" /\ r.reason = CONFLICT_REASON /\ r.asof >= asof /\ r.target = asof

\* The oldest retryable windows, so that none is lost as the start date moves.
Resumed(asof) ==
    LET waiting == SelectSeq(recency, LAMBDA p : Retryable(p, asof))
    IN {p \in Windowed : \E i \in 1 .. ResumeMax : i <= Len(waiting) /\ waiting[i] = p}

\* exclude_persisted_daily_radar_windows
Open(p) == ~Closed(verdicts[p[1]][p[2]])

\* Mutant: a candidate is followed as long as the default dates hold it.
ToEvaluateRecent(mode, asof) ==
    {p \in Windowed : p[1] \in canonical /\ asof - Lookback <= 0 /\ Open(p)}
ToEvaluate(mode, asof) ==
    LET recent == {p \in Windowed : p[1] \in canonical /\ asof - Lookback <= 0} IN
    CASE mode = "range"  -> {p \in Windowed : p[1] \in canonical}
      [] mode = "scoped" -> {p \in Windowed : Reviewed(p, asof) /\ p[1] \in Listed /\ Open(p)}
      [] OTHER -> {p \in (IF asof - Lookback <= 0 THEN recent ELSE Resumed(asof)) : Open(p)}

\* The windows whose prices are fetched, and the days their repair asks for.
Mature(p, call) == Cardinality(call.calendar) >= p[2] \/ call.asof >= 2 * p[2]
RequiredDays(c, pending, call) ==
    LET mature == {p \in pending : p[1] = c /\ Mature(p, call)}
    IN IF mature = {} THEN {} ELSE FirstOf(call.calendar, Max({p[2] : p \in mature}))

\* Does a candidate's repair ask the official sources?
AsksRepair(c, own, required) ==
    /\ required # {} /\ ~(required \subseteq DOMAIN own)
    /\ MarkedDays(own, ArchivedDays(c, required), {}) = {}

\* The windows that are judged by prices.
Fresh(pending, call) == {p \in pending : p[1] \notin OutOfDate /\ Mature(p, call)}

\* The provider's rows of their candidates and the repaired ones.  Repairs have
\* the first claim on the budget, in the order of the symbols.
Repaired(fresh, call) ==
    LET own(c)      == ProviderRows(c, call.asof, call.down)
        required(c) == RequiredDays(c, fresh, call)
        asking      == {c \in {p[1] : p \in fresh} : AsksRepair(c, own(c), required(c))}
    IN {[stock |-> c, asks |-> c \in asking, own |-> own(c),
         prices |-> Repair(c, own(c), required(c),
                           Within(call, Cardinality({b \in asking : b < c})).down)]
            : c \in {p[1] : p \in fresh}}

\* What the prices say of the windows.
Judged(fresh, repaired, call) ==
    {[window |-> x[1], own |-> x[2].own, prices |-> x[2].prices,
      row |-> EvaluateResearchWindow(x[1][1], x[1][2], x[2].prices, call)]
        : x \in {y \in fresh \X repaired : y[1][1] = y[2].stock}}

\* The asks of a call before that of f, when others come before all of these.
Place(f, asks, others) == others + Cardinality({g \in asks : TakenBefore(g.window, f.window)})

\* The proofs of rights, which come next: conflicts on TWSE, or all of a scoped
\* recovery.
Noticed(judged, call) ==
    {f \in judged : \/ call.mode = "scoped"
                   \/ (f.window[1] \in Listed /\ f.row.reason = CONFLICT_REASON)}
Rights(noticed, asks, call) ==
    {[window |-> f.window, row |-> RecoverRights(f.window[1], f.window[2], f.own, f.prices,
                                                 Within(call, Place(f, noticed, asks)))] : f \in noticed}

\* The proofs of other actions, which have what is left of the budget.
Unclear(judged, proven, call) ==
    {f \in judged : /\ call.mode # "scoped"
                   /\ f.row.reason \in {CONFLICT_REASON, "missing_future_price"}
                   /\ \A g \in proven : g.window # f.window}
Actions(unclear, asks, call) ==
    {[window |-> f.window, row |-> ClassifyAction(f.window[1], f.window[2], f.own, f.prices,
                                                  Within(call, Place(f, unclear, asks)))] : f \in unclear}

\* What is not proven is what the prices say, or that the candidate is stale.
Findings(pending, judged, proven, call) ==
    LET stale == {[window |-> p, row |-> Skipped("stale_candidate_price", 0, call.asof)]
                     : p \in {x \in pending : x[1] \in OutOfDate}}
        plain == {f \in judged : f.row.status # "pending" /\ \A g \in proven : g.window # f.window}
        found == proven \cup (IF call.mode = "scoped" THEN {} ELSE plain \cup stale)
    IN [p \in {f.window : f \in found} |-> (CHOOSE f \in found : f.window = p).row]

\* upsert_forward_validation_results: evidence is kept whatever was found
\* meanwhile, and written only over what it explains.
\* Mutant: the row is taken as it was when the call began.
AcceptedBlindly(p, old, new, scoped) == TRUE
Accepted(p, old, new, scoped) ==
    /\ ~Proven(old)
    /\ scoped => new.proof = "rights"
    /\ new.proof = "action" => ~Closed(old) /\ old.asof <= new.asof
    /\ new.proof = "rights" => ~Closed(old)
    /\ scoped => /\ new.target = new.asof /\ old.reason = CONFLICT_REASON
                 /\ old.target = new.target /\ old.asof >= new.target
    /\ Proven(new) => p[1] \in canonical

\* A retry is an attempt even when its outcome is unchanged.
\* Mutant: the time is that of the first write.
TouchedOnce(written) ==
    recency \o SetToSortSeq(written \ ToSet(recency), TakenBefore)
Touched(written) ==
    SelectSeq(recency, LAMBDA p : p \notin written)
    \o SetToSortSeq(written, TakenBefore)

-----------------------------------------------------------------------------
ResearchInit ==
    /\ world \in ResearchSettings
    /\ now = 0 /\ canonical = Stocks
    /\ verdicts = [c \in Stocks |-> [w \in Horizons |-> None]]
    /\ recency = SetToSeq(Hints)
    /\ request = [k \in Threads |-> Resting]

DayPasses == /\ now < LastDate
           /\ now' = now + 1
           /\ UNCHANGED <<world, canonical, verdicts, recency, request>>

\* A newer run of the signal date replaces the candidates'.
Rerun == /\ Reruns /\ canonical # {}
         /\ canonical' = {}
         /\ UNCHANGED <<world, now, verdicts, recency, request>>

\* The handler up to its first provider call.
Start(k, mode, asof) ==
    /\ request[k] = Resting
    /\ now - AsOfLag <= asof /\ asof <= now /\ (mode = "scoped" => asof > 0)
    /\ request' = [request EXCEPT ![k] =
                      [Resting EXCEPT !.phase = "started", !.mode = mode, !.asof = asof,
                                      !.pending = ToEvaluate(mode, asof)]]
    /\ UNCHANGED <<world, now, canonical, verdicts, recency>>

\* The provider calls and what is concluded from them.
Conclude(k, found, whole) ==
    request' = [request EXCEPT ![k].phase = "concluded", ![k].pending = {},
                               ![k].whole = whole, ![k].found = found]
Research(k, down, budget) ==
    /\ request[k].phase = "started"
    /\ \E call \in {Call(request[k].mode, request[k].asof, down, budget)} :
       \E repaired \in {Repaired(Fresh(request[k].pending, call), call)} :
       \E judged \in {Judged(Fresh(request[k].pending, call), repaired, call)} :
       \E repairs \in {Cardinality({s \in repaired : s.asks})}, noticed \in {Noticed(judged, call)} :
       \E rights \in {{f \in Rights(noticed, repairs, call) : f.row # None}} :
       \E unclear \in {Unclear(judged, rights, call)} :
       \E actions \in {{f \in Actions(unclear, repairs + Cardinality(noticed), call) : f.row # None}} :
          Conclude(k, Findings(request[k].pending, judged, rights \cup actions, call),
                   down = {} /\ budget = Max(Budgets))
    /\ UNCHANGED <<world, now, canonical, verdicts, recency>>

\* The upserts, each row read again under its lock, and the router's commit.
Save(k) ==
    /\ request[k].phase = "concluded"
    /\ LET found == request[k].found
           written == {p \in DOMAIN found :
                         Accepted(p, verdicts[p[1]][p[2]], found[p], request[k].mode = "scoped")}
       IN /\ verdicts' = [c \in Stocks |-> [w \in Horizons |->
                            IF <<c, w>> \in written THEN found[<<c, w>>] ELSE verdicts[c][w]]]
          /\ recency' = Touched(written)
    /\ request' = [request EXCEPT ![k] = Resting]
    /\ UNCHANGED <<world, now, canonical>>

\* The call is cut off, or its insert meets another's: all is rolled back.
Drop(k) == /\ request[k] # Resting
           /\ request' = [request EXCEPT ![k] = Resting]
           /\ UNCHANGED <<world, now, canonical, verdicts, recency>>

ResearchNext ==
    \/ DayPasses \/ Rerun
    \/ \E k \in Active :
          \/ \E mode \in Requests, asof \in 0 .. LastDate : Start(k, mode, asof)
          \/ \E down \in Outages, budget \in Budgets : Research(k, down, budget)
          \/ Save(k) \/ Drop(k)

\* The days pass; the workflow calls on every one of them.  Sources fail or are
\* slow, and calls are cut off, whatever candidates a call holds: of those that
\* hold a candidate, or have found out about it, not all meet with that.  No call
\* has a larger budget than the largest.
Holds(k, c) == \E p \in request[k].pending \cup DOMAIN request[k].found : p[1] = c
ResearchFairness ==
    /\ WF_researchVars(DayPasses)
    /\ SF_researchVars(\E k \in Due : Start(k, "due", now))
    /\ WF_researchVars(\E k \in Due : Research(k, {}, Max(Budgets)) \/ Save(k))
    /\ \A c \in Stocks :
         /\ SF_researchVars(\E k \in Due : /\ request[k].asof = now /\ Holds(k, c)
                                         /\ Research(k, {}, Max(Budgets)))
         /\ SF_researchVars(\E k \in Due : /\ request[k].asof = now /\ Holds(k, c)
                                         /\ request[k].whole /\ Save(k))

ResearchSpec == ResearchInit /\ [][ResearchNext]_researchVars /\ ResearchFairness

-----------------------------------------------------------------------------
(* Properties *)

WindowOf(w) == FirstOf(Sessions \ {0}, w)

\* A validated window ends on its n-th session, and none of its prices is one
\* the official archive contradicts; with official evidence all are those that
\* were traded at.
ValidatedIsOfficial ==
    \A c \in Stocks, w \in Horizons :
        LET r == verdicts[c][w] IN
        r.status = "validated" =>
            /\ r.target = Max(WindowOf(w)) /\ Cardinality(WindowOf(w)) = w /\ r.target <= r.asof
            /\ Archived = Sessions \/ Proven(r) => r.raw

\* A window is given up for good only for a stale candidate or an event of its
\* own days; never for a conflict, however long it lasts.
ClosedForCause ==
    \A c \in Stocks, w \in Horizons :
        LET r == verdicts[c][w] IN
        (r.status = "skipped" /\ Closed(r)) =>
            \/ c \in OutOfDate
            \/ Event(c) \in {"distribution", "halt"} /\ EventDay \in WindowOf(w)

\* What is stored of a window is what became of it.
VerdictsAreSound == ValidatedIsOfficial /\ ClosedForCause

\* Due calls that come one at a time.
OneDue == (\A j, k \in Active : j = k) /\ Requests = {"due"}

\* What official evidence has settled stays, whatever an overlapping call that
\* looked earlier concludes; and so does all that is settled, when due calls come
\* one at a time.
ProvenStays ==
    [][\A c \in Stocks, w \in Horizons :
          (Proven(verdicts[c][w]) \/ (OneDue /\ Closed(verdicts[c][w])))
          => verdicts'[c][w] = verdicts[c][w]]_researchVars

\* The provider's prices of the window's archived days agree with the archive,
\* or an event of the window explains why not.
Explained(c, w) ==
    \/ Event(c) = "none"
    \/ /\ EventDay \in WindowOf(w) /\ Gaps = {}
       /\ \/ Event(c) = "rights" /\ c \in Listed
          \/ Event(c) = "distribution"
          \/ Event(c) = "halt" /\ HaltDay \in WindowOf(w)

\* The most asks of a call on the last day: a repair for a candidate whose rows
\* have gaps, and two proofs for a window of its batch.
Batch == IF LastDate - AsOfLag <= Lookback THEN Cardinality(Windowed) ELSE ResumeMax
MostAsks == (IF Gaps = {} THEN 0 ELSE Cardinality(Stocks)) + 2 * Min({Batch, Cardinality(Windowed)})

\* No official source has to be asked of the window, or every call can ask all
\* that its batch needs, whatever that is.
Affordable(c, w) ==
    \/ Event(c) = "none" /\ Gaps \cap WindowOf(w) = {}
    \/ MostAsks <= Max(Budgets)

\* Do the default dates hold the window, or has a call written a row of it?
Followed(c, w) == LastDate <= Lookback \/ <<c, w>> \in ToSet(recency)

\* Under a workflow that returns, and within a budget that a batch does not
\* exceed, every window that is followed and can be settled is, however far the
\* default start date has moved past it and whatever conflicts nothing explains:
\* each keeps its place in the batch only until it has been tried.  Where batches
\* exceed the budget this is said only of windows that need no evidence: the same
\* first symbols may spend it in every call, and later ones wait for ever.
EventuallyResearched ==
    <>[](now = LastDate /\ Due # {} /\ Active = Due /\ ~Reruns /\ Prepared \subseteq Sessions =>
         \A c \in Stocks \ OutOfDate, w \in Horizons :
             Explained(c, w) /\ Affordable(c, w) /\ Followed(c, w) /\ Cardinality(WindowOf(w)) = w
                 => Closed(verdicts[c][w]))
=============================================================================
