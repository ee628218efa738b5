-------------------------- MODULE ForwardValidation --------------------------
(***************************************************************************)
(* Close-based forward validation (v2) of daily-radar candidates and of    *)
(* general-analysis samples: what became of a candidate n market sessions  *)
(* after its signal.  One call loads candidates and stored prices,         *)
(* discovers the windows that are due, leaves out the settled ones,        *)
(* fetches what it misses, evaluates and upserts, all in one transaction   *)
(* that takes no row lock.  Day 0 is the signal day; days are calendar     *)
(* days, of which only some are market sessions.                           *)
(***************************************************************************)
EXTENDS Integers, FiniteSets, FiniteSetsExt

CONSTANTS Candidates,  \* candidates of the canonical runs, or samples
          Stop,        \* the day a stopped candidate's trading ends
          Ends,        \* the day the termination evidence counts from
          Workers,     \* threads serving requests
          Settings     \* what a behaviour may be about: one of these records

VARIABLES setting,   \* the track, the candidates' kinds and the bounds; never changes
          today,     \* the calendar
          sessions,  \* external: the market sessions so far
          index,     \* external: sessions the provider has of the benchmark
          quotes,    \* external: sessions it has of each candidate's symbol
          raw,       \* sessions with a price in final stock_raw_data rows
          bench,     \* sessions in the prepared market context's history
          results,   \* the result row by candidate and window
          call       \* the request each worker serves

Windows   == setting.windows    \* window lengths, in sessions
LastDay   == setting.lastDay    \* bound: the last calendar day
Holidays  == setting.holidays   \* days that may be no market session
Stale     == setting.stale      \* candidates whose own price is older than the signal
Snapshot  == setting.snapshot   \* candidates that carry a usable entry close
Stopped   == setting.stopped    \* candidates that stop trading, with reviewed evidence
Lifecycle == setting.lifecycle  \* the radar track: lifecycle evidence, as-of conditions
Modes     == setting.modes      \* request modes
EarlyAsOf == setting.earlyAsOf  \* requests for an as_of_date before today are made
Scheduled == setting.scheduled  \* workers the due workflow calls

ASSUME StopAssumption == Stop \in 1 .. Ends
ASSUME SettingsAssumption ==
    \A s \in Settings :
        /\ s.windows \subseteq Nat \ {0} /\ IsFiniteSet(s.windows) /\ s.lastDay \in Nat
        /\ s.stale \cup s.snapshot \cup s.stopped \subseteq Candidates
        /\ s.modes \subseteq {"due", "range"} /\ s.scheduled \subseteq Workers

Days == 0 .. LastDay

vars == <<setting, today, sessions, index, quotes, raw, bench, results, call>>
external == <<setting, today, sessions, index, quotes, raw, bench>>

-----------------------------------------------------------------------------
(* Data *)

Reasons == {"stale_candidate_price", "missing_candidate_entry_price",
            "missing_future_price", "missing_benchmark", "trading_terminated_in_window"}

\* TERMINAL_FORWARD_VALIDATION_SKIP_REASONS
Terminal == {"stale_candidate_price", "trading_terminated_in_window"}

\* A result row; target 0 is None.
Results == [status : {"none", "validated", "skipped"}, reason : Reasons \cup {"none"},
            target : Days, asof : Days]
NoResult == [status |-> "none", reason |-> "none", target |-> 0, asof |-> 0]
\* Mutant: a target is recorded for what has none.
SkipDated(reason, asof) == [status |-> "skipped", reason |-> reason, target |-> -1, asof |-> asof]
Skip(reason, asof) == [status |-> "skipped", reason |-> reason, target |-> 0, asof |-> asof]

\* A request: its prices are the sessions it has a row of, with positive high,
\* low and close (normalize_price_series drops the others).
Calls == [phase : {"idle", "begun", "indexed", "ready"}, mode : {"due", "range"},
          asof : Days, prices : [Candidates -> SUBSET Days], index : SUBSET Days,
          pending : [Candidates -> SUBSET Windows]]
Idle == [phase |-> "idle", mode |-> "due", asof |-> 0, index |-> {},
         prices |-> [c \in Candidates |-> {}], pending |-> [c \in Candidates |-> {}]]

\* future_price_rows
Future(prices, asof) == {d \in prices : d > 0 /\ d <= asof}

\* The first n of a set of days, and the n-th.
FirstRows(days, n) == {d \in days : Cardinality({e \in days : e <= d}) <= n}
Nth(days, n) == CHOOSE d \in days : Cardinality({e \in days : e <= d}) = n

-----------------------------------------------------------------------------
(* Discovery: due_windows_by_candidate and exclude_persisted_..._windows *)

\* Windows that may be complete: by the rows of either series, or, with no row
\* after the signal and one series missing altogether, by the calendar.
Discovered(c, asof, prices, calendar) ==
    LET rows == Max({Cardinality(Future(prices, asof)), Cardinality(Future(calendar, asof))})
    IN IF c \in Stale THEN Windows
       ELSE IF rows = 0 /\ (prices = {} \/ calendar = {})
            THEN {w \in Windows : asof >= 2 * w}
            ELSE {w \in Windows : rows >= w}

\* _proven_termination: the evidence, as of the evaluation, still says so.
Evidence(c, asof) == Lifecycle /\ c \in Stopped /\ asof >= Ends
ProvenTermination(c, r) == Evidence(c, r.asof) /\ 0 < Stop /\ Stop <= r.target

\* A result that is final for a radar request of the date, ...
SettledRadar(c, r, asof) ==
    /\ \/ r.status = "validated" /\ r.target <= asof
       \/ r.status = "skipped" /\ r.asof <= asof /\ r.reason \in Terminal
    /\ r.reason = "trading_terminated_in_window" => ProvenTermination(c, r)
\* ... for a general-analysis request, ...
SettledAnalysis(r) == \/ r.status = "validated"
                      \/ r.status = "skipped" /\ r.reason \in Terminal
\* ... and for either.
Settled(c, r, asof) == IF Lifecycle THEN SettledRadar(c, r, asof) ELSE SettledAnalysis(r)

\* Mutant: the stored results are not looked at.
PendingAll(asof, prices, calendar) ==
    [c \in Candidates |-> Discovered(c, asof, prices[c], calendar)]
\* Mutant: any stored row, a retryable skip too, counts as done.
PendingUnseen(asof, prices, calendar) ==
    [c \in Candidates |-> {w \in Discovered(c, asof, prices[c], calendar) :
                              results[c][w] = NoResult}]
Pending(asof, prices, calendar) ==
    [c \in Candidates |-> {w \in Discovered(c, asof, prices[c], calendar) :
                              ~Settled(c, results[c][w], asof)}]

-----------------------------------------------------------------------------
(* Preparation: prepare_due_forward_validation *)

WithPending(k) == {c \in Candidates : call[k].pending[c] # {}}

\* benchmark_requires_forward_price_refresh
IndexNeeded(k) ==
    \E c \in WithPending(k) :
        \/ 0 \notin call[k].index
        \/ Cardinality(Future(call[k].index, call[k].asof)) < Max(call[k].pending[c])

\* symbols_requiring_forward_price_refresh
QuotesNeeded(k) ==
    {c \in WithPending(k) :
        LET most == Max(call[k].pending[c]) IN
        \/ Cardinality(Future(call[k].prices[c], call[k].asof)) < most
        \/ ~(FirstRows(Future(call[k].index, call[k].asof), most) \subseteq call[k].prices[c])}

\* evaluation_ready_windows_by_candidate
ReadyWindows(k, c) ==
    LET at == call[k]
        calendar == Future(at.index, at.asof)
    IN {w \in at.pending[c] :
           \/ c \in Stale
           \/ at.asof >= 2 * w
           \/ /\ 0 \in at.index
              /\ Cardinality(calendar) >= w
              /\ FirstRows(calendar, w) \subseteq at.prices[c]}

-----------------------------------------------------------------------------
(* Evaluation: evaluate_forward_window and the lifecycle diagnostics *)

HasEntry(c, prices) == c \in Snapshot \/ 0 \in prices

\* The order of the checks is the code's.  The target is the n-th session of the
\* benchmark, not the n-th row of the candidate.
\* Mutant: the candidate's own rows are counted.
EvaluateOwnRows(c, w, asof, prices, calendar) ==
    LET own == Future(prices, asof) IN
    IF c \in Stale THEN Skip("stale_candidate_price", asof)
    ELSE IF ~HasEntry(c, prices) THEN Skip("missing_candidate_entry_price", asof)
    ELSE IF Cardinality(own) < w THEN Skip("missing_future_price", asof)
    ELSE [status |-> "validated", reason |-> "none", target |-> Nth(own, w), asof |-> asof]
Evaluate(c, w, asof, prices, calendar) ==
    LET market == Future(calendar, asof) IN
    IF c \in Stale THEN Skip("stale_candidate_price", asof)
    ELSE IF ~HasEntry(c, prices) THEN Skip("missing_candidate_entry_price", asof)
    ELSE IF Cardinality(Future(prices, asof)) < w THEN Skip("missing_future_price", asof)
    ELSE IF 0 \notin calendar \/ Cardinality(market) < w THEN Skip("missing_benchmark", asof)
    ELSE IF ~(FirstRows(market, w) \subseteq prices) THEN Skip("missing_future_price", asof)
    ELSE [status |-> "validated", reason |-> "none", target |-> Nth(market, w), asof |-> asof]

\* _with_market_lifecycle_diagnostics: a missing price of a symbol that had
\* stopped trading by the target is final.
\* Mutant: the target is not looked at.
DiagnosedAnyTarget(c, w, r, calendar) ==
    IF r.reason = "missing_future_price" /\ Evidence(c, r.asof)
    THEN [r EXCEPT !.reason = "trading_terminated_in_window", !.target = Stop] ELSE r
Diagnosed(c, w, r, calendar) ==
    LET market == Future(calendar, r.asof) IN
    IF /\ r.reason = "missing_future_price" /\ Evidence(c, r.asof)
       /\ 0 \in calendar /\ Cardinality(market) >= w /\ Nth(market, w) >= Stop
    THEN [r EXCEPT !.reason = "trading_terminated_in_window", !.target = Nth(market, w)]
    ELSE r

Outcome(k, c, w) ==
    LET at == call[k] IN
    Diagnosed(c, w, Evaluate(c, w, at.asof, at.prices[c], at.index), at.index)

-----------------------------------------------------------------------------
Init == /\ setting \in Settings
        /\ today = 0 /\ sessions = {0}
        /\ index = {} /\ quotes = [c \in Candidates |-> {}]
        /\ raw = [c \in Candidates |-> {}] /\ bench = {}
        /\ results = [c \in Candidates |-> [w \in Windows |-> NoResult]]
        /\ call = [k \in Workers |-> Idle]

\* External: a day passes; it was a market session or not.
Tick == /\ today < LastDay
        /\ today' = today + 1
        /\ \/ sessions' = sessions \cup {today + 1}
           \/ today + 1 \in Holidays /\ sessions' = sessions
        /\ UNCHANGED <<setting, index, quotes, raw, bench, results, call>>

\* External: the provider gets the next session of the benchmark, or a session
\* of a symbol, sooner or later and in any order.
PublishIndex == /\ index # sessions
                /\ index' = index \cup {Min(sessions \ index)}
                /\ UNCHANGED <<setting, today, sessions, quotes, raw, bench, results, call>>
Traded(c) == IF c \in Stopped THEN {d \in sessions : d < Stop} ELSE sessions
PublishQuote(c) == /\ \E d \in Traded(c) \ quotes[c] : quotes' = [quotes EXCEPT ![c] = @ \cup {d}]
                   /\ UNCHANGED <<setting, today, sessions, index, raw, bench, results, call>>

\* The pipeline stores final raw rows of a symbol while it selects it, and the
\* benchmark history in the prepared row of the day.
StoreRows(c) == /\ raw' = [raw EXCEPT ![c] = quotes[c]]
                /\ raw' # raw
                /\ UNCHANGED <<setting, today, sessions, index, quotes, bench, results, call>>
StoreBenchmark == /\ bench' = index
                  /\ bench' # bench
                  /\ UNCHANGED <<setting, today, sessions, index, quotes, raw, results, call>>

\* The handler up to the first provider call.  Range mode evaluates what is
\* stored, every window of every candidate.
Begin(k, mode, asof) ==
    /\ call[k] = Idle
    /\ asof <= today /\ (asof = today \/ EarlyAsOf)
    /\ LET prices == [c \in Candidates |-> {d \in raw[c] : d <= asof}]
           calendar == {d \in bench : d <= asof}
       IN call' = [call EXCEPT ![k] =
            [phase   |-> IF mode = "due" THEN "begun" ELSE "ready",
             mode    |-> mode, asof |-> asof, prices |-> prices, index |-> calendar,
             pending |-> IF mode = "due" THEN Pending(asof, prices, calendar)
                         ELSE [c \in Candidates |-> Windows]]]
    /\ UNCHANGED <<external, results>>

\* The benchmark first, then the candidates whose rows do not cover its calendar;
\* merge_price_series keeps the stored rows.  The provider may leave symbols out.
FetchIndex(k) ==
    /\ call[k].phase = "begun"
    /\ call' = [call EXCEPT ![k].phase = "indexed",
                            ![k].index = IF IndexNeeded(k)
                                         THEN @ \cup {d \in index : d <= call[k].asof} ELSE @]
    /\ UNCHANGED <<external, results>>

FetchQuotes(k, found) ==
    /\ call[k].phase = "indexed"
    /\ LET got == QuotesNeeded(k) \cap found
       IN call' = [call EXCEPT
            ![k].phase  = "ready",
            ![k].prices = [c \in Candidates |->
                @[c] \cup (IF c \in got THEN {d \in quotes[c] : d <= call[k].asof} ELSE {})]]
    /\ UNCHANGED <<external, results>>

\* Evaluation, the upserts and the commit.
Evaluated(k, c, w) == IF call[k].mode = "range" THEN w \in call[k].pending[c]
                      ELSE w \in ReadyWindows(k, c)
Commit(k) ==
    /\ call[k].phase = "ready"
    /\ results' = [c \in Candidates |-> [w \in Windows |->
                     IF Evaluated(k, c, w) THEN Outcome(k, c, w) ELSE results[c][w]]]
    /\ call' = [call EXCEPT ![k] = Idle]
    /\ UNCHANGED external

\* No data from the provider raises out of the handler: nothing is written.
Abort(k) == /\ call[k] # Idle
            /\ call' = [call EXCEPT ![k] = Idle]
            /\ UNCHANGED <<external, results>>

Finish(k) == FetchIndex(k) \/ FetchQuotes(k, Candidates) \/ Commit(k)

Handle(k) == \/ \E mode \in Modes, asof \in Days : Begin(k, mode, asof)
             \/ FetchIndex(k)
             \/ \E found \in SUBSET Candidates : FetchQuotes(k, found)
             \/ Commit(k) \/ Abort(k)

Market == Tick \/ PublishIndex \/ StoreBenchmark
          \/ \E c \in Candidates : PublishQuote(c) \/ StoreRows(c)

Next == Market \/ \E k \in Workers : Handle(k)

Spec == Init /\ [][Next]_vars

\* The call has what the provider has.
Answered(k) == \A c \in QuotesNeeded(k) : Future(quotes[c], call[k].asof) \subseteq call[k].prices[c]

\* The days pass, the benchmark is published and archived daily, a symbol's
\* prices come in some day; the due workflow comes back every weekday, and not
\* all of its calls are cut off or refused a symbol.
Fairness ==
    /\ WF_vars(Tick) /\ WF_vars(PublishIndex) /\ WF_vars(StoreBenchmark)
    /\ \A c \in Candidates : WF_vars(PublishQuote(c))
    /\ \A k \in Workers :
          /\ SF_vars(k \in Scheduled /\ Begin(k, "due", LastDay))
          /\ SF_vars(k \in Scheduled /\ FetchIndex(k))
          /\ SF_vars(k \in Scheduled /\ FetchQuotes(k, Candidates))
          /\ WF_vars(k \in Scheduled /\ Commit(k))
          /\ SF_vars(k \in Scheduled /\ Answered(k) /\ Commit(k))

FairSpec == Spec /\ Fairness

-----------------------------------------------------------------------------
(* Properties *)

\* Type invariant.
TypeOK == /\ today \in Days
          /\ sessions \in SUBSET Days /\ index \in SUBSET sessions
          /\ quotes \in [Candidates -> SUBSET Days] /\ raw \in [Candidates -> SUBSET Days]
          /\ bench \in SUBSET Days
          /\ results \in [Candidates -> [Windows -> Results]]
          /\ call \in [Workers -> Calls]

\* Whatever a symbol's own rows look like (late, with holes, fetched by parts),
\* a validated window ends on the n-th market session after the signal, a day
\* the call knew of and has a price of.
ValidatedIsNthSession ==
    \A c \in Candidates, w \in Windows :
        LET r == results[c][w] IN
        r.status = "validated" =>
            /\ r.target = Nth(sessions \ {0}, w)
            /\ r.target <= r.asof
            /\ FirstRows(sessions \ {0}, w) \subseteq quotes[c]

\* A window is given up for good only for a candidate that was stale, or whose
\* trading stopped before the window's last session.
GivenUpForCause ==
    \A c \in Candidates, w \in Windows :
        LET r == results[c][w] IN
        (r.status = "skipped" /\ r.reason \in Terminal) =>
            \/ c \in Stale
            \/ c \in Stopped /\ Nth(sessions \ {0}, w) >= Stop

\* With due calls one at a time, a validated window that had ended by the day
\* asked for is never turned back into a skip, and never moves.
SettledStays ==
    [][\A c \in Candidates, w \in Windows, k \in Workers :
          (/\ Modes = {"due"} /\ call[k] # Idle /\ results' # results /\ results[c][w].status = "validated"
           /\ results[c][w].target <= call[k].asof)
          => results'[c][w] = results[c][w]]_vars

\* The windows that can end within the bound.
Complete(w) == Cardinality(sessions \ {0}) >= w

\* With due calls for the current day only, every window that ends is settled
\* for good some day, whatever skips were recorded for it while prices were
\* missing and however many calls failed before.  The candidate carries its
\* entry close, as scored ones do: the rows of the window are fetched when one
\* of them is missing, the row of the signal day alone is not.
EventuallySettled ==
    \A c \in Candidates :
        <>[](/\ today = LastDay /\ Scheduled # {} /\ ~EarlyAsOf /\ c \in Snapshot
             => \A w \in Windows : Complete(w) => Settled(c, results[c][w], LastDay))

\* What is stored of a window is what became of it: a validated outcome is that
\* of its last session, and it is given up only for a reason that stays.
OutcomesAreSound == TypeOK /\ ValidatedIsNthSession /\ GivenUpForCause
=============================================================================
