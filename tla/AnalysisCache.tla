--------------------------- MODULE AnalysisCache ----------------------------
(***************************************************************************)
(* One stock on the POST /analyze endpoint (analysis/router.py,            *)
(* analysis/application, graph, services/history_loader.py) and the rows   *)
(* its calls share: the analysis of the day, the raw data of the day and   *)
(* the calibration sample of the day.                                      *)
(*                                                                         *)
(* A call decides at its first line whether the market has closed, runs    *)
(* the graph for as long as its sources take, and then writes the row of   *)
(* the day it has become.  Several calls overlap; none takes a lock.       *)
(*                                                                         *)
(* Time is a count of half days: at 2d the market of day d is open, at     *)
(* 2d + 1 it has closed.                                                   *)
(***************************************************************************)
EXTENDS Integers, FiniteSets

CONSTANTS
    Callers,   \* concurrent requests for the stock
    None,      \* no row, or nothing fetched yet
    NoData,    \* the data of a run whose every crawl failed
    Settings   \* what a behaviour may be about: one of these records

VARIABLES
    setting,  \* what the calls may do and the bounds; never changes
    now,      \* the current half day
    cache,    \* stock_analysis_cache: the analysis row of each day
    raw,      \* stock_raw_data: the raw row of each day
    sample,   \* analysis_calibration_samples: the data a day's sample rests on
    call      \* the call each caller makes
vars == <<setting, now, cache, raw, sample, call>>

MaxTime      == setting.maxTime       \* the last half day (bound)
MaxRetries   == setting.maxRetries    \* crawls a graph run repeats
Active       == setting.active        \* the callers that come
Persisting   == setting.persisting    \* the values persist_result may take

Times == 0..MaxTime
Day(t) == t \div 2
Closed(t) == t % 2 = 1
Days == 0..Day(MaxTime)

ASSUME CallersAssumption == IsFiniteSet(Callers) /\ None \notin Callers /\ NoData # None
ASSUME SettingsAssumption ==
    \A s \in Settings : /\ s.maxTime \in Nat /\ s.maxRetries \in Nat
                        /\ s.active \subseteq Callers /\ s.persisting \subseteq BOOLEAN

-----------------------------------------------------------------------------
(* Data *)
Idle == [pc |-> "idle"]
Yesterday == Day(now) - 1

\* The rows of a day: the analysis with what its calibration sample is captured
\* from, and the raw data with when they were fetched.
Analysis(final, data, replay) == [final |-> final, data |-> data, replay |-> replay]
RawRow(data) == [data |-> data, fetched |-> now]

\* Mutant: a provisional row is served after the close.
ServesAny(row, t) == row # None
\* A stored analysis serves a call when it is final, or while the market of the
\* day is open; the version of the strategy never changes here.
Serves(row, t) == row # None /\ (row.final \/ ~Closed(t))

\* Raw rows of the day are reused for ten minutes: surely not after a half day.
Recent(row) == row # None /\ now - row.fetched <= 1

-----------------------------------------------------------------------------
(* Actions *)
Init ==
    /\ setting \in Settings
    /\ now = 0
    /\ cache = [d \in Days |-> None]
    /\ raw = [d \in Days |-> None]
    /\ sample = [d \in Days |-> None]
    /\ call = [c \in Callers |-> Idle]

Tick ==
    /\ now < MaxTime
    /\ Closed(now) => \A c \in Callers : call[c].pc \in {"idle", "answered"}
    /\ now' = now + 1
    /\ UNCHANGED <<setting, cache, raw, sample, call>>

\* The managed refresh stores the closing data of the day.
ManagedRefresh ==
    /\ Closed(now)
    /\ raw' = [raw EXCEPT ![Day(now)] = RawRow(now)]
    /\ UNCHANGED <<setting, now, cache, sample, call>>

Answer(c, final, data) ==
    call' = [call EXCEPT ![c] = [pc |-> "answered", start |-> @.start, persist |-> @.persist,
                                 final |-> final, data |-> data]]

\* The analysis of the day answers the call; a final one first retries the
\* calibration sample from the replay input stored with it.
Begin(c, persist) ==
    /\ call[c].pc \in {"idle", "answered"}
    /\ LET row == cache[Day(now)]
           hit == persist /\ Serves(row, now)
       IN  call' = [call EXCEPT ![c] =
             IF hit THEN [pc |-> IF row.final THEN "retry" ELSE "hit", start |-> now,
                          persist |-> persist, row |-> row, day |-> Day(now)]
             ELSE [pc |-> "raw", start |-> now, persist |-> persist]]
    /\ UNCHANGED <<setting, now, cache, raw, sample>>

\* Mutant: a hit does not retry the sample.
SkipRetry(c) ==
    /\ call[c].pc = "retry"
    /\ call' = [call EXCEPT ![c].pc = "hit"]
    /\ UNCHANGED <<setting, now, cache, raw, sample>>
\* A failed retry is rolled back and logged.  A row the nightly backfill made
\* final carries no replay input.
RetryCapture(c) ==
    /\ call[c].pc = "retry"
    /\ LET row == call[c].row
           d == call[c].day
       IN  \/ sample' = [sample EXCEPT ![d] = IF @ = None /\ row.replay THEN row.data ELSE @]
           \/ UNCHANGED sample
    /\ call' = [call EXCEPT ![c].pc = "hit"]
    /\ UNCHANGED <<setting, now, cache, raw>>

Hit(c) ==
    /\ call[c].pc = "hit"
    /\ Answer(c, call[c].row.final, call[c].row.data)
    /\ UNCHANGED <<setting, now, cache, raw, sample>>

\* A call that stores nothing may start from the raw row of the day.
ReadRaw(c) ==
    /\ call[c].pc = "raw"
    /\ \E reuse \in BOOLEAN :
        /\ reuse => ~call[c].persist /\ Recent(raw[Day(now)])
        /\ call' = [call EXCEPT ![c] =
             [pc |-> "backfill", start |-> @.start, persist |-> @.persist, reuse |-> reuse,
              data |-> IF reuse THEN raw[Day(now)].data ELSE None, tries |-> 0]]
    /\ UNCHANGED <<setting, now, cache, raw, sample>>

\* The symbol is not found, or a step of the call fails: nothing more is stored.
Fail(c) ==
    /\ call[c].pc \in {"backfill", "crawl"}
    /\ call' = [call EXCEPT ![c] = Idle]
    /\ UNCHANGED <<setting, now, cache, raw, sample>>

\* The indicators of yesterday's provisional analysis are replaced by closing
\* ones and the row is marked final; its analysis stays what it was.
BackfillYesterday(c) ==
    /\ call[c].pc = "backfill"
    /\ \E fetched \in BOOLEAN :
        cache' = [d \in Days |->
            IF fetched /\ d = Yesterday /\ cache[d] # None
            THEN [cache[d] EXCEPT !.final = TRUE] ELSE cache[d]]
    /\ call' = [call EXCEPT ![c].pc = "crawl"]
    /\ UNCHANGED <<setting, now, raw, sample>>

\* The graph: a snapshot the call does not have yet is fetched, MaxRetries + 1
\* times at most; without one the analysis goes on with what it has.
Crawl(c) ==
    /\ call[c].pc = "crawl"
    /\ \/ call' = [call EXCEPT ![c].pc = "save",
                               ![c].data = IF @ = None THEN now ELSE @]
       \/ /\ call[c].data = None
          /\ IF call[c].tries < MaxRetries
             THEN call' = [call EXCEPT ![c].tries = @ + 1]
             ELSE call' = [call EXCEPT ![c].pc = "save", ![c].data = NoData]
    /\ UNCHANGED <<setting, now, cache, raw, sample>>

\* Mutant: every stored analysis carries its replay input.
SaveReplay(c) ==
    /\ call[c].pc = "save"
    /\ IF call[c].persist
       THEN cache' = [cache EXCEPT ![Day(now)] = Analysis(Closed(call[c].start), call[c].data, TRUE)]
       ELSE UNCHANGED cache
    /\ call' = [call EXCEPT ![c].pc = "capture"]
    /\ UNCHANGED <<setting, now, raw, sample>>
\* Mutant: finality is what the clock says when the analysis is stored.
SaveByClock(c) ==
    /\ call[c].pc = "save"
    /\ IF call[c].persist
       THEN cache' = [cache EXCEPT ![Day(now)] = Analysis(Closed(now), call[c].data, Closed(now))]
       ELSE UNCHANGED cache
    /\ call' = [call EXCEPT ![c].pc = "capture"]
    /\ UNCHANGED <<setting, now, raw, sample>>
\* The row of the day is written over, final when the call began after close.
Save(c) ==
    /\ call[c].pc = "save"
    /\ IF call[c].persist
       THEN LET final == Closed(call[c].start) IN
            cache' = [cache EXCEPT ![Day(now)] = Analysis(final, call[c].data, final)]
       ELSE UNCHANGED cache
    /\ call' = [call EXCEPT ![c].pc = "capture"]
    /\ UNCHANGED <<setting, now, raw, sample>>

\* Mutant: a provisional analysis is captured too.
CaptureAny(c) ==
    /\ call[c].pc = "capture"
    /\ \/ /\ call[c].persist
          /\ sample' = [sample EXCEPT ![Day(now)] = IF @ = None THEN call[c].data ELSE @]
       \/ UNCHANGED sample
    /\ call' = [call EXCEPT ![c].pc = "store"]
    /\ UNCHANGED <<setting, now, cache, raw>>
\* The first final analysis of the day is the day's sample, unless the
\* transaction fails: then it is rolled back and left to a later hit.
Capture(c) ==
    /\ call[c].pc = "capture"
    /\ \/ /\ call[c].persist /\ Closed(call[c].start)
          /\ sample' = [sample EXCEPT ![Day(now)] =
                            IF @ = None THEN call[c].data ELSE @]
       \/ UNCHANGED sample
    /\ call' = [call EXCEPT ![c].pc = "store"]
    /\ UNCHANGED <<setting, now, cache, raw>>

\* Freshly fetched data become the raw row of the day.
StoreRaw(c) ==
    /\ call[c].pc = "store"
    /\ IF call[c].reuse THEN UNCHANGED raw
       ELSE raw' = [raw EXCEPT ![Day(now)] = RawRow(call[c].data)]
    /\ Answer(c, Closed(call[c].start), call[c].data)
    /\ UNCHANGED <<setting, now, cache, sample>>

Work(c) == \/ RetryCapture(c) \/ Hit(c) \/ ReadRaw(c) \/ BackfillYesterday(c)
           \/ Crawl(c) \/ Save(c) \/ Capture(c) \/ StoreRaw(c)
Next ==
    \/ Tick \/ ManagedRefresh
    \/ \E c \in Active : (\E p \in Persisting : Begin(c, p)) \/ Work(c) \/ Fail(c)
Spec == Init /\ [][Next]_vars

\* Days pass, a user asks again and again, calls return, the sources answer a
\* call that asks over and over, and a sample that can be captured over and
\* over is captured in the end.
FairSpec ==
    /\ Spec
    /\ WF_vars(Tick)
    /\ \A c \in Callers :
        /\ WF_vars(c \in Active /\ Begin(c, TRUE)) /\ WF_vars(Work(c))
        /\ SF_vars(BackfillYesterday(c)) /\ SF_vars(Crawl(c) /\ call'[c].pc = "save")
        /\ SF_vars((RetryCapture(c) \/ Capture(c)) /\ sample' # sample)

-----------------------------------------------------------------------------
(* Properties *)
Data == Times \cup {NoData}
\* What was fetched after the close of day d, on day d.
ClosingOf(d) == {t \in Times : Day(t) = d /\ Closed(t)}

\* Rows carry data that had been fetched by now, and only a final analysis
\* carries the input its calibration sample is captured from.
TypeOK ==
    /\ \A d \in Days : cache[d] # None =>
         /\ cache[d].data \in (0..now) \cup {NoData}
         /\ cache[d].replay => cache[d].final
    /\ \A d \in Days : raw[d] # None => raw[d].data \in (0..now) \cup {NoData}
    /\ \A d \in Days : sample[d] \in (0..now) \cup {None, NoData}

\* The analysis of today is final only if it rests on closing data of today,
\* however many calls that began before the close are still writing.
FinalTodayIsClosing ==
    LET row == cache[Day(now)] IN
    row # None /\ row.final => row.data \in ClosingOf(Day(now)) \cup {NoData}

\* A storing call that begins after the close never answers with the prices of
\* the trading hours: a late provisional row is not served to it.
ClosedCallsGetClosingData ==
    \A c \in Callers :
        call[c].pc = "answered" /\ call[c].persist /\ Closed(call[c].start) =>
            /\ call[c].final
            /\ call[c].data \in ClosingOf(Day(call[c].start)) \cup {NoData}

\* A calibration sample rests on the closing data of the day it is dated.
SampleIsClosing ==
    \A d \in Days : sample[d] # None => sample[d] \in ClosingOf(d) \cup {NoData}

\* A late call may turn the analysis of the day provisional again; while users
\* keep asking it becomes final for good, and its sample is captured although
\* the capture that goes with the analysis may fail.
Asking == Closed(MaxTime) /\ Persisting = {TRUE}
Today == cache[Day(MaxTime)]
EventuallyFinal == <>[](Asking => Today # None /\ Today.final)
EventuallySampled == <>(Asking => sample[Day(MaxTime)] # None)

\* Nothing that is called final rests on prices of the trading hours: not the
\* row of the day, not the answer after the close, not the sample.
FinalIsClosing == TypeOK /\ FinalTodayIsClosing /\ ClosedCallsGetClosingData /\ SampleIsClosing

\* In the end the analysis of the day is final and its sample captured.
EventuallyComplete == EventuallyFinal /\ EventuallySampled
=============================================================================
